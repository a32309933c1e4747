------------------------- MODULE ServiceCommitments -------------------------
(***************************************************************************)
(* How the reports on one epoch become its commitment: every member of the *)
(* attesting quorum aggregates its own pool and votes once for the result, *)
(* the shares of equal votes recover a signature, members relay what was   *)
(* signed, and the producer of the boundary block attaches it.             *)
(*                                                                         *)
(* One epoch on one base: the request id binds both, so another base is    *)
(* another signing session.  A commitment is modelled by its verdicts; the *)
(* hash that is signed by the commitment itself.                           *)
(***************************************************************************)
EXTENDS Integers, Sequences, FiniteSets, Functions

CONSTANTS
    Nodes,          \* the nodes that follow the epoch
    Members,        \* those in the attesting quorum
    DoubleSigners,  \* members that may sign anything
    Threshold,      \* shares that recover a signature
    Sentinels,      \* sentinels assigned to each target
    Equivocators,   \* sentinels that may sign both statuses
    Targets,        \* the masternodes judged
    Agree,          \* nDSLSentinelAgree
    WithObserved,   \* commitment format version 2
    Window,         \* ticks from the signing offset to the last block
    MaxKept,        \* kSignedCommitmentsPerEpoch
    MaxExpiries,    \* bound: sessions that time out
    MaxRestarts,    \* bound: restarts
    None            \* no commitment, no node

ASSUME QuorumAssumption ==
    /\ IsFiniteSet(Nodes) /\ Members \subseteq Nodes /\ DoubleSigners \subseteq Members
    /\ Threshold \in Nat
    /\ 2 * Threshold > Cardinality(Members) + Cardinality(DoubleSigners)

ASSUME SentinelAssumption ==
    /\ IsFiniteSet(Sentinels) /\ Equivocators \subseteq Sentinels
    /\ Agree \in Nat \ {0}
    /\ 2 * Agree > Cardinality(Sentinels)

ASSUME WindowAssumption ==
    /\ WithObserved \in BOOLEAN
    /\ Window \in Nat \ {0} /\ MaxKept \in Nat \ {0}

VARIABLES
    made,       \* reports the sentinels signed
    pool,       \* pool[n]: the reports n holds
    pos,        \* pos[n]: last tick in the window, 0 before it
    warm,       \* warm[n]: n restarted, the epoch is a warm-up
    signed,     \* signed[n]: m_dsl_signed_msg_hash
    vote,       \* vote[n]: the vote in n's signing database
    candidates, \* candidates[n]: commitments n asked the quorum to sign
    kept,       \* kept[n]: signedCommitments, in order of arrival
    rec,        \* rec[n]: the recovered signature n holds
    shares,     \* signature shares alive in the sessions
    recovered,  \* history: commitments signed by the quorum
    relayed,    \* POSECOMMIT messages sent
    attached,   \* the commitment of the boundary block
    producer,   \* who built that block
    expiries, restarts, lateExpiry

Statuses == {"online", "missed"}
Reports == [sentinel : Sentinels, target : Targets, status : Statuses]
Commitments == [Targets -> {"missed", "online", "unobserved"}]

ASSUME NoneAssumption == None \notin Commitments /\ None \notin Nodes

nodeVars == <<pool, pos, warm, signed, vote, candidates, kept, rec>>
netVars == <<made, shares, recovered, relayed>>
blockVars == <<attached, producer>>
boundVars == <<expiries, restarts, lateExpiry>>
vars == <<nodeVars, netVars, blockVars, boundVars>>

Reporting(R, t, status) == {r.sentinel : r \in {x \in R : x.target = t /\ x.status = status}}

\* Mutant: one report short of the agreement counts as a verdict.
BuildLenient(R) ==
    [t \in Targets |->
        IF Cardinality(Reporting(R, t, "missed")) >= Agree - 1 THEN "missed"
        ELSE IF Cardinality(Reporting(R, t, "online")) >= Agree - 1 \/ ~WithObserved THEN "online"
        ELSE "unobserved"]

\* BuildServiceCommitment.  Version 1 reads the lack of a verdict as online.
Build(R) ==
    [t \in Targets |->
        IF Cardinality(Reporting(R, t, "missed")) >= Agree THEN "missed"
        ELSE IF Cardinality(Reporting(R, t, "online")) >= Agree \/ ~WithObserved THEN "online"
        ELSE "unobserved"]

\* CountUnobserved > 0.
Incomplete(c) == \E t \in Targets : c[t] = "unobserved"

Init ==
    /\ made \in SUBSET Reports
    /\ \A r, s \in made : r.sentinel = s.sentinel /\ r.target = s.target =>
                              r = s \/ r.sentinel \in Equivocators
    /\ pool = [n \in Nodes |-> {}]
    /\ pos = [n \in Nodes |-> 0]
    /\ warm = [n \in Nodes |-> FALSE]
    /\ signed = [n \in Nodes |-> None]
    /\ vote = [n \in Nodes |-> None]
    /\ candidates = [n \in Nodes |-> {}]
    /\ kept = [n \in Nodes |-> <<>>]
    /\ rec = [n \in Nodes |-> None]
    /\ shares = {} /\ recovered = {} /\ relayed = {}
    /\ attached = None /\ producer = None
    /\ expiries = 0 /\ restarts = 0 /\ lateExpiry = FALSE

Open == producer = None

\* AddReport: one report per sentinel and target.
ReceiveReport(n) ==
    /\ Open
    /\ \E r \in made :
          /\ \A s \in pool[n] : s.sentinel # r.sentinel \/ s.target # r.target
          /\ pool' = [pool EXCEPT ![n] = @ \cup {r}]
    /\ UNCHANGED <<pos, warm, signed, vote, candidates, kept, rec, netVars,
                   blockVars, boundVars>>

\* Mutant: neither duplicate nor cap is looked at.
StoreUncapped(list, c) == Append(list, c)

\* StoreSignedCommitment.
Store(list, c) ==
    IF c \in Range(list) \/ Len(list) >= MaxKept THEN list ELSE Append(list, c)

\* Whether the member n takes part in signing c: its vote for the request is
\* final, and only a second request for the same hash is served.
AsyncSignIfMember(n, c, allowReSign) ==
    vote[n] = None \/ (vote[n] = c /\ allowReSign)

\* Whether n asks for a signature on c at position p of the window; loaded is
\* the quorum's state, which can still be missing.
Asks(n, c, p, loaded) ==
    /\ loaded /\ ~warm[n] /\ signed[n] = None
    /\ ~(Incomplete(c) /\ p < Window)
    /\ AsyncSignIfMember(n, c, FALSE)

\* Mutant: a member never asks again.
NeverReAsked(n, asks) == {}

\* The shares of n's second request: what it signed, once more.
ReAsked(n, asks) ==
    IF ~asks /\ signed[n] # None /\ rec[n] = None
       /\ AsyncSignIfMember(n, signed[n], TRUE)
    THEN {[member |-> n, c |-> signed[n]]} ELSE {}

\* The signing part of ProcessDSLTick, with AsyncSignIfMember, and the relay.
Tick(n) ==
    /\ Open /\ n \in Members
    /\ \E p \in (pos[n] + 1) .. Window, loaded \in BOOLEAN :
          LET c == Build(pool[n])
              asks == Asks(n, c, p, loaded)
              cands == candidates[n] \cup (IF asks THEN {c} ELSE {})
              relays == rec[n] # None /\ rec[n] \in cands
          IN  /\ pos' = [pos EXCEPT ![n] = p]
              /\ signed' = [signed EXCEPT ![n] = IF asks THEN c ELSE @]
              /\ vote' = [vote EXCEPT ![n] = IF asks /\ rec[n] = None THEN c ELSE @]
              /\ candidates' = [candidates EXCEPT ![n] = cands]
              /\ shares' = shares \cup ReAsked(n, asks)
                           \cup (IF asks /\ rec[n] = None THEN {[member |-> n, c |-> c]} ELSE {})
              /\ kept' = [kept EXCEPT ![n] = IF relays THEN Store(@, rec[n]) ELSE @]
              /\ relayed' = relayed \cup (IF kept' # kept THEN {rec[n]} ELSE {})
    /\ UNCHANGED <<pool, warm, rec, made, recovered, blockVars, boundVars>>

\* A faulty member sends a share on any commitment.
DoubleSign(n) ==
    /\ Open /\ n \in DoubleSigners
    /\ \E c \in Commitments : shares' = shares \cup {[member |-> n, c |-> c]}
    /\ UNCHANGED <<nodeVars, made, recovered, relayed, blockVars, boundVars>>

SharesOn(c) == {s.member : s \in {x \in shares : x.c = c}}

\* Mutant: one share short.
AlmostEnough(c) == Cardinality(SharesOn(c)) >= Threshold - 1

Enough(c) == Cardinality(SharesOn(c)) >= Threshold

\* TryRecoverSig and ProcessRecoveredSig: the first signature for the id stays.
Recover(n) ==
    /\ n \in Members /\ rec[n] = None
    /\ \E c \in {s.c : s \in shares} :
          /\ Enough(c)
          /\ rec' = [rec EXCEPT ![n] = c]
          /\ recovered' = recovered \cup {c}
    /\ UNCHANGED <<pool, pos, warm, signed, vote, candidates, kept, made, shares,
                   relayed, blockVars, boundVars>>

\* A recovered signature arrives from a peer.
LearnRecoveredSig(n) ==
    /\ rec[n] = None
    /\ \E c \in recovered : rec' = [rec EXCEPT ![n] = c]
    /\ UNCHANGED <<pool, pos, warm, signed, vote, candidates, kept, netVars,
                   blockVars, boundVars>>

\* POSECOMMIT: a commitment whose quorum signature verifies is kept.
ReceiveCommitment(n) ==
    /\ Open
    /\ \E c \in relayed : kept' = [kept EXCEPT ![n] = Store(@, c)]
    /\ UNCHANGED <<pool, pos, warm, signed, vote, candidates, rec, netVars,
                   blockVars, boundVars>>

\* SESSION_NEW_SHARES_TIMEOUT: a session without new shares is dropped.
ExpireSession ==
    /\ expiries < MaxExpiries
    /\ expiries' = expiries + 1
    /\ \E c \in {s.c : s \in shares} : shares' = {s \in shares : s.c # c}
    /\ lateExpiry' = (lateExpiry \/ \E n \in Members : pos[n] = Window)
    /\ UNCHANGED <<nodeVars, made, recovered, relayed, blockVars, restarts>>

\* The signing database survives; pool, candidates and tick state do not.
Restart(n) ==
    /\ restarts < MaxRestarts
    /\ restarts' = restarts + 1
    /\ pool' = [pool EXCEPT ![n] = {}]
    /\ warm' = [warm EXCEPT ![n] = TRUE]
    /\ signed' = [signed EXCEPT ![n] = None]
    /\ candidates' = [candidates EXCEPT ![n] = {}]
    /\ kept' = [kept EXCEPT ![n] = <<>>]
    /\ UNCHANGED <<pos, vote, rec, netVars, blockVars, expiries, lateExpiry>>

\* Mutants: the rebuild is attached unchecked; the relayed one is not used.
AttachRebuild(n) ==
    IF rec[n] # None THEN Build(pool[n])
    ELSE IF kept[n] # <<>> THEN Head(kept[n]) ELSE None
AttachOwnOnly(n) == IF rec[n] # None /\ Build(pool[n]) = rec[n] THEN rec[n] ELSE None

\* What the producer n attaches: its own rebuild if that is what was signed,
\* else the relayed commitment, else nothing.
Attach(n) ==
    IF rec[n] # None
    THEN IF Build(pool[n]) = rec[n] \/ rec[n] \in Range(kept[n]) THEN rec[n] ELSE None
    ELSE IF kept[n] # <<>> THEN Head(kept[n]) ELSE None

\* CreateNewBlock at the boundary.
CloseEpoch(n) ==
    /\ Open
    /\ attached' = Attach(n)
    /\ producer' = n
    /\ UNCHANGED <<nodeVars, netVars, boundVars>>

Next ==
    \/ \E n \in Nodes :
          \/ ReceiveReport(n) \/ Tick(n) \/ DoubleSign(n) \/ Recover(n)
          \/ LearnRecoveredSig(n) \/ ReceiveCommitment(n) \/ Restart(n) \/ CloseEpoch(n)
    \/ ExpireSession

Spec == Init /\ [][Next]_vars

-----------------------------------------------------------------------------

\* Types of the nodes' and the network's state, and the cap on what is kept.
TypeOK ==
    /\ made \subseteq Reports /\ pool \in [Nodes -> SUBSET made]
    /\ pos \in [Nodes -> 0 .. Window] /\ warm \in [Nodes -> BOOLEAN]
    /\ signed \in [Nodes -> Commitments \cup {None}]
    /\ vote \in [Nodes -> Commitments \cup {None}]
    /\ rec \in [Nodes -> Commitments \cup {None}]
    /\ candidates \in [Nodes -> SUBSET Commitments]
    /\ kept \in [Nodes -> Seq(Commitments)]
    /\ \A n \in Nodes : Len(kept[n]) <= MaxKept
    /\ shares \subseteq [member : Members, c : Commitments]
    /\ recovered \subseteq Commitments /\ relayed \subseteq recovered
    /\ attached \in Commitments \cup {None}
    /\ producer \in Nodes \cup {None}

\* The quorum signs at most one commitment for the epoch: each honest member's
\* vote is written once (AsyncSignIfMember), through restarts and second
\* requests, and two thresholds overlap in an honest member.
OneCommitmentSigned == \A c, d \in recovered : c = d

\* A verdict the quorum signed was returned by nDSLSentinelAgree sentinels, in
\* version 1 only the missed ones.
VerdictBacked ==
    \A c \in recovered, t \in Targets :
        c[t] = "missed" \/ (WithObserved /\ c[t] = "online") =>
            Cardinality(Reporting(made, t, c[t])) >= Agree

\* In version 2, members that voted without waiting for the deadline voted for
\* the same commitment whatever their pools held: no target has two verdicts
\* when no sentinel signs both statuses.
CompleteVotesAgree ==
    WithObserved /\ Equivocators = {} =>
        \A m, n \in Members :
            /\ vote[m] # None /\ ~Incomplete(vote[m])
            /\ vote[n] # None /\ ~Incomplete(vote[n])
            => vote[m] = vote[n]

\* The boundary block carries what the quorum signed, or nothing.
AttachedIsSigned == attached # None => attached \in recovered

\* A producer that holds the relayed commitment attaches it even if its own
\* pool has diverged or no recovered signature reached it.
RelayedIsAttached ==
    producer # None /\ attached = None => kept[producer] = <<>>

\* Votes for one commitment cast on different ticks still meet: once a
\* threshold of members that voted for it has run the last tick of the window,
\* their shares are alive together, or the signature was recovered, unless the
\* session timed out in the course of that last tick.
VotesMeet ==
    ~lateExpiry =>
        \A c \in {vote[n] : n \in Members} \ {None} :
            LET voters == {n \in Members : vote[n] = c /\ signed[n] = c /\ pos[n] = Window}
            IN  Cardinality(voters) >= Threshold =>
                    recovered # {} \/ Enough(c)
=============================================================================
