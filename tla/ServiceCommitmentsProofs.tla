---------------------- MODULE ServiceCommitmentsProofs ----------------------
(***************************************************************************)
(* For every quorum whose threshold overlaps in an honest member, every    *)
(* sentinel majority, window and bound: the quorum signs one commitment,   *)
(* its verdicts are backed by reports, complete votes agree, votes cast on *)
(* different ticks are signed together, the boundary block carries what    *)
(* was signed, and a producer attaches what was relayed to it.             *)
(*                                                                         *)
(* None of them is inductive. What a signature stands on is the votes of   *)
(* its honest signers, so IInv says that an honest share is the member's   *)
(* vote, that a vote is backed by reports, and that a signed commitment    *)
(* keeps a threshold of backers although sessions expire and shares are    *)
(* lost.                                                                   *)
(***************************************************************************)
EXTENDS ServiceCommitments, FiniteSetTheorems, TLAPS

\* An honest sentinel signed one status on a target.
HonestReports ==
    \A r, s \in made : r.sentinel = s.sentinel /\ r.target = s.target =>
                           r = s \/ r.sentinel \in Equivocators

\* The verdicts of c were returned by enough sentinels.
Backed(c) ==
    \A t \in Targets :
        c[t] = "missed" \/ (WithObserved /\ c[t] = "online") =>
            Cardinality(Reporting(made, t, c[t])) >= Agree

\* The members a signature on c may rest on.
Backers(c) == {m \in Members : m \in DoubleSigners \/ vote[m] = c}

ShareIsVote == \A s \in shares : s.member \in DoubleSigners \/ vote[s.member] = s.c

\* A member that asked and still waits for the signature has its vote on record,
\* so a second request never casts a first vote.
SignedIsVote == \A n \in Nodes : signed[n] # None /\ rec[n] = None => vote[n] = signed[n]

VotesBacked == \A n \in Nodes : vote[n] # None => Backed(vote[n])

SignedByThreshold == \A c \in recovered : Cardinality(Backers(c)) >= Threshold

IInv ==
    /\ TypeOK
    /\ HonestReports
    /\ kept \in [Nodes -> Seq(recovered)]
    /\ rec \in [Nodes -> recovered \cup {None}]
    /\ ShareIsVote
    /\ SignedIsVote
    /\ VotesBacked
    /\ SignedByThreshold
    /\ AttachedIsSigned

-----------------------------------------------------------------------------

LEMMA MembersFinite ==
    /\ IsFiniteSet(Members) /\ IsFiniteSet(DoubleSigners)
    /\ Cardinality(Members) \in Nat /\ Cardinality(DoubleSigners) \in Nat
    /\ Cardinality(DoubleSigners) <= Cardinality(Members)
<1>1. IsFiniteSet(Members)
  BY FS_Subset, QuorumAssumption, Zenon
<1>2. IsFiniteSet(DoubleSigners) /\ Cardinality(DoubleSigners) <= Cardinality(Members)
  BY <1>1, FS_Subset, QuorumAssumption, Zenon
<1> QED BY <1>1, <1>2, FS_CardinalityType, Zenon

\* Two thresholds of members share one that does not sign twice.
LEMMA QuorumsMeet ==
    ASSUME NEW A \in SUBSET Members, NEW B \in SUBSET Members,
           Cardinality(A) >= Threshold, Cardinality(B) >= Threshold
    PROVE  \E m \in A \cap B : m \notin DoubleSigners
<1>1. IsFiniteSet(A) /\ IsFiniteSet(B)
  BY FS_Subset, MembersFinite, Zenon
<1>2. /\ Cardinality(A) \in Nat /\ Cardinality(B) \in Nat
      /\ IsFiniteSet(A \cup B) /\ Cardinality(A \cup B) \in Nat
      /\ IsFiniteSet(A \cap B) /\ Cardinality(A \cap B) \in Nat
  BY <1>1, FS_CardinalityType, FS_Union, FS_Intersection, Zenon
<1>3. Cardinality(A \cup B) = Cardinality(A) + Cardinality(B) - Cardinality(A \cap B)
  BY <1>1, FS_Union, Zenon
<1>4. Cardinality(A \cup B) <= Cardinality(Members)
  <2>1. A \cup B \in SUBSET Members
    BY Zenon
  <2> QED BY <2>1, FS_Subset, MembersFinite, Zenon
<1>5. SUFFICES ASSUME A \cap B \subseteq DoubleSigners PROVE FALSE
  BY Zenon
<1>6. Cardinality(A \cap B) <= Cardinality(DoubleSigners)
  BY <1>5, FS_Subset, MembersFinite, Zenon
<1> QED BY <1>2, <1>3, <1>4, <1>6, MembersFinite, QuorumAssumption

\* A larger pool has at least the same sentinels behind a status.
LEMMA ReportingGrows ==
    ASSUME NEW R, NEW S \in SUBSET Reports, R \subseteq S, NEW t, NEW status
    PROVE  /\ IsFiniteSet(Reporting(R, t, status)) /\ IsFiniteSet(Reporting(S, t, status))
           /\ Reporting(S, t, status) \subseteq Sentinels
           /\ Cardinality(Reporting(R, t, status)) \in Nat
           /\ Cardinality(Reporting(S, t, status)) \in Nat
           /\ Cardinality(Reporting(R, t, status)) <= Cardinality(Reporting(S, t, status))
<1>1. Reporting(S, t, status) \in SUBSET Sentinels
  BY Zenon DEF Reporting, Reports
<1>2. Reporting(R, t, status) \in SUBSET Reporting(S, t, status)
  BY Zenon DEF Reporting
<1>3. IsFiniteSet(Reporting(S, t, status))
  BY <1>1, FS_Subset, SentinelAssumption, Zenon
<1>4. /\ IsFiniteSet(Reporting(R, t, status))
      /\ Cardinality(Reporting(R, t, status)) <= Cardinality(Reporting(S, t, status))
  BY <1>2, <1>3, FS_Subset, Zenon
<1> QED BY <1>1, <1>3, <1>4, FS_CardinalityType, Zenon

LEMMA BuildType ==
    ASSUME NEW R
    PROVE  Build(R) \in Commitments
BY Zenon DEF Build, Commitments

\* What a member aggregates is backed by what the sentinels signed.
LEMMA BuildBacked ==
    ASSUME TypeOK, NEW n \in Nodes
    PROVE  Backed(Build(pool[n]))
<1> DEFINE c == Build(pool[n])
<1>1. pool[n] \subseteq made /\ made \in SUBSET Reports
  BY Zenon DEF TypeOK
<1>2. SUFFICES ASSUME NEW t \in Targets,
                      c[t] = "missed" \/ (WithObserved /\ c[t] = "online")
               PROVE  Cardinality(Reporting(made, t, c[t])) >= Agree
  BY Zenon DEF Backed
<1>3. Cardinality(Reporting(pool[n], t, c[t])) >= Agree
  BY <1>2, Zenon DEF Build
<1>4. /\ Cardinality(Reporting(pool[n], t, c[t])) \in Nat
      /\ Cardinality(Reporting(made, t, c[t])) \in Nat
      /\ Cardinality(Reporting(pool[n], t, c[t])) <= Cardinality(Reporting(made, t, c[t]))
  BY <1>1, ReportingGrows, Zenon
<1> HIDE DEF c
<1> QED BY <1>3, <1>4, SentinelAssumption

LEMMA StoreType ==
    ASSUME NEW S, NEW list \in Seq(S), NEW c \in S, Len(list) <= MaxKept
    PROVE  Store(list, c) \in Seq(S) /\ Len(Store(list, c)) <= MaxKept
BY WindowAssumption DEF Store

\* While votes are final, the backers of a commitment only grow.
LEMMA BackersGrow ==
    ASSUME NEW c, Backers(c) \subseteq Backers(c)', Cardinality(Backers(c)) >= Threshold
    PROVE  Cardinality(Backers(c)') >= Threshold
<1>1. Backers(c)' \in SUBSET Members
  BY Zenon DEF Backers
<1>2. IsFiniteSet(Backers(c)')
  BY <1>1, FS_Subset, MembersFinite, Zenon
<1>3. IsFiniteSet(Backers(c)) /\ Cardinality(Backers(c)) <= Cardinality(Backers(c)')
  BY <1>2, FS_Subset, Zenon
<1>4. Cardinality(Backers(c)) \in Nat /\ Cardinality(Backers(c)') \in Nat
  BY <1>2, <1>3, FS_CardinalityType, Zenon
<1> QED BY <1>3, <1>4, QuorumAssumption

\* What the votes, the shares and the signatures say is kept by every step
\* that leaves them alone.
LEMMA VotesUnchanged ==
    ASSUME IInv, UNCHANGED <<made, vote, shares, recovered>>
    PROVE  HonestReports' /\ ShareIsVote' /\ VotesBacked' /\ SignedByThreshold'
BY Zenon DEF IInv, HonestReports, ShareIsVote, VotesBacked, SignedByThreshold, Backed, Backers,
       Reporting

-----------------------------------------------------------------------------

LEMMA InitIInv == Init => IInv
<1> SUFFICES ASSUME Init PROVE IInv
  BY Zenon
<1> USE DEF Init
<1>1. TypeOK
  BY WindowAssumption DEF TypeOK
<1>2. /\ HonestReports /\ ShareIsVote /\ SignedIsVote
      /\ VotesBacked /\ SignedByThreshold /\ AttachedIsSigned
  BY Zenon DEF HonestReports, ShareIsVote, SignedIsVote, VotesBacked, SignedByThreshold, AttachedIsSigned
<1>3. kept \in [Nodes -> Seq(recovered)] /\ rec \in [Nodes -> recovered \cup {None}]
  OBVIOUS
<1> QED BY <1>1, <1>2, <1>3, Zenon DEF IInv

LEMMA ReceiveReportIInv ==
    ASSUME IInv, NEW n \in Nodes, ReceiveReport(n)
    PROVE  IInv'
<1> USE DEF ReceiveReport, netVars, blockVars, boundVars
<1>1. TypeOK'
  BY DEF IInv, TypeOK
<1>2. AttachedIsSigned' /\ SignedIsVote'
  BY Zenon DEF IInv, TypeOK, AttachedIsSigned, SignedIsVote
<1>3. kept' \in [Nodes -> Seq(recovered')] /\ rec' \in [Nodes -> recovered' \cup {None}]
  BY Zenon DEF IInv
<1> QED BY <1>1, <1>2, <1>3, VotesUnchanged, Zenon DEF IInv

LEMMA LearnIInv ==
    ASSUME IInv, NEW n \in Nodes, LearnRecoveredSig(n)
    PROVE  IInv'
<1> USE DEF LearnRecoveredSig, netVars, blockVars, boundVars
<1>1. TypeOK'
  BY Zenon DEF IInv, TypeOK
<1>2. AttachedIsSigned' /\ SignedIsVote'
  BY Zenon DEF IInv, TypeOK, AttachedIsSigned, SignedIsVote
<1>3. kept' \in [Nodes -> Seq(recovered')] /\ rec' \in [Nodes -> recovered' \cup {None}]
  BY Zenon DEF IInv
<1> QED BY <1>1, <1>2, <1>3, VotesUnchanged, Zenon DEF IInv

LEMMA ReceiveCommitmentIInv ==
    ASSUME IInv, NEW n \in Nodes, ReceiveCommitment(n)
    PROVE  IInv'
<1> USE DEF ReceiveCommitment, netVars, blockVars, boundVars
<1>1. PICK c \in relayed : kept' = [kept EXCEPT ![n] = Store(kept[n], c)]
  BY Zenon
<1>2. c \in recovered /\ recovered \subseteq Commitments
  BY Zenon DEF IInv, TypeOK
<1>3. /\ Store(kept[n], c) \in Seq(recovered) /\ Store(kept[n], c) \in Seq(Commitments)
      /\ Len(Store(kept[n], c)) <= MaxKept
  BY <1>2, StoreType, Zenon DEF IInv, TypeOK
<1>4. TypeOK'
  BY <1>1, <1>3, Zenon DEF IInv, TypeOK
<1>5. AttachedIsSigned' /\ SignedIsVote'
  BY Zenon DEF IInv, TypeOK, AttachedIsSigned, SignedIsVote
<1>6. kept' \in [Nodes -> Seq(recovered')] /\ rec' \in [Nodes -> recovered' \cup {None}]
  BY <1>1, <1>3, Zenon DEF IInv
<1> QED BY <1>4, <1>5, <1>6, VotesUnchanged, Zenon DEF IInv

LEMMA RestartIInv ==
    ASSUME IInv, NEW n \in Nodes, Restart(n)
    PROVE  IInv'
<1> USE DEF Restart, netVars, blockVars
<1>1. TypeOK'
  BY WindowAssumption, SMTT(30) DEF IInv, TypeOK
<1>2. AttachedIsSigned' /\ SignedIsVote'
  BY Zenon DEF IInv, TypeOK, AttachedIsSigned, SignedIsVote
<1>3. kept' \in [Nodes -> Seq(recovered')] /\ rec' \in [Nodes -> recovered' \cup {None}]
  BY DEF IInv
<1> QED BY <1>1, <1>2, <1>3, VotesUnchanged, ZenonT(30) DEF IInv

LEMMA CloseEpochIInv ==
    ASSUME IInv, NEW n \in Nodes, CloseEpoch(n)
    PROVE  IInv'
<1> USE DEF CloseEpoch, nodeVars, netVars, boundVars
<1>1. Attach(n) \in recovered \cup {None}
  <2>1. rec[n] \in recovered \cup {None} /\ kept[n] \in Seq(recovered)
    BY Zenon DEF IInv
  <2>2. kept[n] # <<>> => Head(kept[n]) \in recovered
    BY <2>1
  <2> QED BY <2>1, <2>2, Zenon DEF Attach
<1>2. TypeOK'
  BY <1>1, Zenon DEF IInv, TypeOK
<1>3. AttachedIsSigned' /\ SignedIsVote'
  BY <1>1, Zenon DEF IInv, AttachedIsSigned, SignedIsVote
<1>4. kept' \in [Nodes -> Seq(recovered')] /\ rec' \in [Nodes -> recovered' \cup {None}]
  BY Zenon DEF IInv
<1> QED BY <1>2, <1>3, <1>4, VotesUnchanged, Zenon DEF IInv

LEMMA DoubleSignIInv ==
    ASSUME IInv, NEW n \in Nodes, DoubleSign(n)
    PROVE  IInv'
<1> USE DEF DoubleSign, nodeVars, blockVars, boundVars
<1>1. PICK c \in Commitments : shares' = shares \cup {[member |-> n, c |-> c]}
  BY Zenon
<1>2. n \in Members /\ n \in DoubleSigners
  BY QuorumAssumption, Zenon
<1>3. TypeOK'
  BY <1>1, <1>2, SMTT(30) DEF IInv, TypeOK
<1>4. ShareIsVote'
  BY <1>1, <1>2 DEF IInv, ShareIsVote
<1>5. HonestReports' /\ SignedIsVote' /\ VotesBacked' /\ SignedByThreshold' /\ AttachedIsSigned'
  BY DEF IInv, HonestReports, SignedIsVote, VotesBacked, SignedByThreshold, AttachedIsSigned,
         Backed, Backers, Reporting
<1>6. kept' \in [Nodes -> Seq(recovered')] /\ rec' \in [Nodes -> recovered' \cup {None}]
  BY Zenon DEF IInv
<1> QED BY <1>3, <1>4, <1>5, <1>6, Zenon DEF IInv

LEMMA ExpireSessionIInv ==
    ASSUME IInv, ExpireSession
    PROVE  IInv'
<1> USE DEF ExpireSession, nodeVars, blockVars
<1>1. shares' \subseteq shares
  BY Zenon
<1>2. TypeOK'
  BY <1>1, Zenon DEF IInv, TypeOK
<1>3. ShareIsVote'
  BY <1>1, Zenon DEF IInv, ShareIsVote
<1>4. HonestReports' /\ SignedIsVote' /\ VotesBacked' /\ SignedByThreshold' /\ AttachedIsSigned'
  BY DEF IInv, HonestReports, SignedIsVote, VotesBacked, SignedByThreshold, AttachedIsSigned,
         Backed, Backers, Reporting
<1>5. kept' \in [Nodes -> Seq(recovered')] /\ rec' \in [Nodes -> recovered' \cup {None}]
  BY Zenon DEF IInv
<1> QED BY <1>2, <1>3, <1>4, <1>5, Zenon DEF IInv

\* Shares enough for a signature come from backers.
LEMMA EnoughBackers ==
    ASSUME TypeOK, ShareIsVote, NEW c \in Commitments, Enough(c)
    PROVE  Cardinality(Backers(c)) >= Threshold
<1>1. SharesOn(c) \in SUBSET Backers(c)
  BY DEF TypeOK, ShareIsVote, SharesOn, Backers
<1>2. IsFiniteSet(Backers(c))
  <2>1. Backers(c) \in SUBSET Members
    BY Zenon DEF Backers
  <2> QED BY <2>1, FS_Subset, MembersFinite, Zenon
<1>3. IsFiniteSet(SharesOn(c)) /\ Cardinality(SharesOn(c)) <= Cardinality(Backers(c))
  BY <1>1, <1>2, FS_Subset, Zenon
<1>4. Cardinality(SharesOn(c)) \in Nat /\ Cardinality(Backers(c)) \in Nat
  BY <1>2, <1>3, FS_CardinalityType, Zenon
<1> QED BY <1>3, <1>4, QuorumAssumption DEF Enough

LEMMA SeqGrows ==
    ASSUME NEW S, NEW T, S \subseteq T, NEW q \in Seq(S)
    PROVE  q \in Seq(T)
OBVIOUS

LEMMA RecoverIInv ==
    ASSUME IInv, NEW n \in Nodes, Recover(n)
    PROVE  IInv'
<1> USE DEF Recover, blockVars, boundVars
<1>1. PICK c \in {s.c : s \in shares} :
          Enough(c) /\ rec' = [rec EXCEPT ![n] = c] /\ recovered' = recovered \cup {c}
  BY Zenon
<1>2. c \in Commitments
  BY DEF IInv, TypeOK
<1>3. TypeOK'
  BY <1>1, <1>2, Zenon DEF IInv, TypeOK
<1>4. HonestReports' /\ ShareIsVote' /\ VotesBacked'
  BY DEF IInv, HonestReports, ShareIsVote, VotesBacked, Backed, Reporting
<1>5. SignedByThreshold'
  <2>1. Cardinality(Backers(c)) >= Threshold
    BY <1>1, <1>2, EnoughBackers, Zenon DEF IInv
  <2>2. \A d : Backers(d)' = Backers(d)
    BY Zenon DEF Backers
  <2> QED BY <1>1, <2>1, <2>2, Zenon DEF IInv, SignedByThreshold
<1>6. AttachedIsSigned' /\ SignedIsVote'
  BY <1>1, <1>2, NoneAssumption, Zenon DEF IInv, TypeOK, AttachedIsSigned, SignedIsVote
<1>7. kept' \in [Nodes -> Seq(recovered')]
  BY <1>1, SeqGrows, Zenon DEF IInv
<1>8. rec' \in [Nodes -> recovered' \cup {None}]
  BY <1>1, Zenon DEF IInv
<1> QED BY <1>3, <1>4, <1>5, <1>6, <1>7, <1>8, Zenon DEF IInv

LEMMA TickIInv ==
    ASSUME IInv, NEW n \in Nodes, Tick(n)
    PROVE  IInv'
<1> DEFINE c == Build(pool[n])
<1>1. PICK p \in (pos[n] + 1) .. Window, loaded \in BOOLEAN :
          LET asks == Asks(n, c, p, loaded)
              cands == candidates[n] \cup (IF asks THEN {c} ELSE {})
              relays == rec[n] # None /\ rec[n] \in cands
          IN  /\ pos' = [pos EXCEPT ![n] = p]
              /\ signed' = [signed EXCEPT ![n] = IF asks THEN c ELSE @]
              /\ vote' = [vote EXCEPT ![n] = IF asks /\ rec[n] = None THEN c ELSE @]
              /\ candidates' = [candidates EXCEPT ![n] = cands]
              /\ shares' = shares \cup ReAsked(n, asks)
                           \cup (IF asks /\ rec[n] = None THEN {[member |-> n, c |-> c]} ELSE {})
              /\ kept' = [kept EXCEPT ![n] = IF relays THEN Store(@, rec[n]) ELSE @]
              /\ relayed' = relayed \cup (IF kept' # kept THEN {rec[n]} ELSE {})
  BY Zenon DEF Tick
<1> DEFINE asks == Asks(n, c, p, loaded)
           votes == asks /\ rec[n] = None
           cands == candidates[n] \cup (IF asks THEN {c} ELSE {})
           relays == rec[n] # None /\ rec[n] \in cands
<1>2. /\ n \in Members
      /\ UNCHANGED <<pool, warm, rec, made, recovered, attached, producer>>
  BY Zenon DEF Tick, blockVars
<1>3. c \in Commitments /\ Backed(c)
  BY BuildType, BuildBacked, Zenon DEF IInv
<1>4. asks => vote[n] = None
  BY Zenon DEF Asks, AsyncSignIfMember
<1>5. /\ pos' = [pos EXCEPT ![n] = p]
      /\ signed' = [signed EXCEPT ![n] = IF asks THEN c ELSE signed[n]]
      /\ vote' = [vote EXCEPT ![n] = IF votes THEN c ELSE vote[n]]
      /\ candidates' = [candidates EXCEPT ![n] = cands]
      /\ shares' = shares \cup ReAsked(n, asks)
                   \cup (IF votes THEN {[member |-> n, c |-> c]} ELSE {})
      /\ kept' = [kept EXCEPT ![n] = IF relays THEN Store(kept[n], rec[n]) ELSE kept[n]]
      /\ relayed' = relayed \cup (IF kept' # kept THEN {rec[n]} ELSE {})
  BY <1>1, Zenon
<1> HIDE DEF c, asks, cands
<1>6. relays => rec[n] \in recovered
  BY Zenon DEF IInv
<1>7. kept' # kept => relays
  BY <1>5, Zenon DEF IInv
<1>8. kept' \in [Nodes -> Seq(recovered)] /\ kept' \in [Nodes -> Seq(Commitments)]
      /\ \A m \in Nodes : Len(kept'[m]) <= MaxKept
  <2>1. recovered \subseteq Commitments
    BY Zenon DEF IInv, TypeOK
  <2>2. relays => /\ Store(kept[n], rec[n]) \in Seq(recovered)
                  /\ Store(kept[n], rec[n]) \in Seq(Commitments)
                  /\ Len(Store(kept[n], rec[n])) <= MaxKept
    BY <1>6, <2>1, StoreType, Zenon DEF IInv, TypeOK
  <2> QED BY <1>5, <2>2, Zenon DEF IInv, TypeOK
<1>9. relayed' \subseteq recovered
  BY <1>5, <1>6, <1>7, Zenon DEF IInv, TypeOK
\* The shares of this tick are this member's vote, before and after it.
<1>10. \A s \in ReAsked(n, asks) :
           s \in [member : Members, c : Commitments] /\ s.member = n /\ s.c = vote'[n]
  <2> SUFFICES ASSUME NEW s \in ReAsked(n, asks)
               PROVE  s \in [member : Members, c : Commitments] /\ s.member = n /\ s.c = vote'[n]
    BY Zenon
  <2>1. ~asks /\ signed[n] # None /\ rec[n] = None /\ s = [member |-> n, c |-> signed[n]]
    BY Zenon DEF ReAsked
  <2>2. signed[n] \in Commitments
    BY <2>1, Zenon DEF IInv, TypeOK
  <2>3. vote'[n] = signed[n]
    BY <1>5, <2>1, Zenon DEF IInv, TypeOK, SignedIsVote
  <2> QED BY <1>2, <2>1, <2>2, <2>3, Zenon
<1>11. \A m \in Nodes : vote[m] # None => vote'[m] = vote[m]
  BY <1>4, <1>5, Zenon DEF IInv, TypeOK
<1>12. \A m \in Nodes : vote'[m] = vote[m] \/ (m = n /\ vote'[m] = c /\ votes)
  BY <1>5, Zenon DEF IInv, TypeOK
<1>13. TypeOK'
  <2>1. pos' \in [Nodes -> 0 .. Window]
    BY <1>5, WindowAssumption DEF IInv, TypeOK
  <2>2. signed' \in [Nodes -> Commitments \cup {None}] /\ vote' \in [Nodes -> Commitments \cup {None}]
    BY <1>3, <1>5, Zenon DEF IInv, TypeOK
  <2>3. candidates' \in [Nodes -> SUBSET Commitments]
    BY <1>3, <1>5, ZenonT(30) DEF IInv, TypeOK, cands
  <2>4. shares' \subseteq [member : Members, c : Commitments]
    BY <1>2, <1>3, <1>5, <1>10, SMTT(30) DEF IInv, TypeOK
  <2> QED BY <1>2, <1>8, <1>9, <2>1, <2>2, <2>3, <2>4, SMTT(30) DEF IInv, TypeOK
<1>14. ShareIsVote'
  <2> SUFFICES ASSUME NEW s \in shares', s.member \notin DoubleSigners
               PROVE  vote'[s.member] = s.c
    BY Zenon DEF ShareIsVote
  <2>1. CASE s \in shares
    <3>1. s.member \in Nodes /\ s.c \in Commitments /\ vote[s.member] = s.c
      BY <2>1, QuorumAssumption, Zenon DEF IInv, TypeOK, ShareIsVote
    <3> QED BY <1>11, <3>1, NoneAssumption, Zenon
  <2>2. CASE s \in ReAsked(n, asks)
    BY <1>10, <2>2, Zenon
  <2>3. CASE votes /\ s = [member |-> n, c |-> c]
    BY <1>5, <2>3, Zenon DEF IInv, TypeOK
  <2> QED BY <1>5, <2>1, <2>2, <2>3, Zenon
<1>15. SignedIsVote'
  BY <1>2, <1>5, Zenon DEF IInv, TypeOK, SignedIsVote
<1>16. VotesBacked'
  <2>1. \A d : Backed(d)' = Backed(d)
    BY <1>2, Zenon DEF Backed, Reporting
  <2> QED BY <1>3, <1>12, <2>1, Zenon DEF IInv, VotesBacked
<1>17. SignedByThreshold'
  <2> SUFFICES ASSUME NEW d \in recovered PROVE Cardinality(Backers(d)') >= Threshold
    BY <1>2, Zenon DEF SignedByThreshold
  <2>1. d # None
    BY NoneAssumption, Zenon DEF IInv, TypeOK
  <2>2. Backers(d) \subseteq Backers(d)'
    BY <1>11, <2>1, QuorumAssumption, Zenon DEF Backers
  <2> QED BY <2>2, BackersGrow, Zenon DEF IInv, SignedByThreshold
<1>18. HonestReports' /\ AttachedIsSigned'
  BY <1>2, Zenon DEF IInv, HonestReports, AttachedIsSigned
<1> QED BY <1>2, <1>8, <1>13, <1>14, <1>15, <1>16, <1>17, <1>18, ZenonT(30) DEF IInv

-----------------------------------------------------------------------------

LEMMA StepIInv == IInv /\ [Next]_vars => IInv'
<1> SUFFICES ASSUME IInv, [Next]_vars PROVE IInv'
  BY Zenon
<1>1. ASSUME NEW n \in Nodes,
             \/ ReceiveReport(n) \/ Tick(n) \/ DoubleSign(n) \/ Recover(n)
             \/ LearnRecoveredSig(n) \/ ReceiveCommitment(n) \/ Restart(n) \/ CloseEpoch(n)
      PROVE  IInv'
  BY <1>1, ReceiveReportIInv, TickIInv, DoubleSignIInv, RecoverIInv, LearnIInv, Zenon,
     ReceiveCommitmentIInv, RestartIInv, CloseEpochIInv
<1>2. CASE ExpireSession
  BY <1>2, ExpireSessionIInv, Zenon
<1>3. CASE UNCHANGED vars
  <2> USE <1>3 DEF vars, nodeVars, netVars, blockVars, boundVars
  <2>1. TypeOK'
    BY Zenon DEF IInv, TypeOK
  <2>2. AttachedIsSigned' /\ SignedIsVote'
    BY Zenon DEF IInv, AttachedIsSigned, SignedIsVote
  <2> QED BY <2>1, <2>2, VotesUnchanged, Zenon DEF IInv
<1> QED BY <1>1, <1>2, <1>3, Zenon DEF Next

LEMMA Inductive == Spec => []IInv
BY InitIInv, StepIInv, PTL DEF Spec

\* Types, and the cap on the signed commitments a node keeps
\* (kSignedCommitmentsPerEpoch), in every reachable state.
THEOREM TypeCorrect == Spec => []TypeOK
<1>1. IInv => TypeOK
  BY Zenon DEF IInv
<1> QED BY <1>1, Inductive, PTL

\* The quorum signs at most one commitment for an epoch, whatever the pools,
\* the ticks on which members sign, restarts, expired sessions and the members
\* that sign twice, as long as two thresholds overlap in one that does not.
THEOREM SignedOnce == Spec => []OneCommitmentSigned
<1>1. IInv => OneCommitmentSigned
  <2> SUFFICES ASSUME IInv, NEW c \in recovered, NEW d \in recovered PROVE c = d
    BY Zenon DEF OneCommitmentSigned
  <2>1. Backers(c) \in SUBSET Members /\ Backers(d) \in SUBSET Members
    BY Zenon DEF Backers
  <2>2. PICK m \in Backers(c) \cap Backers(d) : m \notin DoubleSigners
    BY <2>1, QuorumsMeet, Zenon DEF IInv, SignedByThreshold
  <2> QED BY <2>2, Zenon DEF Backers
<1> QED BY <1>1, Inductive, PTL

\* What the quorum signs was returned by nDSLSentinelAgree sentinels: a
\* signature rests on an honest vote, and BuildServiceCommitment counts reports.
THEOREM SignedVerdictsBacked == Spec => []VerdictBacked
<1>1. IInv => VerdictBacked
  <2> SUFFICES ASSUME IInv, NEW c \in recovered PROVE Backed(c)
    BY Zenon DEF VerdictBacked, Backed
  <2>1. Backers(c) \in SUBSET Members
    BY Zenon DEF Backers
  <2>2. PICK m \in Backers(c) : m \notin DoubleSigners
    BY <2>1, QuorumsMeet, Zenon DEF IInv, SignedByThreshold
  <2>3. m \in Nodes /\ vote[m] = c
    BY <2>2, QuorumAssumption, Zenon DEF Backers
  <2>4. c # None
    BY NoneAssumption, Zenon DEF IInv, TypeOK
  <2> QED BY <2>3, <2>4, Zenon DEF IInv, VotesBacked
<1> QED BY <1>1, Inductive, PTL

\* The boundary block carries what the quorum signed or nothing (CreateNewBlock).
THEOREM AttachesSigned == Spec => []AttachedIsSigned
<1>1. IInv => AttachedIsSigned
  BY Zenon DEF IInv
<1> QED BY <1>1, Inductive, PTL

\* Without equivocating sentinels no target has both verdicts.
LEMMA OneVerdict ==
    ASSUME TypeOK, HonestReports, Equivocators = {}, NEW t,
           Cardinality(Reporting(made, t, "missed")) >= Agree,
           Cardinality(Reporting(made, t, "online")) >= Agree
    PROVE  FALSE
<1> DEFINE A == Reporting(made, t, "missed")
           B == Reporting(made, t, "online")
<1>1. made \in SUBSET Reports /\ made \subseteq made
  BY Zenon DEF TypeOK
<1>2. /\ IsFiniteSet(A) /\ IsFiniteSet(B) /\ A \subseteq Sentinels /\ B \subseteq Sentinels
      /\ Cardinality(A) \in Nat /\ Cardinality(B) \in Nat
  BY <1>1, ReportingGrows, Zenon
<1>3. A \cap B = {}
  BY <1>1, Zenon DEF HonestReports, Reporting
<1> HIDE DEF A, B
<1>4. Cardinality(A \cup B) = Cardinality(A) + Cardinality(B)
  <2>1. Cardinality(A \cup B) = Cardinality(A) + Cardinality(B) - Cardinality(A \cap B)
    BY <1>2, FS_Union, Zenon
  <2>2. Cardinality(A \cap B) = 0
    BY <1>3, FS_EmptySet, Zenon
  <2> QED BY <1>2, <2>1, <2>2
<1>5. A \cup B \in SUBSET Sentinels
  BY <1>2, Zenon
<1>6. Cardinality(A \cup B) <= Cardinality(Sentinels) /\ Cardinality(Sentinels) \in Nat
  BY <1>5, FS_Subset, FS_CardinalityType, SentinelAssumption, Zenon
<1>7. Cardinality(A) >= Agree /\ Cardinality(B) >= Agree
  BY Zenon DEF A, B
<1> QED BY <1>2, <1>4, <1>6, <1>7, SentinelAssumption

\* In version 2 members that voted on complete pools voted for the same
\* commitment, whatever reports each had: the reason ProcessDSLTick may sign a
\* complete candidate before the deadline.
THEOREM CompleteVotesEqual == Spec => []CompleteVotesAgree
<1>1. IInv => CompleteVotesAgree
  <2> SUFFICES ASSUME IInv, WithObserved, Equivocators = {},
                      NEW m \in Members, NEW n \in Members,
                      vote[m] # None, ~Incomplete(vote[m]),
                      vote[n] # None, ~Incomplete(vote[n])
               PROVE  vote[m] = vote[n]
    BY Zenon DEF CompleteVotesAgree
  <2>1. /\ vote[m] \in Commitments /\ vote[n] \in Commitments
        /\ Backed(vote[m]) /\ Backed(vote[n])
    BY QuorumAssumption, Zenon DEF IInv, TypeOK, VotesBacked
  <2>2. ASSUME NEW t \in Targets PROVE vote[m][t] = vote[n][t]
    <3>1. vote[m][t] \in {"missed", "online"} /\ vote[n][t] \in {"missed", "online"}
      BY <2>1, Zenon DEF Commitments, Incomplete
    <3>2. /\ Cardinality(Reporting(made, t, vote[m][t])) >= Agree
          /\ Cardinality(Reporting(made, t, vote[n][t])) >= Agree
      BY <2>1, <3>1, Zenon DEF Backed
    <3> QED BY <3>1, <3>2, OneVerdict, Zenon DEF IInv
  <2> QED BY <2>1, <2>2 DEF Commitments
<1> QED BY <1>1, Inductive, PTL
-----------------------------------------------------------------------------
(* What the producer attaches and how the votes meet. *)

\* A member that has run the last tick of the window and still waits for the
\* signature has its share alive, unless the session timed out since.
LastSharesAlive ==
    ~lateExpiry /\ recovered = {} =>
        \A n \in Members : signed[n] # None /\ pos[n] = Window =>
            [member |-> n, c |-> signed[n]] \in shares

\* A node that keeps a signed commitment attaches one: if it holds a recovered
\* signature too, that is the commitment it keeps.
LEMMA KeptIsAttached ==
    ASSUME IInv, OneCommitmentSigned, NEW n \in Nodes, kept[n] # <<>>
    PROVE  Attach(n) # None
<1>1. kept[n] \in Seq(recovered) /\ recovered \subseteq Commitments
      /\ rec[n] \in recovered \cup {None}
  BY Zenon DEF IInv, TypeOK
<1>2. Len(kept[n]) \in Nat \ {0} /\ kept[n][1] \in recovered /\ Head(kept[n]) = kept[n][1]
  BY <1>1
<1>3. CASE rec[n] = None
  BY <1>1, <1>2, <1>3, NoneAssumption, Zenon DEF Attach
<1>4. CASE rec[n] # None
  <2>1. kept[n][1] = rec[n]
    BY <1>1, <1>2, <1>4, Zenon DEF OneCommitmentSigned
  <2>2. rec[n] \in Range(kept[n])
    BY <1>2, <2>1 DEF Range
  <2> QED BY <1>4, <2>2, Zenon DEF Attach
<1> QED BY <1>3, <1>4, Zenon

\* A producer that holds the relayed commitment attaches it, whatever its own
\* pool and signing session say (CreateNewBlock, GetSignedCommitment): what it
\* keeps was signed by the quorum, and the quorum signs one commitment.
THEOREM RelayReachesBlock == Spec => []RelayedIsAttached
<1>1. Init => RelayedIsAttached
  BY Zenon DEF Init, RelayedIsAttached
<1>2. IInv /\ OneCommitmentSigned /\ RelayedIsAttached /\ [Next]_vars => RelayedIsAttached'
  <2> SUFFICES ASSUME IInv, OneCommitmentSigned, RelayedIsAttached, [Next]_vars,
                      producer' # None, attached' = None
               PROVE  kept'[producer'] = <<>>
    BY Zenon DEF RelayedIsAttached
  <2>1. ASSUME NEW n \in Nodes, CloseEpoch(n) PROVE kept'[producer'] = <<>>
    <3>1. kept' = kept /\ producer' = n /\ Attach(n) = None
      BY <2>1, Zenon DEF CloseEpoch, nodeVars
    <3> QED BY <3>1, KeptIsAttached, Zenon
  <2>2. ASSUME NEW n \in Nodes, Restart(n) PROVE kept'[producer'] = <<>>
    <3>1. /\ producer' = producer /\ attached' = attached
          /\ kept' = [kept EXCEPT ![n] = <<>>]
      BY <2>2, Zenon DEF Restart, blockVars
    <3> QED BY <3>1, Zenon DEF RelayedIsAttached, IInv, TypeOK
  <2>3. CASE UNCHANGED <<kept, attached, producer>>
    BY <2>3, Zenon DEF RelayedIsAttached
  <2>4. ASSUME NEW n \in Nodes, Tick(n) \/ ReceiveCommitment(n) PROVE FALSE
    BY <2>4, Zenon DEF Tick, ReceiveCommitment, Open, blockVars
  <2>5. \/ UNCHANGED <<kept, attached, producer>>
        \/ \E n \in Nodes : CloseEpoch(n) \/ Restart(n) \/ Tick(n) \/ ReceiveCommitment(n)
    BY Zenon DEF Next, vars, nodeVars, blockVars, ReceiveReport, DoubleSign, Recover,
           LearnRecoveredSig, ExpireSession
  <2> QED BY <2>1, <2>2, <2>3, <2>4, <2>5, Zenon
<1> QED BY <1>1, <1>2, Inductive, SignedOnce, PTL DEF Spec

\* The last tick sends the share of the vote: with the first request, or once
\* more with the second.
LEMMA TickKeepsShares ==
    ASSUME IInv, LastSharesAlive, NEW n \in Nodes, Tick(n)
    PROVE  LastSharesAlive'
<1> DEFINE c == Build(pool[n])
<1>1. PICK p \in (pos[n] + 1) .. Window, loaded \in BOOLEAN :
          LET asks == Asks(n, c, p, loaded)
          IN  /\ pos' = [pos EXCEPT ![n] = p]
              /\ signed' = [signed EXCEPT ![n] = IF asks THEN c ELSE @]
              /\ shares' = shares \cup ReAsked(n, asks)
                           \cup (IF asks /\ rec[n] = None THEN {[member |-> n, c |-> c]} ELSE {})
  BY Zenon DEF Tick
<1> DEFINE asks == Asks(n, c, p, loaded)
<1>2. UNCHANGED <<recovered, lateExpiry>>
  BY Zenon DEF Tick, boundVars
<1>3. /\ signed' = [signed EXCEPT ![n] = IF asks THEN c ELSE signed[n]]
      /\ pos' = [pos EXCEPT ![n] = p]
      /\ shares' = shares \cup ReAsked(n, asks)
                   \cup (IF asks /\ rec[n] = None THEN {[member |-> n, c |-> c]} ELSE {})
  BY <1>1, Zenon
<1> HIDE DEF c, asks
<1> SUFFICES ASSUME ~lateExpiry, recovered = {}, NEW m \in Members,
                    signed'[m] # None, pos'[m] = Window
             PROVE  [member |-> m, c |-> signed'[m]] \in shares'
  BY <1>2, Zenon DEF LastSharesAlive
<1>4. m \in Nodes /\ rec[n] = None
  BY QuorumAssumption, Zenon DEF IInv, TypeOK
<1>5. CASE m # n
  <2>1. signed'[m] = signed[m] /\ pos'[m] = pos[m]
    BY <1>3, <1>4, <1>5, Zenon DEF IInv, TypeOK
  <2> QED BY <1>3, <2>1 DEF LastSharesAlive
<1>6. CASE m = n /\ asks
  <2>1. signed'[m] = c
    BY <1>3, <1>4, <1>6, Zenon DEF IInv, TypeOK
  <2>2. [member |-> n, c |-> c] \in shares'
    BY <1>3, <1>4, <1>6, Zenon
  <2> QED BY <1>6, <2>1, <2>2, Zenon
<1>7. CASE m = n /\ ~asks
  <2>1. signed'[m] = signed[n] /\ signed[n] # None
    BY <1>3, <1>4, <1>7, Zenon DEF IInv, TypeOK
  <2>2. vote[n] = signed[n]
    BY <1>4, <2>1, Zenon DEF IInv, SignedIsVote
  <2>3. [member |-> n, c |-> signed[n]] \in ReAsked(n, asks)
    BY <1>4, <1>7, <2>1, <2>2, Zenon DEF ReAsked, AsyncSignIfMember
  <2> QED BY <1>3, <1>7, <2>1, <2>3
<1> QED BY <1>5, <1>6, <1>7, Zenon

LEMMA StepKeepsShares ==
    IInv /\ LastSharesAlive /\ [Next]_vars => LastSharesAlive'
<1> SUFFICES ASSUME IInv, LastSharesAlive, [Next]_vars PROVE LastSharesAlive'
  BY Zenon
<1>1. ASSUME NEW n \in Nodes, Restart(n) PROVE LastSharesAlive'
  <2>1. /\ signed' = [signed EXCEPT ![n] = None]
        /\ UNCHANGED <<pos, shares, recovered, lateExpiry>>
    BY <1>1, Zenon DEF Restart, netVars
  <2>2. \A m \in Members : signed'[m] # None => signed'[m] = signed[m]
    BY <2>1, QuorumAssumption, Zenon DEF IInv, TypeOK
  <2> QED BY <2>1, <2>2 DEF LastSharesAlive
<1>2. CASE ExpireSession
  BY <1>2, Zenon DEF ExpireSession, nodeVars, LastSharesAlive
<1>3. ASSUME NEW n \in Nodes, Recover(n) PROVE LastSharesAlive'
  BY <1>3, Zenon DEF Recover, LastSharesAlive
<1>4. ASSUME NEW n \in Nodes, DoubleSign(n) PROVE LastSharesAlive'
  BY <1>4, Zenon DEF DoubleSign, nodeVars, boundVars, LastSharesAlive
<1>5. CASE UNCHANGED <<signed, pos, shares, recovered, lateExpiry>>
  BY <1>5, Zenon DEF LastSharesAlive
<1>6. \/ UNCHANGED <<signed, pos, shares, recovered, lateExpiry>>
      \/ ExpireSession
      \/ \E n \in Nodes : Tick(n) \/ Restart(n) \/ Recover(n) \/ DoubleSign(n)
  BY ZenonT(30) DEF Next, vars, nodeVars, netVars, boundVars, ReceiveReport, ReceiveCommitment,
         LearnRecoveredSig, CloseEpoch
<1> QED BY <1>1, <1>2, <1>3, <1>4, <1>5, <1>6, TickKeepsShares, Zenon

\* Members that voted for one commitment on different ticks still sign it
\* together: ProcessDSLTick asks once more on every later tick of the window
\* while the signature is missing, so a threshold of them has its shares alive
\* at the end of the window, unless the session timed out in its last tick.
THEOREM VotesSignTogether == Spec => []VotesMeet
<1>1. Init => LastSharesAlive
  BY QuorumAssumption, Zenon DEF Init, LastSharesAlive
<1>2. IInv /\ LastSharesAlive => VotesMeet
  <2> SUFFICES ASSUME IInv, LastSharesAlive, ~lateExpiry, recovered = {}, NEW c, c # None,
                      Cardinality({n \in Members : vote[n] = c /\ signed[n] = c
                                                   /\ pos[n] = Window}) >= Threshold
               PROVE  Enough(c)
    BY Zenon DEF VotesMeet
  <2> DEFINE voters == {n \in Members : vote[n] = c /\ signed[n] = c /\ pos[n] = Window}
  <2>1. voters \in SUBSET SharesOn(c)
    <3> SUFFICES ASSUME NEW n \in voters PROVE n \in SharesOn(c)
      BY Zenon
    <3>1. [member |-> n, c |-> c] \in shares
      BY Zenon DEF LastSharesAlive
    <3> QED BY <3>1 DEF SharesOn
  <2>2. SharesOn(c) \in SUBSET Members
    BY DEF SharesOn, IInv, TypeOK
  <2>3. IsFiniteSet(SharesOn(c))
    BY <2>2, FS_Subset, MembersFinite, Zenon
  <2> HIDE DEF voters
  <2>4. IsFiniteSet(voters) /\ Cardinality(voters) <= Cardinality(SharesOn(c))
    BY <2>1, <2>3, FS_Subset, Zenon
  <2>5. Cardinality(voters) \in Nat /\ Cardinality(SharesOn(c)) \in Nat
    BY <2>3, <2>4, FS_CardinalityType, Zenon
  <2>6. Cardinality(voters) >= Threshold
    BY Zenon DEF voters
  <2> QED BY <2>4, <2>5, <2>6, QuorumAssumption DEF Enough
<1> QED BY <1>1, <1>2, StepKeepsShares, Inductive, PTL DEF Spec
=============================================================================
