------------------------------ MODULE EarlyHold -----------------------------
(***************************************************************************)
(* The bounded hold of announcements that arrive before their epoch's tick *)
(* (HoldDSLEarlyResponse, ForgetDSLEarlyVoucher and the drain of           *)
(* ProcessDSLTick in net_processing.cpp): who vouches for an entry, which  *)
(* entry gives way when the hold is full, and whose entries the drain      *)
(* leaves unchecked.                                                       *)
(*                                                                         *)
(* One synced node, one epoch, one base block.  Reorgs, other epochs and   *)
(* the node's sync state are in SentinelNode, whose hold has no bound.     *)
(* Entries of equal weight are taken in any order, oldest first in the     *)
(* code.                                                                   *)
(***************************************************************************)
EXTENDS Integers, FiniteSets, FiniteSetsExt

CONSTANTS
    MN,             \* the masternodes of the list at the base
    Unlisted,       \* other names an announcement can carry
    Signatures,     \* what an announcement can carry as its signature
    Valid,          \* the one for the base; a reorg or a fault makes others
    Conns,          \* connections, each used once (NodeId)
    Honest,         \* those that relay only what they verified
    MaxOthers,      \* bound: other connections at one time
    HoldMax,        \* DSLEarlyResponsesMax
    VouchersMax,    \* DSL_EARLY_VOUCHERS_MAX
    Interval,       \* nDSLEpochInterval
    Base,           \* the height of the base block
    StartHeight,    \* bound: the first and the last height
    LastHeight

ASSUME HoldAssumption ==
    /\ IsFiniteSet(MN) /\ IsFiniteSet(Conns) /\ Honest \subseteq Conns
    /\ "shared" \notin Conns
    /\ Valid \in Signatures
    /\ HoldMax \in Nat \ {0} /\ VouchersMax \in Nat \ {0}
    /\ Interval \in Nat \ {0} /\ Base \in Nat
    /\ StartHeight \in Nat /\ LastHeight \in Nat /\ StartHeight <= LastHeight

Responses == [proTx : MN, sig : Signatures] \cup [proTx : Unlisted, sig : {Valid}]

Genuine(r) == r.proTx \in MN /\ r.sig = Valid

VARIABLES
    height,
    up,         \* the live connections
    since,      \* since[c]: m_dsl_connected_height
    closed,     \* connections that are over
    lived,      \* history: those of them that had lasted an epoch
    held,       \* the epoch's entries; by: history, everyone who vouched
    tally,      \* the epoch's map of vouchers, 0 where it has no key
    responded,  \* masternodes whose response is recorded
    begun,      \* the manager is on the epoch
    msg,        \* the response the message thread handles
    ticked,     \* height of the last tick
    drain,      \* the drain of the tick that is running
    checks,     \* history: signature checks of the running drain
    ids         \* history: the deliverers the running drain knows

chain == <<height, ticked, begun>>
peers == <<up, since, closed, lived>>
hold == <<held, tally>>
history == <<checks, ids>>
vars == <<chain, peers, hold, responded, msg, drain, history>>

NoMsg == [at |-> "idle"]

DrainIdle == [at |-> "idle", left |-> {}, cur |-> {}, untrusted |-> {}]

Init ==
    /\ height = StartHeight /\ ticked = StartHeight /\ begun = FALSE
    /\ up = {} /\ closed = {} /\ lived = {} /\ since = [c \in Conns |-> 0]
    /\ held = {} /\ tally = [c \in Conns |-> 0]
    /\ responded = {}
    /\ msg = NoMsg /\ drain = DrainIdle
    /\ checks = 0 /\ ids = {}

-----------------------------------------------------------------------------
(* Connections and blocks. *)

ConnectPeer(c) ==
    /\ c \notin up \cup closed
    /\ c \in Honest \/ Cardinality(up \ Honest) < MaxOthers
    /\ up' = up \cup {c}
    /\ since' = [since EXCEPT ![c] = height]
    /\ UNCHANGED <<chain, closed, lived, hold, responded, msg, drain, history>>

LivedAnEpoch(c) == height - since[c] >= Interval

\* Mutant: the entries keep the voucher, the tally forgets it.
ForgetTallyOnly(c) ==
    /\ held' = held
    /\ tally' = [tally EXCEPT ![c] = 0]

\* ForgetDSLEarlyVoucher: the connection vouches no more.  The drain will know
\* it by its own id if it lived an epoch.
ForgetVoucher(c) ==
    LET own(x) == LivedAnEpoch(c) /\ Cardinality(x.departed) < VouchersMax IN
    /\ held' = {IF c \notin x.vouchers THEN x
                ELSE [x EXCEPT !.vouchers = @ \ {c},
                               !.departed = IF own(x) THEN @ \cup {c} ELSE @,
                               !.shared = @ \/ ~own(x)] : x \in held}
    /\ tally' = [tally EXCEPT ![c] = 0]

\* FinalizeNode, once the message thread is done with the peer.
DisconnectPeer(c) ==
    /\ c \in up
    /\ msg.at # "idle" => msg.from # c
    /\ up' = up \ {c} /\ closed' = closed \cup {c} /\ since' = [since EXCEPT ![c] = 0]
    /\ lived' = IF LivedAnEpoch(c) THEN lived \cup {c} ELSE lived
    /\ ForgetVoucher(c)
    /\ UNCHANGED <<chain, responded, msg, drain, history>>

ConnectBlock ==
    /\ height < LastHeight
    /\ height' = height + 1
    /\ UNCHANGED <<ticked, begun, peers, hold, responded, msg, drain, history>>

-----------------------------------------------------------------------------
(* The message thread. *)

\* POSERESPONSE: the base and the tip are read under cs_main.  A response for a
\* base more than an epoch away is refused, and so is one for a connected base
\* that names no masternode of its list.
RecvResponse(c, r) ==
    /\ msg = NoMsg /\ c \in up
    /\ c \in Honest => Genuine(r)
    /\ IF height >= Base THEN r.proTx \in MN ELSE Base - height <= Interval
    /\ msg' = [at |-> "hold", from |-> c, r |-> r, connected |-> height >= Base]
    /\ UNCHANGED <<chain, peers, hold, responded, drain, history>>

\* How many entries a live peer vouches for, of those that compete.
InSet(c) == IF tally[c] = 0 THEN 0 ELSE Cardinality({x \in held : c \in x.vouchers})

Live(x) == {c \in x.vouchers : tally[c] # 0}

\* Mutant: the heaviest voucher decides.
ShareOfHeaviest(x) == IF Live(x) = {} THEN 0 ELSE Max({InSet(c) : c \in Live(x)})

\* The share of the lightest live voucher.
ShareOf(x) == Min({InSet(c) : c \in Live(x)})

\* Whether x is weaker than an entry whose share is s.
WeakerThan(x, s) == Live(x) = {} \/ ShareOf(x) > s

\* The weakest entries: those nobody live vouches for, else the ones with the
\* largest share.
Weakest ==
    LET orphans == {x \in held : Live(x) = {}} IN
    IF orphans # {} THEN orphans
    ELSE {x \in held : \A y \in held : ShareOf(y) <= ShareOf(x)}

\* The vouch lambda.
Vouched(x, c) ==
    IF Cardinality(x.vouchers) < VouchersMax
    THEN [x EXCEPT !.vouchers = @ \cup {c}, !.by = @ \cup {c}] ELSE x

Tallied(t, x, c) ==
    IF c \in x.vouchers \/ Cardinality(x.vouchers) >= VouchersMax THEN t
    ELSE [t EXCEPT ![c] = @ + 1]

NewEntry(r, connected) ==
    [resp |-> r, connected |-> connected, vouchers |-> {}, departed |-> {}, shared |-> FALSE,
     by |-> {}]

\* A copy of a held response adds its relayer; for the connected base it is
\* verified first and the entry promoted.
HoldCopy(x, m) ==
    IF m.connected /\ ~x.connected /\ m.r.sig # Valid THEN UNCHANGED hold
    ELSE LET y == [x EXCEPT !.connected = @ \/ m.connected] IN
         /\ held' = (held \ {x}) \cup {Vouched(y, m.from)}
         /\ tally' = Tallied(tally, y, m.from)

\* The weakest entry w gives way to the newcomer; its vouchers lose one each.
Displace(w, m) ==
    LET rest == [c \in Conns |-> IF c \in Live(w) THEN tally[c] - 1 ELSE tally[c]]
        new == NewEntry(m.r, m.connected)
    IN  /\ held' = (held \ {w}) \cup {Vouched(new, m.from)}
        /\ tally' = Tallied(rest, new, m.from)

\* Mutant: the bound is tested one entry late.
HoldOneMore(m) ==
    LET new == NewEntry(m.r, m.connected) IN
    IF Cardinality(held) <= HoldMax
    THEN held' = held \cup {Vouched(new, m.from)} /\ tally' = Tallied(tally, new, m.from)
    ELSE UNCHANGED hold

\* A newcomer: verified if the base is connected, held while there is room, and
\* otherwise weighed against the weakest entry, which stays on a tie.
HoldNew(m) ==
    LET new == NewEntry(m.r, m.connected) IN
    IF m.connected /\ m.r.sig # Valid THEN UNCHANGED hold
    ELSE IF Cardinality(held) < HoldMax
    THEN /\ held' = held \cup {Vouched(new, m.from)}
         /\ tally' = Tallied(tally, new, m.from)
    ELSE \E w \in Weakest :
            IF WeakerThan(w, InSet(m.from) + 1) THEN Displace(w, m) ELSE UNCHANGED hold

\* HoldDSLEarlyResponse under the hold's lock; the manager is asked again.
HoldDSLEarlyResponse ==
    LET copies == {x \in held : x.resp = msg.r} IN
    /\ msg.at = "hold"
    /\ IF msg.connected /\ begun
       THEN /\ msg' = [msg EXCEPT !.at = "process"]
            /\ UNCHANGED hold
       ELSE /\ IF copies = {} THEN HoldNew(msg) ELSE \E x \in copies : HoldCopy(x, msg)
            /\ msg' = NoMsg
    /\ UNCHANGED <<chain, peers, responded, drain, history>>

\* ProcessResponse on the message thread.
ProcessResponse ==
    /\ msg.at = "process"
    /\ responded' = responded \cup (IF Genuine(msg.r) THEN {msg.r.proTx} ELSE {})
    /\ msg' = NoMsg
    /\ UNCHANGED <<chain, peers, hold, drain, history>>

-----------------------------------------------------------------------------
(* The tick, on the scheduler thread. *)

\* BeginEpoch, on the tick of the tip.
TickBegin ==
    /\ drain.at = "idle" /\ ticked < height
    /\ ticked' = height
    /\ begun' = (height >= Base)
    /\ drain' = IF height >= Base THEN [DrainIdle EXCEPT !.at = "take"] ELSE DrainIdle
    /\ checks' = 0 /\ ids' = {}
    /\ UNCHANGED <<height, peers, hold, responded, msg>>

\* in_shared_group: a deliverer of x left within an epoch of connecting.
InSharedGroup(x) == x.shared \/ x.vouchers \cup x.departed = {}

\* Those who delivered x, as far as the drain can tell them apart.
Deliverers(x) ==
    x.vouchers \cup x.departed \cup (IF InSharedGroup(x) THEN {"shared"} ELSE {})

\* The entries leave the hold under its lock.
TickTakes ==
    /\ drain.at = "take"
    /\ drain' = [drain EXCEPT !.at = IF held = {} THEN "idle" ELSE "check", !.left = held]
    /\ ids' = UNION {Deliverers(x) : x \in held}
    /\ held' = {} /\ tally' = [c \in Conns |-> 0]
    /\ UNCHANGED <<chain, peers, responded, msg, checks>>

\* Mutant: one bad deliverer is enough.
UntrustedAny(x) == Deliverers(x) \cap drain.untrusted # {}

\* All that delivered x have also delivered a bad signature.
UntrustedOnly(x) == Deliverers(x) \subseteq drain.untrusted

Skips(x) == x.resp.proTx \in MN /\ ~x.connected /\ UntrustedOnly(x)

Rank(x) == Cardinality(x.vouchers) + Cardinality(x.departed)

\* The drain without x; it is over with the last entry.
Drained(d, x) == IF d.left = {x} THEN DrainIdle ELSE [d EXCEPT !.left = @ \ {x}]

\* The next entry of the sorted list: skipped, or given to ProcessResponse, which
\* checks the signature of a listed masternode that has not responded.  After a
\* refusal the manager is asked whether it was a duplicate.
DrainEntry(x) ==
    LET fresh == x.resp.proTx \in MN \ responded /\ ~Skips(x)
        accepted == fresh /\ x.resp.sig = Valid
        refused == x.resp.proTx \in MN /\ ~x.connected /\ ~Skips(x) /\ ~accepted
    IN
    /\ drain.at = "check" /\ x \in drain.left
    /\ \A y \in drain.left : Rank(y) <= Rank(x)
    /\ responded' = IF accepted THEN responded \cup {x.resp.proTx} ELSE responded
    /\ checks' = IF fresh /\ ~x.connected THEN checks + 1 ELSE checks
    /\ drain' = IF refused THEN [drain EXCEPT !.at = "ask", !.cur = {x}] ELSE Drained(drain, x)
    /\ UNCHANGED <<chain, peers, hold, msg, ids>>

\* Mutant: a bad signature taints the live deliverers only.
TaintLiveOnly(x) == [drain EXCEPT !.untrusted = @ \cup x.vouchers, !.at = "check", !.cur = {}]

\* Everyone who delivered x is untrusted for the rest of the drain.
Taint(x) == [drain EXCEPT !.untrusted = @ \cup Deliverers(x), !.at = "check", !.cur = {}]

DrainAsks ==
    \E x \in drain.cur :
        /\ drain.at = "ask"
        /\ drain' = Drained(IF x.resp.proTx \in responded
                            THEN [drain EXCEPT !.at = "check", !.cur = {}] ELSE Taint(x), x)
        /\ UNCHANGED <<chain, peers, hold, responded, msg, history>>

Next ==
    \/ \E c \in Conns : ConnectPeer(c) \/ DisconnectPeer(c)
    \/ ConnectBlock
    \/ \E c \in Conns, r \in Responses : RecvResponse(c, r)
    \/ HoldDSLEarlyResponse \/ ProcessResponse
    \/ TickBegin \/ TickTakes
    \/ \E x \in drain.left : DrainEntry(x)
    \/ DrainAsks

Spec == Init /\ [][Next]_vars

-----------------------------------------------------------------------------
(* Properties. *)

\* The state keeps its shape; the hold and the vouchers of an entry keep their
\* caps, and a response is held once.
TypeOK ==
    /\ height \in StartHeight .. LastHeight /\ up \subseteq Conns /\ responded \subseteq MN
    /\ held \subseteq [resp : Responses, connected : BOOLEAN, vouchers : SUBSET Conns,
                       departed : SUBSET Conns, shared : BOOLEAN,
                       by : SUBSET Conns]
    /\ Cardinality(held) <= HoldMax
    /\ \A x \in held : Cardinality(x.vouchers) <= VouchersMax
    /\ \A x, y \in held : x.resp = y.resp => x = y
    /\ tally \in [Conns -> 0 .. HoldMax]

\* "the per-entry lists and `vouchers` say the same thing about who is still
\* live": through copies, evictions, departures and the drain, the tally counts
\* the entries a peer vouches for, and every voucher is connected.
TallyExact ==
    /\ \A c \in Conns : tally[c] = Cardinality({x \in held : c \in x.vouchers})
    /\ \A x \in held : x.vouchers \subseteq up

\* While the other connections are at most HoldMax / N - 1 for N masternodes, as
\* the sizing of DSL_EARLY_RESPONSES_PER_MN has it, an announcement delivered by
\* a connected honest relay finds room and is never displaced, however often the
\* others reconnect.
HonestHeld ==
    [][/\ \A x \in held : x.vouchers \cap Honest \cap up' # {} =>
              \/ \E y \in held' : y.resp = x.resp
              \/ x \in drain'.left
       /\ msg.at = "hold" /\ msg' = NoMsg /\ msg.from \in Honest =>
              \E y \in held' : y.resp = msg.r]_vars

\* The drain leaves an entry an honest relay vouched for unchecked only if the
\* relay has left within an epoch of connecting: bad signatures taint those who
\* delivered them, and a relay that lasted longer keeps its id
\* (ForgetDSLEarlyVoucher), as long as the entry has room for ids.
SkippedForCause ==
    [][\A x \in drain.left \ drain'.left : Skips(x) =>
          \A h \in Honest \cap x.by :
              h \in closed /\ (h \notin lived \/ Cardinality(x.departed) = VouchersMax)]_vars

\* A drain checks at most one signature per listed masternode and per deliverer
\* it can tell apart, the short-lived ones counted as one, however full the hold
\* and whatever the message thread records meanwhile (the comment in
\* ProcessDSLTick allows one more for each of those).
ChecksBounded == checks <= Cardinality(MN) + Cardinality(ids)
=============================================================================
