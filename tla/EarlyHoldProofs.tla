--------------------------- MODULE EarlyHoldProofs --------------------------
(***************************************************************************)
(* For every list, hold, cap and number of connections: the hold keeps its *)
(* shape, the tally of vouchers is exact, a drain checks no more           *)
(* signatures than the list has masternodes and the drain has deliverers,  *)
(* it leaves an honest relay's entry unchecked only for cause, and in a    *)
(* hold of the intended size such an entry finds room and is not           *)
(* displaced.                                                              *)
(*                                                                         *)
(* The tally is followed through removals and additions of entries.  For   *)
(* the checks, every check is charged to a masternode that is recorded by  *)
(* the time the entry is done, whoever recorded it, or to a deliverer that *)
(* was not untrusted before; DrainInv keeps the two accounts.  TrustInv    *)
(* traces everyone who vouched for an entry.  For the room, the entries of *)
(* a full hold are counted by their lightest vouchers.                     *)
(***************************************************************************)
EXTENDS EarlyHold, FiniteSetTheorems, TLAPS

Entries == [resp : Responses, connected : BOOLEAN, vouchers : SUBSET Conns,
            departed : SUBSET Conns, shared : BOOLEAN, by : SUBSET Conns]

\* The shape of a hold H.
Shape(H) ==
    /\ H \subseteq Entries /\ IsFiniteSet(H)
    /\ Cardinality(H) <= HoldMax
    /\ \A x \in H : Cardinality(x.vouchers) <= VouchersMax
    /\ \A x, y \in H : x.resp = y.resp => x = y

\* The entries of H that c vouches for.
VouchedBy(H, c) == {x \in H : c \in x.vouchers}

\* t counts the entries of H each connection vouches for; all of them are in u.
Tallies(H, t, u) ==
    /\ t \in [Conns -> Nat]
    /\ \A c \in Conns : t[c] = Cardinality(VouchedBy(H, c))
    /\ \A x \in H : x.vouchers \subseteq u

MsgOK ==
    msg.at # "idle" =>
        /\ msg.at \in {"hold", "process"}
        /\ msg \in [at : {"hold", "process"}, from : up, r : Responses, connected : BOOLEAN]

\* The inductive invariant of the hold.
HoldInv ==
    /\ height \in StartHeight .. LastHeight
    /\ up \subseteq Conns /\ responded \subseteq MN
    /\ Shape(held) /\ Tallies(held, tally, up)
    /\ MsgOK

-----------------------------------------------------------------------------
(* Counting the entries of a voucher. *)

\* An entry more is one more for each of its vouchers.
LEMMA CountAdd ==
    ASSUME NEW H, IsFiniteSet(H), NEW e, e \notin H, NEW c
    PROVE  /\ Cardinality(VouchedBy(H, c)) \in Nat
           /\ Cardinality(VouchedBy(H \cup {e}, c)) =
                  IF c \in e.vouchers THEN Cardinality(VouchedBy(H, c)) + 1
                  ELSE Cardinality(VouchedBy(H, c))
<1>1. IsFiniteSet(VouchedBy(H, c)) /\ e \notin VouchedBy(H, c)
  BY FS_Subset, Zenon DEF VouchedBy
<1>2. Cardinality(VouchedBy(H, c)) \in Nat
  BY <1>1, FS_CardinalityType, Zenon
<1>3. CASE c \in e.vouchers
  <2>1. VouchedBy(H \cup {e}, c) = VouchedBy(H, c) \cup {e}
    BY <1>3, Zenon DEF VouchedBy
  <2>2. Cardinality(VouchedBy(H, c) \cup {e}) = Cardinality(VouchedBy(H, c)) + 1
    BY <1>1, FS_AddElement, Zenon
  <2> QED BY <1>2, <1>3, <2>1, <2>2, Zenon
<1>4. CASE c \notin e.vouchers
  <2>1. VouchedBy(H \cup {e}, c) = VouchedBy(H, c)
    BY <1>4, Zenon DEF VouchedBy
  <2> QED BY <1>2, <1>4, <2>1, Zenon
<1> QED BY <1>3, <1>4, Zenon

\* e can join the entries of H.
Fits(H, e, u) ==
    /\ e \in Entries /\ e.vouchers \subseteq u
    /\ Cardinality(e.vouchers) <= VouchersMax
    /\ \A x \in H : x.resp # e.resp

\* s is t with the vouchers of e counted.
Counts(s, t, e) ==
    /\ s \in [Conns -> Nat]
    /\ \A c \in Conns : s[c] = IF c \in e.vouchers THEN t[c] + 1 ELSE t[c]

\* An entry that is added, as HoldNew does.
LEMMA AddEntry ==
    ASSUME NEW H, NEW t, NEW u, Shape(H), Tallies(H, t, u), Cardinality(H) < HoldMax,
           NEW e, Fits(H, e, u), NEW s, Counts(s, t, e)
    PROVE  Shape(H \cup {e}) /\ Tallies(H \cup {e}, s, u)
<1> USE DEF Fits, Counts
<1>1. e \notin H
  BY Zenon
<1>2. Shape(H \cup {e})
  <2>1. IsFiniteSet(H) /\ Cardinality(H) \in Nat
    BY FS_CardinalityType, Zenon DEF Shape
  <2>2. IsFiniteSet(H \cup {e}) /\ Cardinality(H \cup {e}) = Cardinality(H) + 1
    BY <1>1, <2>1, FS_AddElement, Zenon
  <2>3. Cardinality(H \cup {e}) <= HoldMax
    BY <2>1, <2>2, HoldAssumption
  <2> QED BY <2>2, <2>3, Zenon DEF Shape
<1>3. Tallies(H \cup {e}, s, u)
  <2>1. ASSUME NEW c \in Conns
        PROVE  s[c] = Cardinality(VouchedBy(H \cup {e}, c))
    <3>1. t[c] = Cardinality(VouchedBy(H, c))
      BY Zenon DEF Tallies
    <3>2. IsFiniteSet(H)
      BY Zenon DEF Shape
    <3>3. /\ Cardinality(VouchedBy(H, c)) \in Nat
          /\ Cardinality(VouchedBy(H \cup {e}, c)) =
                 IF c \in e.vouchers THEN Cardinality(VouchedBy(H, c)) + 1
                 ELSE Cardinality(VouchedBy(H, c))
      BY <1>1, <3>2, CountAdd, Zenon
    <3> QED BY <3>1, <3>3, Zenon
  <2>2. \A x \in H \cup {e} : x.vouchers \subseteq u
    BY Zenon DEF Tallies
  <2> QED BY <2>1, <2>2, Zenon DEF Tallies
<1> QED BY <1>2, <1>3, Zenon

\* An entry that is taken out, as the contest does with the weakest.
LEMMA RemoveEntry ==
    ASSUME NEW H, NEW t, NEW u, Shape(H), Tallies(H, t, u), NEW w \in H
    PROVE  /\ Shape(H \ {w}) /\ Cardinality(H \ {w}) < HoldMax
           /\ \A c \in w.vouchers \cap Conns : t[c] > 0
           /\ Tallies(H \ {w}, [c \in Conns |-> IF c \in w.vouchers THEN t[c] - 1 ELSE t[c]], u)
<1> DEFINE R == H \ {w}
           s == [c \in Conns |-> IF c \in w.vouchers THEN t[c] - 1 ELSE t[c]]
<1>1. H = R \cup {w} /\ w \notin R
  BY Zenon
<1>2. IsFiniteSet(H) /\ Cardinality(H) \in Nat
  BY FS_CardinalityType, Zenon DEF Shape
<1>3. IsFiniteSet(R) /\ Cardinality(R) = Cardinality(H) - 1
  BY <1>2, FS_RemoveElement, Zenon
<1>4. Shape(R) /\ Cardinality(R) < HoldMax
  <2>1. Cardinality(H) <= HoldMax
    BY Zenon DEF Shape
  <2>2. Cardinality(R) < HoldMax /\ Cardinality(R) <= HoldMax
    BY <1>2, <1>3, <2>1, HoldAssumption
  <2> QED BY <1>3, <2>2, Zenon DEF Shape
<1>5. \A c \in Conns :
          /\ Cardinality(VouchedBy(R, c)) \in Nat
          /\ t[c] = IF c \in w.vouchers THEN Cardinality(VouchedBy(R, c)) + 1
                    ELSE Cardinality(VouchedBy(R, c))
  <2>1. \A c \in Conns : t[c] = Cardinality(VouchedBy(R \cup {w}, c))
    BY <1>1, Zenon DEF Tallies
  <2> HIDE DEF R
  <2> SUFFICES ASSUME NEW c \in Conns
               PROVE  /\ Cardinality(VouchedBy(R, c)) \in Nat
                      /\ t[c] = IF c \in w.vouchers THEN Cardinality(VouchedBy(R, c)) + 1
                                ELSE Cardinality(VouchedBy(R, c))
    BY Zenon
  <2>2. /\ Cardinality(VouchedBy(R, c)) \in Nat
        /\ Cardinality(VouchedBy(R \cup {w}, c)) =
               IF c \in w.vouchers THEN Cardinality(VouchedBy(R, c)) + 1
               ELSE Cardinality(VouchedBy(R, c))
    <3>1. IsFiniteSet(R) /\ w \notin R
      BY <1>1, <1>3, Zenon
    <3> QED BY ONLY <3>1, CountAdd, ZenonT(30)
  <2> QED BY <2>1, <2>2, Zenon
<1>6. s \in [Conns -> Nat] /\ \A c \in Conns : s[c] = Cardinality(VouchedBy(R, c))
  <2> HIDE DEF R
  <2> QED BY <1>5
<1>7. Tallies(R, s, u)
  BY <1>6, Zenon DEF Tallies
<1>8. \A c \in w.vouchers \cap Conns : t[c] > 0
  BY <1>5
<1> QED BY <1>4, <1>7, <1>8, Zenon

\* f takes the entries of H to those of K, which c no longer vouches for.
Forgets(f, H, K, c) ==
    /\ f \in [H -> Entries]
    /\ \A x \in H : f[x].resp = x.resp /\ f[x].vouchers = x.vouchers \ {c}
    /\ K = {f[x] : x \in H}

\* s is t without the count of c.
Clears(s, t, c) ==
    /\ s \in [Conns -> Nat] /\ s[c] = 0
    /\ \A d \in Conns \ {c} : s[d] = t[d]

\* A connection that vouches no more: the entries stay as they are otherwise, so
\* the counts of the others do not change.
LEMMA ForgetKeepsCounts ==
    ASSUME NEW H, NEW t, NEW u, Shape(H), Tallies(H, t, u), NEW c \in Conns,
           NEW f, NEW K, Forgets(f, H, K, c), NEW s, Clears(s, t, c)
    PROVE  Shape(K) /\ Tallies(K, s, u \ {c})
<1>0. /\ f \in [H -> Entries]
      /\ \A x \in H : f[x].resp = x.resp /\ f[x].vouchers = x.vouchers \ {c}
      /\ \A k : k \in K <=> \E x \in H : k = f[x]
      /\ s \in [Conns -> Nat] /\ s[c] = 0 /\ \A d \in Conns \ {c} : s[d] = t[d]
  BY Zenon DEF Forgets, Clears
<1> USE <1>0
<1>1. \A x, y \in H : f[x] = f[y] => x = y
  BY DEF Shape
<1>2. f \in Bijection(H, K)
  BY <1>1, Zenon DEF Bijection, Injection, Surjection, IsInjective
<1>3. IsFiniteSet(K) /\ Cardinality(K) = Cardinality(H)
  BY <1>2, FS_Bijection, Zenon DEF Shape, ExistsBijection
<1>4. Shape(K)
  <2>1. \A x \in H : Cardinality(f[x].vouchers) <= VouchersMax
    <3> SUFFICES ASSUME NEW x \in H
                 PROVE  Cardinality(f[x].vouchers) <= VouchersMax
      BY Zenon
    <3>1. x.vouchers \in SUBSET Conns /\ f[x].vouchers \subseteq x.vouchers
      BY ZenonT(30) DEF Shape, Entries
    <3>2. IsFiniteSet(x.vouchers)
      BY <3>1, FS_Subset, HoldAssumption, Zenon
    <3>3. Cardinality(f[x].vouchers) <= Cardinality(x.vouchers)
      BY <3>1, <3>2, FS_Subset, Zenon
    <3>4. Cardinality(x.vouchers) <= VouchersMax
      BY Zenon DEF Shape
    <3>5. Cardinality(x.vouchers) \in Nat /\ Cardinality(f[x].vouchers) \in Nat
      BY <3>1, <3>2, FS_Subset, FS_CardinalityType, Zenon
    <3> QED BY <3>3, <3>4, <3>5, HoldAssumption
  <2>2. \A x, y \in K : x.resp = y.resp => x = y
    BY DEF Shape
  <2>3. Cardinality(K) <= HoldMax
    BY <1>3, Zenon DEF Shape
  <2>4. K \subseteq Entries
    OBVIOUS
  <2>5. \A x \in K : Cardinality(x.vouchers) <= VouchersMax
    BY <2>1, ZenonT(30)
  <2> QED BY <1>3, <2>2, <2>3, <2>4, <2>5, Zenon DEF Shape
<1>5. \A d \in Conns : s[d] = Cardinality(VouchedBy(K, d))
  <2> SUFFICES ASSUME NEW d \in Conns
               PROVE  s[d] = Cardinality(VouchedBy(K, d))
    BY Zenon
  <2>1. CASE d = c
    <3>1. VouchedBy(K, d) = {}
      BY <2>1 DEF VouchedBy
    <3>2. s[d] = 0
      BY <2>1, Zenon DEF Tallies
    <3> QED BY <3>1, <3>2, FS_EmptySet, Zenon
  <2>2. CASE d # c
    <3> DEFINE A == VouchedBy(H, d)
               B == VouchedBy(K, d)
               g == [x \in A |-> f[x]]
    <3>1. g \in [A -> B] /\ \A b \in B : \E x \in A : g[x] = b
      BY <2>2 DEF VouchedBy
    <3>2. \A x, y \in A : g[x] = g[y] => x = y
      BY <1>1, Zenon DEF VouchedBy
    <3>3. g \in Bijection(A, B)
      <4> HIDE DEF g, A, B
      <4> QED BY <3>1, <3>2, Zenon DEF Bijection, Injection, Surjection, IsInjective
    <3>4. IsFiniteSet(A)
      BY FS_Subset, Zenon DEF Shape, VouchedBy
    <3>5. Cardinality(B) = Cardinality(A)
      <4> HIDE DEF g, A, B
      <4> QED BY <3>3, <3>4, FS_Bijection, Zenon DEF ExistsBijection
    <3>6. s[d] = t[d] /\ t[d] = Cardinality(A)
      BY <2>2, Zenon DEF Tallies
    <3> QED BY <3>5, <3>6, Zenon
  <2> QED BY <2>1, <2>2, Zenon
<1>6. \A x \in K : x.vouchers \subseteq u \ {c}
  BY DEF Tallies
<1>7. Tallies(K, s, u \ {c})
  BY <1>5, <1>6, Zenon DEF Tallies
<1> QED BY <1>4, <1>7, Zenon

-----------------------------------------------------------------------------
(* The operations on the hold. *)

\* The vouch lambda adds the connection and nothing else, within the cap.
LEMMA VouchedEntry ==
    ASSUME NEW x \in Entries, NEW c \in Conns, Cardinality(x.vouchers) <= VouchersMax
    PROVE  /\ Vouched(x, c) \in Entries
           /\ Vouched(x, c).resp = x.resp
           /\ Cardinality(Vouched(x, c).vouchers) <= VouchersMax
           /\ Vouched(x, c).vouchers = IF Cardinality(x.vouchers) < VouchersMax
                                       THEN x.vouchers \cup {c} ELSE x.vouchers
<1>1. x.vouchers \subseteq Conns /\ IsFiniteSet(x.vouchers)
  BY FS_Subset, HoldAssumption, Zenon DEF Entries
<1>2. Cardinality(x.vouchers) \in Nat
  BY <1>1, FS_CardinalityType, Zenon
<1>3. Cardinality(x.vouchers) < VouchersMax => Cardinality(x.vouchers \cup {c}) <= VouchersMax
  <2>1. Cardinality(x.vouchers \cup {c}) \in {Cardinality(x.vouchers), Cardinality(x.vouchers) + 1}
    BY <1>1, FS_AddElement, Zenon
  <2> QED BY <1>2, <2>1, HoldAssumption
<1>4. CASE Cardinality(x.vouchers) < VouchersMax
  <2>1. /\ Vouched(x, c) \in Entries
        /\ Vouched(x, c).resp = x.resp
        /\ Vouched(x, c).vouchers = x.vouchers \cup {c}
    BY <1>4, Zenon DEF Vouched, Entries
  <2> QED BY <1>3, <1>4, <2>1, Zenon
<1>5. CASE ~(Cardinality(x.vouchers) < VouchersMax)
  BY <1>5, Zenon DEF Vouched
<1> QED BY <1>4, <1>5, Zenon

\* A new entry is vouched for by its deliverer alone.
LEMMA NewEntryVouched ==
    ASSUME NEW r \in Responses, NEW b \in BOOLEAN, NEW c \in Conns
    PROVE  LET e == Vouched(NewEntry(r, b), c)
           IN  /\ e \in Entries /\ e.resp = r /\ e.vouchers = {c}
               /\ Cardinality(e.vouchers) <= VouchersMax
<1>1. /\ NewEntry(r, b) \in Entries
      /\ NewEntry(r, b).resp = r
      /\ NewEntry(r, b).vouchers = {}
  BY Zenon DEF NewEntry, Entries
<1>2. Cardinality({}) = 0 /\ 0 < VouchersMax /\ 0 <= VouchersMax
  BY FS_EmptySet, HoldAssumption
<1> QED BY <1>1, <1>2, VouchedEntry, Zenon

\* The tally counts the deliverer of a new entry.
LEMMA NewEntryTallied ==
    ASSUME NEW t \in [Conns -> Nat], NEW r \in Responses, NEW b \in BOOLEAN, NEW c \in Conns
    PROVE  Tallied(t, NewEntry(r, b), c) =
               [d \in Conns |-> IF d \in {c} THEN t[d] + 1 ELSE t[d]]
<1>1. Cardinality({}) = 0 /\ ~(0 >= VouchersMax)
  BY FS_EmptySet, HoldAssumption
<1>2. Tallied(t, NewEntry(r, b), c) = [t EXCEPT ![c] = @ + 1]
  BY <1>1, Zenon DEF Tallied, NewEntry
<1> QED BY <1>2, Zenon

\* A newcomer.
LEMMA HoldNewKeeps ==
    ASSUME HoldInv, msg.at = "hold", HoldNew(msg), \A x \in held : x.resp # msg.r
    PROVE  Shape(held') /\ Tallies(held', tally', up)
<1> DEFINE c == msg.from
           new == NewEntry(msg.r, msg.connected)
           e == Vouched(new, c)
<1>1. c \in up /\ c \in Conns /\ msg.r \in Responses /\ msg.connected \in BOOLEAN
  BY Zenon DEF HoldInv, MsgOK
<1>2. e \in Entries /\ e.resp = msg.r /\ e.vouchers = {c} /\ Cardinality(e.vouchers) <= VouchersMax
  BY <1>1, NewEntryVouched
<1>3. Shape(held) /\ Tallies(held, tally, up) /\ tally \in [Conns -> Nat]
  BY Zenon DEF HoldInv, Tallies
<1>4. CASE UNCHANGED hold
  BY <1>3, <1>4, Zenon DEF hold
<1>5. CASE /\ Cardinality(held) < HoldMax
           /\ held' = held \cup {e} /\ tally' = Tallied(tally, new, c)
  <2>1. /\ tally' \in [Conns -> Nat]
        /\ \A d \in Conns : tally'[d] = IF d \in e.vouchers THEN tally[d] + 1 ELSE tally[d]
    BY <1>1, <1>2, <1>3, <1>5, NewEntryTallied
  <2>2. Fits(held, e, up) /\ Counts(tally', tally, e)
    BY <1>1, <1>2, <2>1, Zenon DEF Fits, Counts
  <2> HIDE DEF e, c, new
  <2>3. Shape(held \cup {e}) /\ Tallies(held \cup {e}, tally', up)
    BY <1>3, <1>5, <2>2, AddEntry, Zenon
  <2> QED BY <1>5, <2>3, Zenon
<1>6. ASSUME NEW w \in held, Displace(w, msg)
      PROVE  Shape(held') /\ Tallies(held', tally', up)
  <2> DEFINE rest == [d \in Conns |-> IF d \in w.vouchers THEN tally[d] - 1 ELSE tally[d]]
  <2>1. /\ Shape(held \ {w}) /\ Cardinality(held \ {w}) < HoldMax
        /\ \A d \in w.vouchers \cap Conns : tally[d] > 0
        /\ Tallies(held \ {w}, rest, up)
    BY <1>3, RemoveEntry, Zenon
  <2>2. w.vouchers \subseteq Conns
    BY <1>3, Zenon DEF Shape, Entries
  <2>3. Live(w) = w.vouchers
    BY <1>3, <2>1, <2>2 DEF Live
  <2>4. held' = (held \ {w}) \cup {e} /\ tally' = Tallied(rest, new, c)
    BY <1>6, <2>3, Zenon DEF Displace
  <2>5. rest \in [Conns -> Nat]
    BY <2>1, Zenon DEF Tallies
  <2>6. /\ tally' \in [Conns -> Nat]
        /\ \A d \in Conns : tally'[d] = IF d \in e.vouchers THEN rest[d] + 1 ELSE rest[d]
    <3> HIDE DEF rest
    <3> QED BY <1>1, <1>2, <2>4, <2>5, NewEntryTallied
  <2>7. Fits(held \ {w}, e, up) /\ Counts(tally', rest, e)
    BY <1>1, <1>2, <2>6, Zenon DEF Fits, Counts
  <2> HIDE DEF e, c, rest
  <2>8. Shape((held \ {w}) \cup {e}) /\ Tallies((held \ {w}) \cup {e}, tally', up)
    BY <2>1, <2>7, AddEntry, Zenon
  <2> QED BY <2>4, <2>8, Zenon
<1>7. Weakest \subseteq held
  BY Zenon DEF Weakest
<1>8. \/ UNCHANGED hold
      \/ /\ Cardinality(held) < HoldMax
         /\ held' = held \cup {e} /\ tally' = Tallied(tally, new, c)
      \/ \E w \in held : Displace(w, msg)
  BY <1>7, Zenon DEF HoldNew
<1> QED BY <1>4, <1>5, <1>6, <1>8, Zenon

\* A copy of a held response.
LEMMA HoldCopyKeeps ==
    ASSUME HoldInv, msg.at = "hold", NEW x \in held, HoldCopy(x, msg)
    PROVE  Shape(held') /\ Tallies(held', tally', up)
<1> DEFINE c == msg.from
           y == [x EXCEPT !.connected = @ \/ msg.connected]
           e == Vouched(y, c)
           rest == [d \in Conns |-> IF d \in x.vouchers THEN tally[d] - 1 ELSE tally[d]]
<1>1. c \in up /\ c \in Conns
  BY Zenon DEF HoldInv, MsgOK
<1>2. Shape(held) /\ Tallies(held, tally, up) /\ tally \in [Conns -> Nat]
  BY Zenon DEF HoldInv, Tallies
<1>3. CASE UNCHANGED hold
  BY <1>2, <1>3, Zenon DEF hold
<1>4. CASE held' = (held \ {x}) \cup {e} /\ tally' = Tallied(tally, y, c)
  <2>1. x \in Entries /\ Cardinality(x.vouchers) <= VouchersMax /\ x.vouchers \subseteq up
    BY <1>2, Zenon DEF Shape, Tallies
  <2>2. y \in Entries /\ y.resp = x.resp /\ y.vouchers = x.vouchers
    BY <2>1, Zenon DEF Entries
  <2>3. /\ e \in Entries /\ e.resp = x.resp /\ Cardinality(e.vouchers) <= VouchersMax
        /\ e.vouchers = IF Cardinality(x.vouchers) < VouchersMax
                        THEN x.vouchers \cup {c} ELSE x.vouchers
    <3> HIDE DEF y
    <3> QED BY <1>1, <2>1, <2>2, VouchedEntry, ZenonT(30)
  <2>4. e.vouchers \subseteq up
    BY <1>1, <2>1, <2>3, Zenon
  <2>5. /\ Shape(held \ {x}) /\ Cardinality(held \ {x}) < HoldMax
        /\ \A d \in x.vouchers \cap Conns : tally[d] > 0
        /\ Tallies(held \ {x}, rest, up)
    BY <1>2, RemoveEntry, Zenon
  <2>6. \A z \in held \ {x} : z.resp # e.resp
    BY <1>2, <2>3, Zenon DEF Shape
  <2>7. /\ tally' \in [Conns -> Nat]
        /\ \A d \in Conns : tally'[d] = IF d \in e.vouchers THEN rest[d] + 1 ELSE rest[d]
    <3>1. Cardinality(x.vouchers) \in Nat /\ VouchersMax \in Nat
      <4>1. x.vouchers \in SUBSET Conns
        BY <2>1, Zenon DEF Entries
      <4> QED BY <4>1, FS_Subset, FS_CardinalityType, HoldAssumption, Zenon
    <3>2. tally' = IF c \in x.vouchers \/ Cardinality(x.vouchers) >= VouchersMax
                   THEN tally ELSE [tally EXCEPT ![c] = @ + 1]
      <4> HIDE DEF y
      <4> QED BY <1>4, <2>2, Zenon DEF Tallied
    <3>3. \A d \in Conns : tally[d] \in Nat
      BY <1>2, Zenon
    <3> HIDE DEF e, y
    <3>4. CASE c \in x.vouchers \/ Cardinality(x.vouchers) >= VouchersMax
      <4>1. e.vouchers = x.vouchers
        BY <2>3, <3>1, <3>4
      <4>2. tally' = tally
        BY <3>2, <3>4, Zenon
      <4> QED BY <1>2, <3>3, <4>1, <4>2, SMTT(30)
    <3>5. CASE ~(c \in x.vouchers \/ Cardinality(x.vouchers) >= VouchersMax)
      <4>1. e.vouchers = x.vouchers \cup {c} /\ c \notin x.vouchers
        BY <2>3, <3>1, <3>5
      <4>2. tally' = [tally EXCEPT ![c] = @ + 1]
        BY <3>2, <3>5, Zenon
      <4> QED BY <1>1, <1>2, <3>3, <4>1, <4>2
    <3> QED BY <3>4, <3>5, Zenon
  <2> HIDE DEF e, rest, y
  <2>8. Fits(held \ {x}, e, up) /\ Counts(tally', rest, e)
    BY <2>3, <2>4, <2>6, <2>7, Zenon DEF Fits, Counts
  <2> QED BY <1>4, <2>5, <2>8, AddEntry, Zenon
<1>5. UNCHANGED hold \/ (held' = (held \ {x}) \cup {e} /\ tally' = Tallied(tally, y, c))
  BY Zenon DEF HoldCopy
<1> QED BY <1>3, <1>4, <1>5, Zenon

\* A departure.
LEMMA ForgetKeeps ==
    ASSUME HoldInv, NEW c \in Conns, ForgetVoucher(c)
    PROVE  Shape(held') /\ Tallies(held', tally', up \ {c})
<1> DEFINE own(x) == LivedAnEpoch(c) /\ Cardinality(x.departed) < VouchersMax
           g(x) == IF c \notin x.vouchers THEN x
                   ELSE [x EXCEPT !.vouchers = @ \ {c},
                                  !.departed = IF own(x) THEN @ \cup {c} ELSE @,
                                  !.shared = @ \/ ~own(x)]
           f == [x \in held |-> g(x)]
<1>1. Shape(held) /\ Tallies(held, tally, up)
  BY Zenon DEF HoldInv
<1>2. ASSUME NEW x \in held
      PROVE  g(x) \in Entries /\ g(x).resp = x.resp /\ g(x).vouchers = x.vouchers \ {c}
  <2>1. x \in Entries
    BY <1>1, Zenon DEF Shape
  <2>2. CASE c \notin x.vouchers
    BY <2>1, <2>2, Zenon
  <2>3. CASE c \in x.vouchers /\ own(x)
    <3>1. g(x) = [x EXCEPT !.vouchers = @ \ {c}, !.departed = @ \cup {c}]
      BY <2>1, <2>3, Zenon DEF Entries
    <3> QED BY <2>1, <3>1, Zenon DEF Entries
  <2>4. CASE c \in x.vouchers /\ ~own(x)
    <3>1. g(x) = [x EXCEPT !.vouchers = @ \ {c}, !.shared = TRUE]
      BY <2>1, <2>4, Zenon DEF Entries
    <3> QED BY <2>1, <3>1, Zenon DEF Entries
  <2> QED BY <2>2, <2>3, <2>4, Zenon
<1>3. held' = {g(x) : x \in held} /\ tally' = [tally EXCEPT ![c] = 0]
  BY Zenon DEF ForgetVoucher
<1> HIDE DEF g
<1>4. /\ f \in [held -> Entries] /\ held' = {f[x] : x \in held}
      /\ \A x \in held : f[x].resp = x.resp /\ f[x].vouchers = x.vouchers \ {c}
  BY <1>2, <1>3, Zenon
<1>5. Clears(tally', tally, c)
  BY <1>1, <1>3, Zenon DEF Tallies, Clears
<1> HIDE DEF f
<1>6. Forgets(f, held, held', c)
  BY <1>4, Zenon DEF Forgets
<1> QED BY <1>1, <1>5, <1>6, ForgetKeepsCounts, Zenon

-----------------------------------------------------------------------------
(* The invariant of the hold. *)

\* An empty hold counts nothing.
LEMMA EmptyHold ==
    ASSUME NEW u
    PROVE  Shape({}) /\ Tallies({}, [c \in Conns |-> 0], u)
<1>1. IsFiniteSet({}) /\ Cardinality({}) = 0
  BY FS_EmptySet, Zenon
<1>2. Shape({})
  BY <1>1, HoldAssumption DEF Shape
<1>3. \A c \in Conns : VouchedBy({}, c) = {}
  BY Zenon DEF VouchedBy
<1>4. Tallies({}, [c \in Conns |-> 0], u)
  BY <1>1, <1>3, Zenon DEF Tallies
<1> QED BY <1>2, <1>4, Zenon

LEMMA HoldInit ==
    Init => HoldInv
<1> SUFFICES ASSUME Init PROVE HoldInv
  BY Zenon
<1>1. Shape(held) /\ Tallies(held, tally, up)
  BY EmptyHold, Zenon DEF Init
<1>2. height \in StartHeight .. LastHeight
  BY HoldAssumption DEF Init
<1> QED BY <1>1, <1>2, Zenon DEF Init, HoldInv, MsgOK, NoMsg

LEMMA HoldStep ==
    HoldInv /\ [Next]_vars => HoldInv'
<1> SUFFICES ASSUME HoldInv, [Next]_vars
             PROVE  HoldInv'
  BY Zenon
<1> USE DEF HoldInv
<1>1. ASSUME NEW c \in Conns, ConnectPeer(c)
      PROVE  HoldInv'
  <2>1. up' \subseteq Conns /\ up \subseteq up'
    BY <1>1, Zenon DEF ConnectPeer
  <2>2. UNCHANGED <<height, held, tally, responded, msg>>
    BY <1>1, Zenon DEF ConnectPeer, chain, hold
  <2>3. Tallies(held, tally, up')
    BY <2>1, Zenon DEF Tallies
  <2>4. MsgOK'
    BY <2>1, <2>2, Zenon DEF MsgOK
  <2> QED BY <2>1, <2>2, <2>3, <2>4, Zenon
<1>2. ASSUME NEW c \in Conns, DisconnectPeer(c)
      PROVE  HoldInv'
  <2>1. /\ up' = up \ {c} /\ UNCHANGED <<height, responded, msg>>
        /\ msg.at # "idle" => msg.from # c
        /\ ForgetVoucher(c)
    BY <1>2, Zenon DEF DisconnectPeer, chain
  <2>2. Shape(held') /\ Tallies(held', tally', up')
    BY <2>1, ForgetKeeps, Zenon
  <2>3. MsgOK'
    BY <2>1, Zenon DEF MsgOK
  <2> QED BY <2>1, <2>2, <2>3, Zenon
<1>3. CASE ConnectBlock
  <2>1. height' \in StartHeight .. LastHeight
    BY <1>3, HoldAssumption DEF ConnectBlock
  <2> QED BY <1>3, <2>1, Zenon DEF ConnectBlock, MsgOK, peers, hold
<1>4. ASSUME NEW c \in Conns, NEW r \in Responses, RecvResponse(c, r)
      PROVE  HoldInv'
  <2>1. /\ UNCHANGED <<height, up, held, tally, responded>>
        /\ c \in up
        /\ msg' = [at |-> "hold", from |-> c, r |-> r, connected |-> height >= Base]
    BY <1>4, Zenon DEF RecvResponse, chain, peers, hold
  <2>2. MsgOK'
    BY <2>1 DEF MsgOK
  <2> QED BY <2>1, <2>2, Zenon
<1>5. CASE HoldDSLEarlyResponse
  <2>1. UNCHANGED <<height, up, responded>> /\ msg.at = "hold"
    BY <1>5, Zenon DEF HoldDSLEarlyResponse, chain, peers
  <2>2. Shape(held') /\ Tallies(held', tally', up)
    <3>1. \/ UNCHANGED hold
          \/ (\A x \in held : x.resp # msg.r) /\ HoldNew(msg)
          \/ \E x \in held : HoldCopy(x, msg)
      BY <1>5, Zenon DEF HoldDSLEarlyResponse
    <3> QED BY <2>1, <3>1, HoldNewKeeps, HoldCopyKeeps, Zenon DEF hold
  <2>3. MsgOK'
    <3>1. msg' = NoMsg \/ msg' = [msg EXCEPT !.at = "process"]
      BY <1>5, Zenon DEF HoldDSLEarlyResponse
    <3> QED BY <2>1, <3>1 DEF MsgOK, NoMsg
  <2> QED BY <2>1, <2>2, <2>3, Zenon
<1>6. CASE ProcessResponse
  <2>1. msg' = NoMsg /\ UNCHANGED <<height, up, held, tally>> /\ responded' \subseteq MN
    BY <1>6, Zenon DEF ProcessResponse, Genuine, chain, peers, hold
  <2> QED BY <2>1, Zenon DEF MsgOK, NoMsg
<1>7. CASE TickBegin
  BY <1>7, Zenon DEF TickBegin, MsgOK, peers, hold
<1>8. CASE TickTakes
  <2>1. /\ UNCHANGED <<height, up, responded, msg>>
        /\ held' = {} /\ tally' = [c \in Conns |-> 0]
    BY <1>8, Zenon DEF TickTakes, chain, peers
  <2>2. Shape(held') /\ Tallies(held', tally', up)
    BY <2>1, EmptyHold, Zenon
  <2> QED BY <2>1, <2>2, Zenon DEF MsgOK
<1>9. ASSUME NEW x \in drain.left, DrainEntry(x)
      PROVE  HoldInv'
  <2>1. UNCHANGED <<height, up, held, tally, msg>> /\ responded' \subseteq MN
    BY <1>9, Zenon DEF DrainEntry, chain, peers, hold
  <2> QED BY <2>1, Zenon DEF MsgOK
<1>10. CASE DrainAsks
  BY <1>10, Zenon DEF DrainAsks, MsgOK, chain, peers, hold
<1>11. CASE UNCHANGED vars
  BY <1>11, Zenon DEF vars, MsgOK, chain, peers, hold
<1> QED
  BY <1>1, <1>2, <1>3, <1>4, <1>5, <1>6, <1>7, <1>8, <1>9, <1>10, <1>11, Zenon DEF Next

LEMMA HoldInvariant == Spec => []HoldInv
BY HoldInit, HoldStep, PTL DEF Spec

\* The hold and the vouchers of an entry keep their caps and a response is held
\* once, through HoldDSLEarlyResponse, ForgetDSLEarlyVoucher and the drain.
THEOREM TypeCorrect == Spec => []TypeOK
<1>1. HoldInv => TypeOK
  <2> SUFFICES ASSUME HoldInv PROVE TypeOK
    BY Zenon
  <2>1. ASSUME NEW c \in Conns
        PROVE  tally[c] \in 0 .. HoldMax
    <3>1. VouchedBy(held, c) \in SUBSET held
      BY Zenon DEF VouchedBy
    <3>2. IsFiniteSet(held) /\ Cardinality(held) <= HoldMax
      BY Zenon DEF HoldInv, Shape
    <3>3. Cardinality(held) \in Nat /\ Cardinality(VouchedBy(held, c)) <= Cardinality(held)
      BY <3>1, <3>2, FS_Subset, FS_CardinalityType, Zenon
    <3>4. tally[c] \in Nat /\ tally[c] = Cardinality(VouchedBy(held, c))
      BY Zenon DEF HoldInv, Tallies
    <3> QED BY <3>2, <3>3, <3>4, HoldAssumption
  <2>2. tally \in [Conns -> 0 .. HoldMax]
    BY <2>1, Zenon DEF HoldInv, Tallies
  <2> QED BY <2>2, Zenon DEF TypeOK, HoldInv, Shape, Entries
<1> QED BY <1>1, HoldInvariant, PTL

\* The two places that say who is live, the entries' lists and the epoch's map of
\* vouchers, agree after every copy, eviction, departure and drain.
THEOREM TallyCorrect == Spec => []TallyExact
<1>1. HoldInv => TallyExact
  BY Zenon DEF HoldInv, Tallies, TallyExact, VouchedBy
<1> QED BY <1>1, HoldInvariant, PTL

-----------------------------------------------------------------------------
(* The checks of a drain. *)

Deliverer == Conns \cup {"shared"}

Drains == [at : {"idle", "take", "check", "ask"}, left : SUBSET Entries,
           cur : SUBSET Entries, untrusted : SUBSET Deliverer]

\* What the checks so far are charged to: recorded masternodes and untrusted
\* deliverers.
Charged(R, d) == Cardinality(R) + Cardinality(d.untrusted)

\* The entry the drain asks the manager about: it was not delivered by untrusted
\* ones only, and its check, if there was one, is not charged yet.
Pending(x, R, d, n) ==
    /\ d.cur = {x} /\ x \in d.left
    /\ ~(Deliverers(x) \subseteq d.untrusted)
    /\ n <= Charged(R \ {x.resp.proTx}, d) + 1

\* The inductive invariant of the drain.
DrainInv ==
    /\ drain \in Drains /\ checks \in Nat /\ ids \subseteq Deliverer
    /\ drain.at = "take" => checks = 0 /\ drain.untrusted = {}
    /\ drain.at \in {"check", "ask"} =>
           /\ drain.untrusted \subseteq ids
           /\ \A x \in drain.left : Deliverers(x) \subseteq ids
    /\ drain.at = "check" => checks <= Charged(responded, drain)
    /\ drain.at = "ask" => \E x \in drain.left : Pending(x, responded, drain, checks)
    /\ ChecksBounded

\* Finite sets of masternodes and deliverers, and their sizes.
LEMMA Sizes ==
    ASSUME NEW S, S \subseteq MN \/ S \subseteq Deliverer
    PROVE  IsFiniteSet(S) /\ Cardinality(S) \in Nat
<1>1. IsFiniteSet(Deliverer)
  BY FS_AddElement, HoldAssumption, Zenon DEF Deliverer
<1>2. IsFiniteSet(S)
  BY <1>1, FS_Subset, HoldAssumption, Zenon
<1> QED BY <1>2, FS_CardinalityType, Zenon

\* A larger set is no smaller.
LEMMA SizesGrow ==
    ASSUME NEW S, NEW T, S \subseteq T, T \subseteq MN \/ T \subseteq Deliverer
    PROVE  Cardinality(S) <= Cardinality(T)
BY Sizes, FS_Subset, Zenon

\* Without one element there is one fewer, if it was there.
LEMMA SizesWithout ==
    ASSUME NEW S, S \subseteq MN \/ S \subseteq Deliverer, NEW m
    PROVE  Cardinality(S) = IF m \in S THEN Cardinality(S \ {m}) + 1 ELSE Cardinality(S \ {m})
<1>1. IsFiniteSet(S) /\ Cardinality(S) \in Nat
  BY Sizes, Zenon
<1>2. Cardinality(S \ {m}) = IF m \in S THEN Cardinality(S) - 1 ELSE Cardinality(S)
  BY <1>1, FS_RemoveElement, Zenon
<1> QED BY <1>1, <1>2

\* A strictly larger set has one more at least.
LEMMA SizesStrict ==
    ASSUME NEW S, NEW T, S \subseteq T, T \subseteq MN \/ T \subseteq Deliverer, S # T
    PROVE  Cardinality(S) + 1 <= Cardinality(T)
<1>1. IsFiniteSet(T) /\ Cardinality(T) \in Nat /\ IsFiniteSet(S) /\ Cardinality(S) \in Nat
  BY Sizes, Zenon
<1>2. Cardinality(S) <= Cardinality(T) /\ Cardinality(S) # Cardinality(T)
  BY <1>1, FS_Subset, Zenon
<1> QED BY <1>1, <1>2

\* What is charged stays within the list and the known deliverers.
LEMMA ChargedBounded ==
    ASSUME NEW R, R \subseteq MN, NEW d \in Drains, NEW k, k \subseteq Deliverer,
           d.untrusted \subseteq k, NEW n \in Nat, n <= Charged(R, d)
    PROVE  n <= Cardinality(MN) + Cardinality(k)
<1>1. /\ Cardinality(R) \in Nat /\ Cardinality(MN) \in Nat
      /\ Cardinality(d.untrusted) \in Nat /\ Cardinality(k) \in Nat
  BY Sizes, Zenon
<1>2. Cardinality(R) <= Cardinality(MN) /\ Cardinality(d.untrusted) <= Cardinality(k)
  BY SizesGrow, Zenon
<1> QED BY <1>1, <1>2 DEF Charged

\* More recorded masternodes never lower the charge, so the message thread may
\* record what it likes while the drain runs.
LEMMA ChargedGrows ==
    ASSUME NEW R, NEW S, R \subseteq S, S \subseteq MN, NEW d \in Drains
    PROVE  /\ Charged(R, d) \in Nat /\ Charged(S, d) \in Nat
           /\ Charged(R, d) <= Charged(S, d)
<1>1. /\ Cardinality(R) \in Nat /\ Cardinality(S) \in Nat
      /\ Cardinality(d.untrusted) \in Nat
  BY Sizes, Zenon DEF Drains
<1>2. Cardinality(R) <= Cardinality(S)
  BY SizesGrow, Zenon
<1> QED BY <1>1, <1>2 DEF Charged

\* The drain after its last entry, or one entry shorter.
LEMMA DrainedKeeps ==
    ASSUME NEW d \in Drains, d.at = "check", NEW x,
           NEW R, R \subseteq MN, NEW k, k \subseteq Deliverer, NEW n \in Nat,
           d.untrusted \subseteq k, \A y \in d.left : Deliverers(y) \subseteq k,
           n <= Charged(R, d)
    PROVE  /\ Drained(d, x) \in Drains
           /\ Drained(d, x).at \in {"idle", "check"}
           /\ Drained(d, x).at = "check" =>
                  /\ Drained(d, x).untrusted \subseteq k
                  /\ \A y \in Drained(d, x).left : Deliverers(y) \subseteq k
                  /\ n <= Charged(R, Drained(d, x))
           /\ n <= Cardinality(MN) + Cardinality(k)
<1>1. n <= Cardinality(MN) + Cardinality(k)
  BY ChargedBounded, Zenon
<1>2. CASE d.left = {x}
  BY <1>1, <1>2, Zenon DEF Drained, DrainIdle, Drains
<1>3. CASE d.left # {x}
  <2>1. Drained(d, x) = [d EXCEPT !.left = @ \ {x}]
    BY <1>3, Zenon DEF Drained
  <2>2. /\ Drained(d, x) \in Drains /\ Drained(d, x).at = "check"
        /\ Drained(d, x).untrusted = d.untrusted
        /\ Drained(d, x).left \subseteq d.left
    BY <2>1, Zenon DEF Drains
  <2> QED BY <1>1, <2>2, Zenon DEF Charged
<1> QED BY <1>2, <1>3, Zenon

LEMMA DrainInit ==
    Init => DrainInv
<1> SUFFICES ASSUME Init PROVE DrainInv
  BY Zenon
<1>1. Cardinality(MN) \in Nat /\ Cardinality({}) = 0
  BY Sizes, FS_EmptySet, Zenon
<1>2. drain \in Drains /\ drain.at = "idle"
  BY Zenon DEF Init, DrainIdle, Drains
<1>3. ChecksBounded
  BY <1>1 DEF Init, ChecksBounded
<1> QED BY <1>2, <1>3, Zenon DEF Init, DrainInv

\* The next entry of the list.
LEMMA DrainEntryKeeps ==
    ASSUME HoldInv, DrainInv, NEW x \in drain.left, DrainEntry(x)
    PROVE  DrainInv'
<1> DEFINE m == x.resp.proTx
           fresh == m \in MN \ responded /\ ~Skips(x)
           accepted == fresh /\ x.resp.sig = Valid
           refused == m \in MN /\ ~x.connected /\ ~Skips(x) /\ ~accepted
           asked == [drain EXCEPT !.at = "ask", !.cur = {x}]
<1>1. /\ drain.at = "check" /\ ids' = ids
      /\ responded' = IF accepted THEN responded \cup {m} ELSE responded
      /\ checks' = IF fresh /\ ~x.connected THEN checks + 1 ELSE checks
      /\ drain' = IF refused THEN asked ELSE Drained(drain, x)
  BY Zenon DEF DrainEntry
<1>2. /\ drain \in Drains /\ checks \in Nat /\ ids \subseteq Deliverer
      /\ responded \subseteq MN /\ drain.untrusted \subseteq ids
      /\ \A y \in drain.left : Deliverers(y) \subseteq ids
      /\ checks <= Charged(responded, drain)
      /\ x \in Entries
  BY <1>1, Zenon DEF DrainInv, HoldInv, Drains
<1>3. responded' \subseteq MN /\ checks' \in Nat
  BY <1>1, <1>2
<1>4. /\ Cardinality(responded) \in Nat /\ Cardinality(responded \ {m}) \in Nat
      /\ Cardinality(drain.untrusted) \in Nat
      /\ Cardinality(ids) \in Nat /\ Cardinality(MN) \in Nat
  BY <1>2, Sizes, Zenon DEF Drains
<1>5. CASE refused
  <2>1. drain' = asked /\ responded' = responded
    BY <1>1, <1>5, Zenon
  <2>2. /\ drain' \in Drains /\ drain'.at = "ask" /\ drain'.cur = {x}
        /\ drain'.left = drain.left /\ drain'.untrusted = drain.untrusted
    BY <1>2, <2>1, Zenon DEF Drains
  <2>3. ~(Deliverers(x) \subseteq drain.untrusted)
    BY <1>5, Zenon DEF Skips, UntrustedOnly
  <2>4. checks' <= Charged(responded \ {m}, drain) + 1
    <3>1. Cardinality(responded) = IF m \in responded THEN Cardinality(responded \ {m}) + 1
                                   ELSE Cardinality(responded \ {m})
      BY <1>2, SizesWithout, Zenon
    <3>2. checks <= Cardinality(responded) + Cardinality(drain.untrusted)
      BY <1>2, Zenon DEF Charged
    <3>3. checks' = IF m \in responded THEN checks ELSE checks + 1
      BY <1>1, <1>5, Zenon
    <3> QED BY <1>2, <1>4, <3>1, <3>2, <3>3, SMTT(30) DEF Charged
  <2>5. Pending(x, responded', drain', checks')
    BY <2>1, <2>2, <2>3, <2>4, Zenon DEF Pending, Charged
  <2>6. checks' <= Cardinality(MN) + Cardinality(ids)
    <3>1. PICK v \in Deliverers(x) : v \notin drain.untrusted
      BY <2>3, Zenon
    <3>2. v \in ids
      BY <1>2, Zenon
    <3>3. Cardinality(drain.untrusted) + 1 <= Cardinality(ids)
      BY <1>2, <3>1, <3>2, SizesStrict, Zenon
    <3>4. Cardinality(responded \ {m}) <= Cardinality(MN)
      BY <1>2, SizesGrow, Zenon
    <3> QED BY <1>3, <1>4, <2>4, <3>3, <3>4, SMTT(30) DEF Charged
  <2>7. ChecksBounded'
    BY <1>1, <2>6, Zenon DEF ChecksBounded
  <2> QED BY <1>1, <1>2, <1>3, <2>2, <2>5, <2>7, Zenon DEF DrainInv
<1>6. CASE ~refused
  <2>1. drain' = Drained(drain, x)
    BY <1>1, <1>6, Zenon
  <2>2. checks' <= Charged(responded', drain)
    <3>1. CASE accepted
      <4>1. responded' = responded \cup {m} /\ m \notin responded /\ checks' \in {checks, checks + 1}
        BY <1>1, <3>1, Zenon
      <4>2. Cardinality(responded') = Cardinality(responded) + 1
        BY <1>2, <4>1, Sizes, FS_AddElement, Zenon
      <4> QED BY <1>2, <1>4, <4>1, <4>2 DEF Charged
    <3>2. CASE ~accepted
      <4>1. responded' = responded /\ checks' = checks
        BY <1>1, <1>2, <1>6, <3>2, Zenon
      <4> QED BY <1>2, <4>1, Zenon
    <3> QED BY <3>1, <3>2, Zenon
  <2>3. /\ drain' \in Drains /\ drain'.at \in {"idle", "check"}
        /\ drain'.at = "check" =>
               /\ drain'.untrusted \subseteq ids
               /\ \A y \in drain'.left : Deliverers(y) \subseteq ids
               /\ checks' <= Charged(responded', drain')
        /\ checks' <= Cardinality(MN) + Cardinality(ids)
    <3>1. drain.at = "check"
      BY <1>1, Zenon
    <3> HIDE DEF m, fresh, accepted, refused
    <3> QED BY <1>2, <1>3, <2>1, <2>2, <3>1, DrainedKeeps, ZenonT(30)
  <2>4. ChecksBounded'
    BY <1>1, <2>3, Zenon DEF ChecksBounded
  <2> QED BY <1>1, <1>2, <1>3, <2>3, <2>4, Zenon DEF DrainInv
<1> QED BY <1>5, <1>6, Zenon

\* The question to the manager after a refusal.
LEMMA DrainAsksKeeps ==
    ASSUME HoldInv, DrainInv, DrainAsks
    PROVE  DrainInv'
<1>1. PICK x \in drain.cur :
          /\ drain.at = "ask"
          /\ drain' = Drained(IF x.resp.proTx \in responded
                              THEN [drain EXCEPT !.at = "check", !.cur = {}] ELSE Taint(x), x)
          /\ UNCHANGED <<responded, checks, ids>>
  BY Zenon DEF DrainAsks, history
<1> DEFINE m == x.resp.proTx
           d == IF m \in responded THEN [drain EXCEPT !.at = "check", !.cur = {}] ELSE Taint(x)
<1>2. /\ drain \in Drains /\ checks \in Nat /\ ids \subseteq Deliverer
      /\ responded \subseteq MN /\ drain.untrusted \subseteq ids
      /\ \A y \in drain.left : Deliverers(y) \subseteq ids
  BY <1>1, Zenon DEF DrainInv, HoldInv
<1>3. Pending(x, responded, drain, checks)
  BY <1>1, Zenon DEF DrainInv, Pending
<1>4. /\ Cardinality(responded) \in Nat /\ Cardinality(responded \ {m}) \in Nat
      /\ Cardinality(drain.untrusted) \in Nat
  BY <1>2, Sizes, Zenon DEF Drains
<1>5. Cardinality(responded) = IF m \in responded THEN Cardinality(responded \ {m}) + 1
                               ELSE Cardinality(responded \ {m})
  BY <1>2, SizesWithout, Zenon
<1>6. checks <= Cardinality(responded \ {m}) + Cardinality(drain.untrusted) + 1
  BY <1>3, Zenon DEF Pending, Charged
<1>7. /\ d \in Drains /\ d.at = "check" /\ d.left = drain.left
      /\ d.untrusted \subseteq ids /\ checks <= Charged(responded, d)
  <2>1. CASE m \in responded
    <3>1. /\ d \in Drains /\ d.at = "check" /\ d.left = drain.left
          /\ d.untrusted = drain.untrusted
      BY <1>2, <2>1, Zenon DEF Drains
    <3> QED BY <1>2, <1>4, <1>5, <1>6, <2>1, <3>1, SMTT(30) DEF Charged
  <2>2. CASE m \notin responded
    <3>1. Deliverers(x) \subseteq ids /\ ~(Deliverers(x) \subseteq drain.untrusted)
      BY <1>2, <1>3, Zenon DEF Pending
    <3>2. /\ d \in Drains /\ d.at = "check" /\ d.left = drain.left
          /\ d.untrusted = drain.untrusted \cup Deliverers(x)
      BY <1>2, <2>2, <3>1, Zenon DEF Drains, Taint
    <3>3. Cardinality(drain.untrusted) + 1 <= Cardinality(d.untrusted)
      BY <1>2, <3>1, <3>2, SizesStrict, Zenon
    <3>4. Cardinality(d.untrusted) \in Nat /\ d.untrusted \subseteq ids
      BY <1>2, <3>1, <3>2, Sizes, Zenon
    <3> QED BY <1>2, <1>4, <1>5, <1>6, <2>2, <3>2, <3>3, <3>4, SMTT(30) DEF Charged
  <2> QED BY <2>1, <2>2, Zenon
<1>8. drain' = Drained(d, x)
  BY <1>1, Zenon
<1>9. /\ drain' \in Drains /\ drain'.at \in {"idle", "check"}
      /\ drain'.at = "check" =>
             /\ drain'.untrusted \subseteq ids
             /\ \A y \in drain'.left : Deliverers(y) \subseteq ids
             /\ checks <= Charged(responded, drain')
      /\ checks <= Cardinality(MN) + Cardinality(ids)
  <2> HIDE DEF d
  <2> QED BY <1>2, <1>7, <1>8, DrainedKeeps, Zenon
<1>10. ChecksBounded'
  BY <1>1, <1>9, Zenon DEF ChecksBounded
<1> QED BY <1>1, <1>2, <1>9, <1>10, Zenon DEF DrainInv

\* The steps of the other threads: they may record responses, nothing else.
LEMMA OthersKeepDrain ==
    ASSUME HoldInv, DrainInv, UNCHANGED <<drain, checks, ids>>,
           responded \subseteq responded', responded' \subseteq MN
    PROVE  DrainInv'
<1>1. drain \in Drains /\ checks \in Nat
  BY Zenon DEF DrainInv
<1>2. drain.at = "check" => checks <= Charged(responded', drain)
  <2>1. /\ Charged(responded, drain) \in Nat /\ Charged(responded', drain) \in Nat
        /\ Charged(responded, drain) <= Charged(responded', drain)
    BY <1>1, ChargedGrows, Zenon
  <2> QED BY <1>1, <2>1 DEF DrainInv
<1>3. ASSUME NEW x \in drain.left, Pending(x, responded, drain, checks)
      PROVE  Pending(x, responded', drain, checks)
  <2> DEFINE m == x.resp.proTx
  <2>1. responded \ {m} \subseteq responded' \ {m} /\ responded' \ {m} \subseteq MN
    BY Zenon
  <2>2. /\ Charged(responded \ {m}, drain) \in Nat /\ Charged(responded' \ {m}, drain) \in Nat
        /\ Charged(responded \ {m}, drain) <= Charged(responded' \ {m}, drain)
    BY <1>1, <2>1, ChargedGrows, Zenon
  <2>3. checks <= Charged(responded' \ {m}, drain) + 1
    BY <1>1, <1>3, <2>2 DEF Pending
  <2> QED BY <1>3, <2>3, Zenon DEF Pending
<1>4. ChecksBounded'
  BY Zenon DEF DrainInv, ChecksBounded
<1> QED BY <1>2, <1>3, <1>4, Zenon DEF DrainInv

LEMMA DrainStep ==
    HoldInv /\ DrainInv /\ [Next]_vars => DrainInv'
<1> SUFFICES ASSUME HoldInv, DrainInv, [Next]_vars
             PROVE  DrainInv'
  BY Zenon
<1>1. responded \subseteq MN
  BY Zenon DEF HoldInv
<1>2. CASE UNCHANGED <<drain, checks, ids, responded>>
  BY <1>1, <1>2, OthersKeepDrain, Zenon
<1>3. CASE ProcessResponse
  <2>1. UNCHANGED <<drain, checks, ids>> /\ responded \subseteq responded' /\ responded' \subseteq MN
    BY <1>1, <1>3, Zenon DEF ProcessResponse, Genuine, history
  <2> QED BY <2>1, OthersKeepDrain, Zenon
<1>4. CASE TickBegin
  <2>1. /\ drain' \in Drains /\ drain'.at \in {"idle", "take"} /\ drain'.untrusted = {}
        /\ checks' = 0 /\ ids' = {}
    BY <1>4, Zenon DEF TickBegin, DrainIdle, Drains
  <2>2. ChecksBounded'
    BY <2>1, Sizes DEF ChecksBounded
  <2> QED BY <2>1, <2>2, Zenon DEF DrainInv
<1>5. CASE TickTakes
  <2>1. /\ drain.at = "take"
        /\ drain' = [drain EXCEPT !.at = IF held = {} THEN "idle" ELSE "check", !.left = held]
        /\ ids' = UNION {Deliverers(x) : x \in held}
        /\ UNCHANGED <<checks, responded>>
    BY <1>5, Zenon DEF TickTakes
  <2>2. drain \in Drains /\ checks = 0 /\ drain.untrusted = {} /\ held \subseteq Entries
    BY <2>1, Zenon DEF DrainInv, HoldInv, Shape
  <2>3. /\ drain' \in Drains /\ drain'.at \in {"idle", "check"}
        /\ drain'.left = held /\ drain'.untrusted = {}
    BY <2>1, <2>2, Zenon DEF Drains
  <2>4. ids' \subseteq Deliverer
    BY <2>1, <2>2, Zenon DEF Deliverers, Deliverer, Entries
  <2>5. \A x \in held : Deliverers(x) \subseteq ids'
    BY <2>1, Zenon
  <2>6. /\ Cardinality(responded) \in Nat /\ Cardinality({}) = 0
        /\ Cardinality(ids') \in Nat /\ Cardinality(MN) \in Nat
    BY <1>1, <2>4, Sizes, FS_EmptySet, Zenon
  <2>7. checks' <= Charged(responded', drain') /\ ChecksBounded'
    <3>1. checks' = 0 /\ responded' = responded /\ drain'.untrusted = {}
      BY <2>1, <2>2, <2>3, Zenon
    <3> QED BY <2>6, <3>1 DEF Charged, ChecksBounded
  <2> QED BY <2>1, <2>2, <2>3, <2>4, <2>5, <2>7, Zenon DEF DrainInv
<1>6. ASSUME NEW x \in drain.left, DrainEntry(x)
      PROVE  DrainInv'
  BY <1>6, DrainEntryKeeps, Zenon
<1>7. CASE DrainAsks
  BY <1>7, DrainAsksKeeps, Zenon
<1>8. ASSUME NEW c \in Conns, ConnectPeer(c) \/ DisconnectPeer(c)
      PROVE  UNCHANGED <<drain, checks, ids, responded>>
  BY <1>8, Zenon DEF ConnectPeer, DisconnectPeer, history
<1>9. ASSUME ConnectBlock \/ HoldDSLEarlyResponse
      PROVE  UNCHANGED <<drain, checks, ids, responded>>
  BY <1>9, Zenon DEF ConnectBlock, HoldDSLEarlyResponse, history
<1>10. ASSUME NEW c \in Conns, NEW r \in Responses, RecvResponse(c, r)
       PROVE  UNCHANGED <<drain, checks, ids, responded>>
  BY <1>10, Zenon DEF RecvResponse, history
<1>11. CASE UNCHANGED vars
  BY <1>2, <1>11, Zenon DEF vars, history
<1> QED
  BY <1>2, <1>3, <1>4, <1>5, <1>6, <1>7, <1>8, <1>9, <1>10, <1>11, ZenonT(30) DEF Next

\* However full the hold and whatever the message thread records meanwhile, a
\* drain of ProcessDSLTick checks at most one signature per masternode of the
\* list and per deliverer it can tell apart.
THEOREM DrainChecksBounded == Spec => []ChecksBounded
<1>1. Init => HoldInv /\ DrainInv
  BY HoldInit, DrainInit, Zenon
<1>2. HoldInv /\ DrainInv /\ [Next]_vars => HoldInv' /\ DrainInv'
  BY HoldStep, DrainStep, Zenon
<1>3. DrainInv => ChecksBounded
  BY Zenon DEF DrainInv
<1> QED BY <1>1, <1>2, <1>3, PTL DEF Spec

-----------------------------------------------------------------------------
(* Whom the drain distrusts. *)

\* What is known of everyone who vouched for x: the entry names the relay, or
\* the relay is gone and left no id (ForgetDSLEarlyVoucher).
Traced(x, gone, old) ==
    /\ x.vouchers \cup x.departed \subseteq x.by
    /\ Cardinality(x.departed) <= VouchersMax
    /\ x.by \cap Honest # {} => Genuine(x.resp)
    /\ \A c \in x.by : \/ c \in x.vouchers \cup x.departed
                       \/ c \in gone /\ (c \notin old \/ Cardinality(x.departed) = VouchersMax)

\* The inductive invariant: honest relays deliver genuine announcements, and
\* the drain makes none of them untrusted.
TrustInv ==
    /\ up \cap closed = {} /\ lived \subseteq closed
    /\ msg.at # "idle" /\ msg.from \in Honest => Genuine(msg.r)
    /\ \A x \in held : Traced(x, closed, lived)
    /\ \A x \in drain.left : Traced(x, closed, lived)
    /\ drain.untrusted \cap Honest = {}
    /\ drain.at = "ask" =>
           \A x \in drain.cur : x.resp.proTx \in responded \/ x.resp.sig # Valid

LEMMA EntrySets ==
    ASSUME NEW x \in Entries
    PROVE  /\ x.vouchers \subseteq Conns /\ x.departed \subseteq Conns /\ x.by \subseteq Conns
           /\ Cardinality(x.departed) \in Nat /\ IsFiniteSet(x.departed)
           /\ x.resp \in Responses
<1>1. /\ x.vouchers \subseteq Conns /\ x.departed \subseteq Conns /\ x.by \subseteq Conns
      /\ x.resp \in Responses
  BY Zenon DEF Entries
<1>2. IsFiniteSet(x.departed)
  BY <1>1, FS_Subset, HoldAssumption, Zenon
<1> QED BY <1>1, <1>2, FS_CardinalityType, Zenon

\* The relays that are over stay so, and have lasted what they had.
LEMMA TracedStays ==
    ASSUME NEW x, NEW g, NEW o, Traced(x, g, o),
           NEW h, NEW p, g \subseteq h, \A c \in g : c \in p => c \in o
    PROVE  Traced(x, h, p)
BY Zenon DEF Traced

\* The vouch lambda.
LEMMA VouchedTraced ==
    ASSUME NEW x \in Entries, NEW g, NEW o, Traced(x, g, o),
           NEW c \in Conns, c \in Honest => Genuine(x.resp)
    PROVE  Traced(Vouched(x, c), g, o)
<1>1. CASE Cardinality(x.vouchers) < VouchersMax
  <2> DEFINE y == Vouched(x, c)
  <2>1. /\ y.vouchers = x.vouchers \cup {c} /\ y.by = x.by \cup {c}
        /\ y.departed = x.departed /\ y.resp = x.resp
    BY <1>1, Zenon DEF Vouched, Entries
  <2> HIDE DEF y
  <2>2. Traced(y, g, o)
    BY <2>1, Zenon DEF Traced
  <2> QED BY <2>2, Zenon DEF y
<1>2. CASE ~(Cardinality(x.vouchers) < VouchersMax)
  BY <1>2, Zenon DEF Vouched
<1> QED BY <1>1, <1>2, Zenon

LEMMA NewEntryTraced ==
    ASSUME NEW r \in Responses, NEW b \in BOOLEAN, NEW g, NEW o,
           NEW c \in Conns, c \in Honest => Genuine(r)
    PROVE  Traced(Vouched(NewEntry(r, b), c), g, o)
<1> DEFINE n == NewEntry(r, b)
<1>1. /\ n \in Entries /\ n.resp = r /\ n.vouchers = {} /\ n.departed = {} /\ n.by = {}
  BY Zenon DEF NewEntry, Entries
<1>2. Cardinality({}) <= VouchersMax
  BY FS_EmptySet, HoldAssumption
<1> HIDE DEF n
<1>3. Traced(n, g, o)
  BY <1>1, <1>2, Zenon DEF Traced
<1>4. Traced(Vouched(n, c), g, o)
  BY <1>1, <1>3, VouchedTraced, Zenon
<1> QED BY <1>4, Zenon DEF n

\* HoldDSLEarlyResponse.
LEMMA HoldTraced ==
    ASSUME HoldInv, TrustInv, HoldDSLEarlyResponse
    PROVE  \A x \in held' : Traced(x, closed, lived)
<1> DEFINE c == msg.from
           e == Vouched(NewEntry(msg.r, msg.connected), c)
<1>1. msg.at = "hold" /\ c \in Conns /\ msg.r \in Responses /\ msg.connected \in BOOLEAN
      /\ (c \in Honest => Genuine(msg.r))
  BY Zenon DEF HoldDSLEarlyResponse, HoldInv, MsgOK, TrustInv
<1>2. Traced(e, closed, lived)
  BY <1>1, NewEntryTraced, Zenon
<1>3. CASE held' \subseteq held \cup {e}
  BY <1>2, <1>3, Zenon DEF TrustInv
<1>4. ASSUME NEW x \in held, x.resp = msg.r, HoldCopy(x, msg)
      PROVE  \A z \in held' : Traced(z, closed, lived)
  <2> DEFINE y == [x EXCEPT !.connected = @ \/ msg.connected]
  <2>1. held' \subseteq held \cup {Vouched(y, c)}
    BY <1>4, Zenon DEF HoldCopy, hold
  <2>2. x \in Entries /\ Traced(x, closed, lived)
    BY Zenon DEF HoldInv, Shape, TrustInv
  <2>3. /\ y \in Entries /\ y.resp = x.resp /\ y.vouchers = x.vouchers
        /\ y.departed = x.departed /\ y.by = x.by
    BY <2>2, Zenon DEF Entries
  <2> HIDE DEF y
  <2>4. Traced(y, closed, lived)
    BY <2>2, <2>3, Zenon DEF Traced
  <2>5. Traced(Vouched(y, c), closed, lived)
    BY <1>1, <1>4, <2>3, <2>4, VouchedTraced, Zenon
  <2> QED BY <2>1, <2>5, Zenon DEF TrustInv
<1>5. held' \subseteq held \cup {e} \/ \E x \in held : x.resp = msg.r /\ HoldCopy(x, msg)
  <2>1. UNCHANGED hold \/ HoldNew(msg) \/ \E x \in held : x.resp = msg.r /\ HoldCopy(x, msg)
    BY Zenon DEF HoldDSLEarlyResponse
  <2>2. HoldNew(msg) => held' \subseteq held \cup {e}
    BY Zenon DEF HoldNew, Displace, hold
  <2> QED BY <2>1, <2>2, Zenon DEF hold
<1> QED BY <1>3, <1>4, <1>5, Zenon

\* ForgetDSLEarlyVoucher: a relay that lasted an epoch leaves its id while there
\* is room for it.
LEMMA ForgetTraced ==
    ASSUME HoldInv, TrustInv, NEW c \in Conns, DisconnectPeer(c)
    PROVE  \A x \in held' : Traced(x, closed', lived')
<1> DEFINE own(x) == LivedAnEpoch(c) /\ Cardinality(x.departed) < VouchersMax
           g(x) == IF c \notin x.vouchers THEN x
                   ELSE [x EXCEPT !.vouchers = @ \ {c},
                                  !.departed = IF own(x) THEN @ \cup {c} ELSE @,
                                  !.shared = @ \/ ~own(x)]
<1>1. held' = {g(x) : x \in held}
  BY Zenon DEF DisconnectPeer, ForgetVoucher
<1>2. /\ c \in up /\ closed' = closed \cup {c} /\ c \notin closed /\ c \notin lived
      /\ lived' = IF LivedAnEpoch(c) THEN lived \cup {c} ELSE lived
  BY Zenon DEF DisconnectPeer, TrustInv
<1>3. ASSUME NEW x \in held
      PROVE  Traced(g(x), closed', lived')
  <2>1. x \in Entries /\ Traced(x, closed, lived)
    BY Zenon DEF HoldInv, Shape, TrustInv
  <2>2. Traced(x, closed', lived')
    <3>1. closed \subseteq closed' /\ \A d \in closed : d \in lived' => d \in lived
      BY <1>2, Zenon
    <3> QED BY <2>1, <3>1, TracedStays, Zenon
  <2>3. CASE c \notin x.vouchers
    BY <2>2, <2>3, Zenon
  <2>4. CASE c \in x.vouchers /\ own(x)
    <3> DEFINE y == g(x)
    <3>1. y = [x EXCEPT !.vouchers = @ \ {c}, !.departed = @ \cup {c}]
      BY <2>1, <2>4, Zenon DEF Entries
    <3>2. /\ y.vouchers = x.vouchers \ {c} /\ y.departed = x.departed \cup {c}
          /\ y.by = x.by /\ y.resp = x.resp
      BY <2>1, <3>1, Zenon DEF Entries
    <3>3. Cardinality(x.departed \cup {c}) <= VouchersMax
      <4>1. IsFiniteSet(x.departed) /\ Cardinality(x.departed) \in Nat
        BY <2>1, EntrySets, Zenon
      <4>2. Cardinality(x.departed \cup {c}) \in {Cardinality(x.departed), Cardinality(x.departed) + 1}
        BY <4>1, FS_AddElement, Zenon
      <4>3. Cardinality(x.departed) < VouchersMax
        BY <2>4, Zenon
      <4> QED BY <4>1, <4>2, <4>3, HoldAssumption
    <3>4. Cardinality(x.departed) # VouchersMax
      <4>1. Cardinality(x.departed) \in Nat /\ Cardinality(x.departed) < VouchersMax
        BY <2>1, <2>4, EntrySets, Zenon
      <4> QED BY <4>1, HoldAssumption
    <3> HIDE DEF y
    <3>5. Traced(y, closed', lived')
      BY <2>2, <2>4, <3>2, <3>3, <3>4, Zenon DEF Traced
    <3> QED BY <3>5, Zenon DEF y
  <2>5. CASE c \in x.vouchers /\ ~own(x)
    <3> DEFINE y == g(x)
    <3>1. y = [x EXCEPT !.vouchers = @ \ {c}, !.shared = TRUE]
      BY <2>1, <2>5, Zenon DEF Entries
    <3>2. /\ y.vouchers = x.vouchers \ {c} /\ y.departed = x.departed
          /\ y.by = x.by /\ y.resp = x.resp
      BY <2>1, <3>1, Zenon DEF Entries
    <3>3. c \notin lived' \/ Cardinality(x.departed) = VouchersMax
      <4>1. CASE ~LivedAnEpoch(c)
        BY <1>2, <4>1, Zenon
      <4>2. CASE ~(Cardinality(x.departed) < VouchersMax)
        <5>1. Cardinality(x.departed) \in Nat /\ Cardinality(x.departed) <= VouchersMax
          BY <2>1, EntrySets, Zenon DEF Traced
        <5> QED BY <4>2, <5>1, HoldAssumption
      <4> QED BY <2>5, <4>1, <4>2, Zenon
    <3> HIDE DEF y
    <3>4. Traced(y, closed', lived')
      BY <1>2, <2>2, <3>2, <3>3, Zenon DEF Traced
    <3> QED BY <3>4, Zenon DEF y
  <2> QED BY <2>3, <2>4, <2>5, Zenon
<1> HIDE DEF g
<1> QED BY <1>1, <1>3, Zenon

LEMMA DrainedFields ==
    ASSUME NEW d \in Drains, NEW x
    PROVE  /\ Drained(d, x).left \subseteq d.left
           /\ Drained(d, x).untrusted \subseteq d.untrusted
           /\ Drained(d, x).at \in {"idle", d.at}
<1>1. CASE d.left = {x}
  BY <1>1, Zenon DEF Drained, DrainIdle
<1>2. CASE d.left # {x}
  BY <1>2, Zenon DEF Drained, Drains
<1> QED BY <1>1, <1>2, Zenon

LEMMA TrustInit == Init => TrustInv
<1> SUFFICES ASSUME Init PROVE TrustInv
  BY Zenon
<1>1. msg.at = "idle" /\ drain.at # "ask" /\ drain.left = {} /\ drain.untrusted = {}
  BY DEF Init, NoMsg, DrainIdle
<1> QED BY <1>1, Zenon DEF Init, TrustInv

LEMMA TrustStep ==
    ASSUME HoldInv, DrainInv, TrustInv, [Next]_vars
    PROVE  TrustInv'
<1>1. drain \in Drains
  BY Zenon DEF DrainInv
<1>2. ASSUME NEW c \in Conns, ConnectPeer(c)
      PROVE  TrustInv'
  <2>1. up' = up \cup {c} /\ c \notin closed /\ UNCHANGED <<closed, lived, held, msg, drain, responded>>
    BY <1>2, Zenon DEF ConnectPeer, hold
  <2> QED BY <2>1, Zenon DEF TrustInv
<1>3. ASSUME NEW c \in Conns, DisconnectPeer(c)
      PROVE  TrustInv'
  <2>1. /\ c \in up /\ up' = up \ {c} /\ closed' = closed \cup {c}
        /\ lived' = IF LivedAnEpoch(c) THEN lived \cup {c} ELSE lived
        /\ UNCHANGED <<msg, drain, responded>>
    BY <1>3, Zenon DEF DisconnectPeer
  <2>2. \A x \in held' : Traced(x, closed', lived')
    BY <1>3, ForgetTraced, Zenon
  <2>3. closed \subseteq closed' /\ \A d \in closed : d \in lived' => d \in lived
    BY <2>1, Zenon DEF TrustInv
  <2>4. \A x \in drain.left : Traced(x, closed', lived')
    BY <2>3, TracedStays, Zenon DEF TrustInv
  <2>5. up' \cap closed' = {} /\ lived' \subseteq closed'
    BY <2>1, Zenon DEF TrustInv
  <2> QED BY <2>1, <2>2, <2>4, <2>5, Zenon DEF TrustInv
<1>4. ASSUME NEW c \in Conns, NEW r \in Responses, RecvResponse(c, r)
      PROVE  TrustInv'
  <2>1. /\ UNCHANGED <<up, closed, lived, held, drain, responded>> /\ (c \in Honest => Genuine(r))
        /\ msg' = [at |-> "hold", from |-> c, r |-> r, connected |-> height >= Base]
    BY <1>4, Zenon DEF RecvResponse, peers, hold
  <2>2. msg'.from = c /\ msg'.r = r
    BY <2>1, Zenon
  <2> QED BY <2>1, <2>2, Zenon DEF TrustInv
<1>5. CASE HoldDSLEarlyResponse
  <2>1. UNCHANGED <<up, closed, lived, drain, responded>> /\ msg.at = "hold"
        /\ (msg' = NoMsg \/ msg' = [msg EXCEPT !.at = "process"])
    BY <1>5, Zenon DEF HoldDSLEarlyResponse, peers
  <2>2. \A x \in held' : Traced(x, closed', lived')
    BY <1>5, <2>1, HoldTraced, Zenon
  <2>3. msg'.at = "idle" \/ (msg'.from = msg.from /\ msg'.r = msg.r)
    <3>1. msg.at # "idle"
      BY <2>1
    <3>2. msg \in [at : {"hold", "process"}, from : up, r : Responses, connected : BOOLEAN]
      BY <3>1, Zenon DEF HoldInv, MsgOK
    <3> QED BY <2>1, <3>2 DEF NoMsg
  <2>4. msg'.at # "idle" /\ msg'.from \in Honest => Genuine(msg'.r)
    BY <2>1, <2>3, Zenon DEF TrustInv
  <2> QED BY <2>1, <2>2, <2>4, Zenon DEF TrustInv
<1>6. CASE ProcessResponse
  <2>1. /\ msg' = NoMsg /\ UNCHANGED <<up, closed, lived, held, drain>>
        /\ responded \subseteq responded'
    BY <1>6, Zenon DEF ProcessResponse, peers, hold
  <2> QED BY <2>1, Zenon DEF TrustInv, NoMsg
<1>7. CASE TickBegin
  <2>1. /\ UNCHANGED <<up, closed, lived, held, msg, responded>>
        /\ drain' = [DrainIdle EXCEPT !.at = "take"] \/ drain' = DrainIdle
    BY <1>7, Zenon DEF TickBegin, peers, hold
  <2>2. drain'.left = {} /\ drain'.untrusted = {} /\ drain'.at # "ask"
    BY <2>1 DEF DrainIdle
  <2> QED BY <2>1, <2>2, Zenon DEF TrustInv
<1>8. CASE TickTakes
  <2>1. /\ UNCHANGED <<up, closed, lived, msg, responded>> /\ held' = {}
        /\ drain' = [drain EXCEPT !.at = IF held = {} THEN "idle" ELSE "check", !.left = held]
    BY <1>8, Zenon DEF TickTakes, peers
  <2>2. drain'.left = held /\ drain'.untrusted = drain.untrusted /\ drain'.at \in {"idle", "check"}
    BY <1>1, <2>1, Zenon DEF Drains
  <2>3. drain'.at # "ask"
    BY <2>2
  <2> QED BY <2>1, <2>2, <2>3, Zenon DEF TrustInv
<1>9. ASSUME NEW x \in drain.left, DrainEntry(x)
      PROVE  TrustInv'
  <2> DEFINE m == x.resp.proTx
             fresh == m \in MN \ responded /\ ~Skips(x)
             accepted == fresh /\ x.resp.sig = Valid
             refused == m \in MN /\ ~x.connected /\ ~Skips(x) /\ ~accepted
  <2>1. /\ UNCHANGED <<up, closed, lived, held, msg>> /\ drain.at = "check"
        /\ responded \subseteq responded'
        /\ drain' = IF refused THEN [drain EXCEPT !.at = "ask", !.cur = {x}] ELSE Drained(drain, x)
    BY <1>9, Zenon DEF DrainEntry, peers, hold
  <2>2. CASE refused
    <3>1. drain'.left = drain.left /\ drain'.untrusted = drain.untrusted /\ drain'.cur = {x}
      BY <1>1, <2>1, <2>2, Zenon DEF Drains
    <3>2. m \in responded \/ x.resp.sig # Valid
      BY <2>2, Zenon
    <3> HIDE DEF refused, m
    <3> QED BY <2>1, <3>1, <3>2, Zenon DEF TrustInv, m
  <2>3. CASE ~refused
    <3>1. /\ drain'.left \subseteq drain.left /\ drain'.untrusted \subseteq drain.untrusted
          /\ drain'.at \in {"idle", "check"}
      BY <1>1, <2>1, <2>3, DrainedFields, Zenon
    <3>2. drain'.at # "ask"
      BY <3>1
    <3> HIDE DEF refused, m
    <3> QED BY <2>1, <3>1, <3>2, Zenon DEF TrustInv
  <2> QED BY <2>2, <2>3, Zenon
<1>10. CASE DrainAsks
  <2>1. PICK x \in drain.cur :
            /\ drain.at = "ask"
            /\ drain' = Drained(IF x.resp.proTx \in responded
                                THEN [drain EXCEPT !.at = "check", !.cur = {}] ELSE Taint(x), x)
            /\ UNCHANGED <<up, closed, lived, held, msg, responded>>
    BY <1>10, Zenon DEF DrainAsks, peers, hold
  <2>2. x \in drain.left
    BY <2>1, Zenon DEF DrainInv, Pending
  <2>3. x \in Entries /\ Traced(x, closed, lived)
        /\ (x.resp.proTx \in responded \/ x.resp.sig # Valid)
    BY <1>1, <2>1, <2>2, Zenon DEF Drains, TrustInv
  <2> DEFINE d == IF x.resp.proTx \in responded
                  THEN [drain EXCEPT !.at = "check", !.cur = {}] ELSE Taint(x)
  <2>4. d \in Drains /\ d.at = "check" /\ d.left = drain.left /\ d.untrusted \cap Honest = {}
    <3>1. CASE x.resp.proTx \in responded
      BY <1>1, <3>1, Zenon DEF Drains, TrustInv
    <3>2. CASE x.resp.proTx \notin responded
      <4>1. ~Genuine(x.resp)
        BY <2>3, <3>2, Zenon DEF Genuine
      <4>2. (x.vouchers \cup x.departed) \cap Honest = {}
        BY <2>3, <4>1, Zenon DEF Traced
      <4>3. Deliverers(x) \subseteq x.vouchers \cup x.departed \cup {"shared"}
        BY Zenon DEF Deliverers
      <4>4. "shared" \notin Honest
        BY HoldAssumption, Zenon
      <4>5. Deliverers(x) \cap Honest = {} /\ Deliverers(x) \subseteq Deliverer
        BY <2>3, <4>2, <4>3, <4>4, EntrySets, Zenon DEF Deliverer
      <4>6. d \in Drains /\ d.at = "check" /\ d.left = drain.left
            /\ d.untrusted = drain.untrusted \cup Deliverers(x)
        BY <1>1, <3>2, <4>5, Zenon DEF Drains, Taint
      <4> QED BY <4>5, <4>6, Zenon DEF TrustInv
    <3> QED BY <3>1, <3>2, Zenon
  <2>5. drain' = Drained(d, x)
    BY <2>1, Zenon
  <2> HIDE DEF d
  <2>6. /\ drain'.left \subseteq drain.left /\ drain'.untrusted \cap Honest = {}
        /\ drain'.at \in {"idle", "check"}
    BY <2>4, <2>5, DrainedFields, Zenon
  <2>7. drain'.at # "ask"
    BY <2>6
  <2> QED BY <2>1, <2>6, <2>7, Zenon DEF TrustInv
<1>11. CASE ConnectBlock \/ UNCHANGED vars
  <2>1. UNCHANGED <<up, closed, lived, held, msg, drain, responded>>
    BY <1>11, Zenon DEF ConnectBlock, vars, peers, hold
  <2> QED BY <2>1, Zenon DEF TrustInv
<1> QED
  BY <1>2, <1>3, <1>4, <1>5, <1>6, <1>7, <1>8, <1>9, <1>10, <1>11, ZenonT(30) DEF Next

\* What a step takes from the drain's list while it skips it.
LEMMA SkippedTraced ==
    ASSUME HoldInv, DrainInv, TrustInv, NEW x \in drain.left, Skips(x), NEW h \in Honest \cap x.by
    PROVE  h \in closed /\ (h \notin lived \/ Cardinality(x.departed) = VouchersMax)
<1>1. Traced(x, closed, lived) /\ drain.untrusted \cap Honest = {}
  BY Zenon DEF TrustInv
<1>2. h \notin Deliverers(x)
  BY <1>1, Zenon DEF Skips, UntrustedOnly
<1>3. h \notin x.vouchers \cup x.departed
  BY <1>2, Zenon DEF Deliverers
<1> QED BY <1>1, <1>3, Zenon DEF Traced

\* A drain of ProcessDSLTick never leaves unchecked, for what others delivered,
\* an announcement that an honest relay vouched for: either the relay is gone
\* and had not lasted an epoch, or the entry had no room for its id.
THEOREM DrainSkipsForCause == Spec => SkippedForCause
<1> DEFINE Inv == HoldInv /\ DrainInv /\ TrustInv
<1>1. Init => Inv
  BY HoldInit, DrainInit, TrustInit, Zenon
<1>2. Inv /\ [Next]_vars => Inv'
  BY HoldStep, DrainStep, TrustStep, Zenon
<1>3. Inv /\ [Next]_vars =>
          [\A x \in drain.left \ drain'.left : Skips(x) =>
              \A h \in Honest \cap x.by :
                  h \in closed /\ (h \notin lived \/ Cardinality(x.departed) = VouchersMax)]_vars
  BY SkippedTraced, Zenon
<1> QED BY <1>1, <1>2, <1>3, PTL DEF Spec, SkippedForCause

-----------------------------------------------------------------------------
(* The room of an honest relay. *)

\* A set of numbers has a least one.
LEMMA LeastNumber ==
    ASSUME NEW S \in SUBSET Nat, S # {}
    PROVE  Min(S) \in S /\ \A m \in S : Min(S) <= m
<1> DEFINE R == OpToRel(<, Nat)
<1>1. \A m, n \in Nat : <<m, n>> \in R <=> m < n
  BY DEF OpToRel
<1>2. IsWellFoundedOn(R, Nat)
  BY NatLessThanWellFounded
<1> HIDE DEF R
<1>3. PICK n \in S : \A m \in S : ~(<<m, n>> \in R)
  BY <1>2, WFMin, ZenonT(30)
<1>4. ASSUME NEW m \in S
      PROVE  n <= m
  <2>1. m \in Nat /\ n \in Nat
    OBVIOUS
  <2>2. ~(m < n)
    BY <1>1, <1>3, <2>1, Zenon
  <2> QED BY <2>1, <2>2
<1> QED BY <1>4, Zenon DEF Min

\* A finite set of at most n elements can be numbered up to n.
LEMMA Numbered ==
    ASSUME NEW S, IsFiniteSet(S), NEW n \in Nat, Cardinality(S) <= n
    PROVE  \E f \in [S -> 1 .. n] : \A x, y \in S : f[x] = f[y] => x = y
<1> DEFINE m == Cardinality(S)
<1>1. m \in Nat /\ ExistsBijection(1 .. m, S)
  BY FS_CardinalityType, Zenon
<1>2. PICK g \in [1 .. m -> S] : \A x \in S : \E i \in 1 .. m : g[i] = x
  BY <1>1, Zenon DEF ExistsBijection, Bijection, Surjection
<1>3. 1 .. m \subseteq 1 .. n
  <2> HIDE DEF m
  <2> QED BY <1>1 DEF m
<1> HIDE DEF m
<1> DEFINE f == [x \in S |-> CHOOSE i \in 1 .. m : g[i] = x]
<1>4. \A x \in S : f[x] \in 1 .. m /\ g[f[x]] = x
  BY <1>2, Zenon
<1>5. f \in [S -> 1 .. n]
  BY <1>3, <1>4, Zenon
<1> HIDE DEF f
<1>6. \A x, y \in S : f[x] = f[y] => x = y
  BY <1>4, Zenon
<1> QED BY <1>5, <1>6, Zenon

\* What the sets k[c] cover, when each has at most n elements.
LEMMA Covered ==
    ASSUME NEW D, IsFiniteSet(D), NEW n \in Nat, NEW k,
           \A c \in D : IsFiniteSet(k[c]) /\ Cardinality(k[c]) <= n,
           NEW T, \A y \in T : \E c \in D : y \in k[c]
    PROVE  IsFiniteSet(T) /\ Cardinality(T) <= Cardinality(D) * n
<1> DEFINE Number(c, f) == f \in [k[c] -> 1 .. n] /\ \A x, y \in k[c] : f[x] = f[y] => x = y
           num(c) == CHOOSE f : Number(c, f)
           own(y) == CHOOSE c \in D : y \in k[c]
<1>1. ASSUME NEW c \in D PROVE Number(c, num(c))
  <2>1. \E f : Number(c, f)
    BY Numbered, ZenonT(30)
  <2> HIDE DEF Number
  <2> QED BY <2>1, Zenon
<1>2. \A y \in T : own(y) \in D /\ y \in k[own(y)]
  BY Zenon
<1> HIDE DEF num, own
<1> DEFINE p == [y \in T |-> <<own(y), num(own(y))[y]>>]
<1>3. ASSUME NEW y \in T PROVE num(own(y))[y] \in 1 .. n
  <2>1. own(y) \in D /\ y \in k[own(y)]
    BY <1>2, Zenon
  <2>2. Number(own(y), num(own(y)))
    BY <1>1, <2>1, Zenon
  <2>3. num(own(y)) \in [k[own(y)] -> 1 .. n]
    BY <2>2, Zenon
  <2> QED BY <2>1, <2>3, Zenon
<1>4. p \in [T -> D \X (1 .. n)]
  BY <1>2, <1>3, Zenon
<1>5. ASSUME NEW x \in T, NEW y \in T, p[x] = p[y] PROVE x = y
  <2>1. own(x) = own(y) /\ num(own(x))[x] = num(own(y))[y]
    BY <1>5
  <2> QED BY <1>1, <1>2, <2>1, Zenon
<1>6. p \in Injection(T, D \X (1 .. n))
  <2>1. DOMAIN p = T
    BY Zenon
  <2> HIDE DEF p
  <2> QED BY <1>4, <1>5, <2>1, Zenon DEF Injection, IsInjective
<1>7. IsFiniteSet(1 .. n) /\ Cardinality(1 .. n) = n
  BY FS_Interval
<1>8. IsFiniteSet(D \X (1 .. n)) /\ Cardinality(D \X (1 .. n)) = Cardinality(D) * n
  BY <1>7, FS_Product, Zenon
<1> HIDE DEF p
<1>9. IsFiniteSet(T) /\ Cardinality(T) <= Cardinality(D \X (1 .. n))
  BY <1>6, <1>8, FS_Injection, Zenon
<1> QED BY <1>8, <1>9, Zenon

\* The other connections at one time.
OthersInv == Cardinality(up \ Honest) <= MaxOthers

LEMMA ConnSets ==
    ASSUME NEW S, S \subseteq Conns
    PROVE  IsFiniteSet(S) /\ Cardinality(S) \in Nat
BY FS_Subset, FS_CardinalityType, HoldAssumption, Zenon

LEMMA OthersInit ==
    ASSUME MaxOthers \in Nat, Init
    PROVE  OthersInv
<1>1. up \ Honest = {}
  BY Zenon DEF Init
<1>2. Cardinality({}) = 0
  BY FS_EmptySet, Zenon
<1> QED BY <1>1, <1>2 DEF OthersInv

LEMMA OthersStep ==
    ASSUME MaxOthers \in Nat, HoldInv, OthersInv, [Next]_vars
    PROVE  OthersInv'
<1> DEFINE o == up \ Honest
<1>1. IsFiniteSet(o) /\ Cardinality(o) \in Nat
  BY ConnSets, Zenon DEF HoldInv
<1>2. ASSUME up' \ Honest \subseteq o PROVE OthersInv'
  <2>1. Cardinality(up' \ Honest) <= Cardinality(o) /\ Cardinality(up' \ Honest) \in Nat
    BY <1>1, <1>2, FS_Subset, FS_CardinalityType, Zenon
  <2> HIDE DEF o
  <2>2. Cardinality(o) <= MaxOthers
    BY Zenon DEF OthersInv, o
  <2>3. Cardinality(up' \ Honest) <= MaxOthers
    BY <1>1, <2>1, <2>2
  <2> QED BY <2>3, Zenon DEF OthersInv
<1>3. ASSUME NEW c \in Conns, ConnectPeer(c) PROVE OthersInv'
  <2>1. CASE c \in Honest
    <3>1. up' \ Honest \subseteq o
      BY <1>3, <2>1, Zenon DEF ConnectPeer
    <3> QED BY <1>2, <3>1, Zenon
  <2>2. CASE c \notin Honest
    <3>1. up' \ Honest = o \cup {c} /\ Cardinality(o) < MaxOthers
      BY <1>3, <2>2, Zenon DEF ConnectPeer
    <3>2. Cardinality(o \cup {c}) \in {Cardinality(o), Cardinality(o) + 1}
      BY <1>1, FS_AddElement, Zenon
    <3> HIDE DEF o
    <3>3. Cardinality(up' \ Honest) <= MaxOthers
      BY <1>1, <3>1, <3>2
    <3> QED BY <3>3, Zenon DEF OthersInv
  <2> QED BY <2>1, <2>2, Zenon
<1>4. ASSUME NEW c \in Conns, DisconnectPeer(c) PROVE OthersInv'
  <2>1. up' \ Honest \subseteq o
    BY <1>4, Zenon DEF DisconnectPeer
  <2> QED BY <1>2, <2>1, Zenon
<1>5. CASE UNCHANGED up
  BY <1>2, <1>5, Zenon
<1>6. \/ \E c \in Conns : ConnectPeer(c) \/ DisconnectPeer(c)
      \/ UNCHANGED up
  BY ZenonT(30) DEF Next, vars, peers, ConnectBlock, RecvResponse, HoldDSLEarlyResponse, ProcessResponse,
         TickBegin, TickTakes, DrainEntry, DrainAsks
<1> QED BY <1>3, <1>4, <1>5, <1>6, Zenon

\* The genuine entries held: one per masternode.
GenuineHeld == {x \in held : Genuine(x.resp)}

LEMMA GenuineFew ==
    ASSUME HoldInv, NEW M, M \subseteq MN, \A x \in GenuineHeld : x.resp.proTx \in M
    PROVE  IsFiniteSet(GenuineHeld) /\ Cardinality(GenuineHeld) <= Cardinality(M)
<1> DEFINE p == [x \in GenuineHeld |-> x.resp.proTx]
<1>1. p \in [GenuineHeld -> M]
  BY Zenon
<1>2. ASSUME NEW x \in GenuineHeld, NEW y \in GenuineHeld, p[x] = p[y] PROVE x = y
  <2>1. /\ x.resp \in Responses /\ y.resp \in Responses /\ x \in held /\ y \in held
        /\ x.resp.proTx = y.resp.proTx /\ x.resp.sig = y.resp.sig
    BY <1>2, EntrySets, Zenon DEF GenuineHeld, Genuine, HoldInv, Shape
  <2> HIDE DEF p
  <2>2. x.resp = y.resp
    BY <2>1 DEF Responses
  <2> QED BY <2>1, <2>2, Zenon DEF HoldInv, Shape
<1>3. p \in Injection(GenuineHeld, M)
  <2>1. DOMAIN p = GenuineHeld
    BY Zenon
  <2> HIDE DEF p
  <2> QED BY <1>1, <1>2, <2>1, Zenon DEF Injection, IsInjective
<1>4. IsFiniteSet(M)
  BY Sizes, Zenon
<1> HIDE DEF p
<1> QED BY <1>3, <1>4, FS_Injection, Zenon

\* There is one genuine announcement per masternode.
LEMMA SameGenuine ==
    ASSUME NEW r, NEW x \in Entries, Genuine(r), Genuine(x.resp), x.resp.proTx = r.proTx,
           r \in Responses
    PROVE  x.resp = r
<1>1. x.resp \in Responses /\ x.resp.sig = r.sig
  BY EntrySets, Zenon DEF Genuine
<1> QED BY <1>1 DEF Responses

LEMMA UnionAtMost ==
    ASSUME NEW A, NEW B, IsFiniteSet(A), IsFiniteSet(B)
    PROVE  Cardinality(A \cup B) <= Cardinality(A) + Cardinality(B)
<1>1. Cardinality(A \cup B) = Cardinality(A) + Cardinality(B) - Cardinality(A \cap B)
  BY FS_Union, Zenon
<1>2. IsFiniteSet(A \cap B)
  BY FS_Subset, Zenon
<1>3. Cardinality(A) \in Nat /\ Cardinality(B) \in Nat /\ Cardinality(A \cap B) \in Nat
  BY <1>2, FS_CardinalityType, Zenon
<1> QED BY <1>1, <1>3

\* Honest relays vouch for genuine entries only.
LEMMA HonestVouchers ==
    ASSUME HoldInv, TrustInv, NEW x \in held, NEW c \in x.vouchers
    PROVE  c \in up /\ c \in Conns /\ (c \in Honest => x \in GenuineHeld)
<1>1. c \in up /\ c \in Conns
  BY Zenon DEF HoldInv, Tallies
<1>2. c \in Honest => Genuine(x.resp)
  BY Zenon DEF TrustInv, Traced
<1> QED BY <1>1, <1>2, Zenon DEF GenuineHeld

\* One less when an announcement is still missing.
LEMMA GenuineMissing ==
    ASSUME HoldInv, NEW r \in Responses, Genuine(r), \A x \in held : x.resp # r
    PROVE  IsFiniteSet(GenuineHeld) /\ Cardinality(GenuineHeld) <= Cardinality(MN) - 1
<1>1. IsFiniteSet(MN) /\ r.proTx \in MN
  BY HoldAssumption, Zenon DEF Genuine
<1>2. Cardinality(MN \ {r.proTx}) = Cardinality(MN) - 1
  BY <1>1, FS_RemoveElement, Zenon
<1>3. \A x \in GenuineHeld : x \in Entries /\ Genuine(x.resp) /\ x.resp.proTx \in MN /\ x.resp # r
  BY Zenon DEF GenuineHeld, Genuine, HoldInv, Shape
<1>4. \A x \in GenuineHeld : x.resp.proTx \in MN \ {r.proTx}
  BY <1>3, SameGenuine, Zenon
<1> QED BY <1>2, <1>4, GenuineFew, Zenon

\* The share of an entry: that of one of its vouchers, and no more than that of
\* any other.
LEMMA Shares ==
    ASSUME HoldInv
    PROVE  /\ \A c \in Conns : InSet(c) = Cardinality(VouchedBy(held, c)) /\ InSet(c) \in Nat
           /\ \A x \in held : Live(x) = x.vouchers
           /\ \A x \in held : x.vouchers # {} =>
                  /\ \E c \in x.vouchers : ShareOf(x) = InSet(c)
                  /\ \A c \in x.vouchers : ShareOf(x) <= InSet(c)
<1>0. /\ Shape(held) /\ Tallies(held, tally, up)
      /\ \A x \in held : x.vouchers \subseteq Conns
  BY EntrySets, Zenon DEF HoldInv, Shape
<1>1. ASSUME NEW c \in Conns PROVE InSet(c) = Cardinality(VouchedBy(held, c)) /\ InSet(c) \in Nat
  <2>1. tally[c] = Cardinality(VouchedBy(held, c)) /\ tally[c] \in Nat
    BY <1>0, Zenon DEF Tallies
  <2>2. InSet(c) = IF tally[c] = 0 THEN 0 ELSE Cardinality(VouchedBy(held, c))
    BY Zenon DEF InSet, VouchedBy
  <2> QED BY <2>1, <2>2
<1>2. ASSUME NEW x \in held PROVE Live(x) = x.vouchers
  <2>1. \A c \in x.vouchers \cap Conns : tally[c] > 0
    BY <1>0, RemoveEntry, Zenon
  <2>2. \A c \in x.vouchers : tally[c] # 0
    BY <1>0, <2>1
  <2> QED BY <2>2, Zenon DEF Live
<1>3. ASSUME NEW x \in held, x.vouchers # {}
      PROVE  /\ \E c \in x.vouchers : ShareOf(x) = InSet(c)
             /\ \A c \in x.vouchers : ShareOf(x) <= InSet(c)
  <2> DEFINE S == {InSet(c) : c \in x.vouchers}
  <2>1. S \in SUBSET Nat /\ S # {}
    BY <1>0, <1>1, <1>3, Zenon
  <2>2. Min(S) \in S /\ \A m \in S : Min(S) <= m
    <3> HIDE DEF S
    <3> QED BY <2>1, LeastNumber, Zenon
  <2>3. ShareOf(x) = Min(S)
    BY <1>2, Zenon DEF ShareOf
  <2> QED BY <2>2, <2>3, Zenon
<1> QED BY <1>1, <1>2, <1>3, Zenon

\* Entries that m connections with a share of at most n each vouch for.
LEMMA FewShares ==
    ASSUME HoldInv, NEW T, T \subseteq held, NEW D, D \subseteq Conns,
           NEW m \in Nat, NEW n \in Nat, Cardinality(D) <= m,
           \A y \in T : \E c \in D : c \in y.vouchers /\ InSet(c) <= n
    PROVE  IsFiniteSet(T) /\ Cardinality(T) \in Nat /\ Cardinality(T) <= m * n
<1> DEFINE E == {c \in D : InSet(c) <= n}
           k == [c \in E |-> VouchedBy(held, c)]
<1>1. IsFiniteSet(D) /\ Cardinality(D) \in Nat /\ IsFiniteSet(E) /\ Cardinality(E) \in Nat
  BY ConnSets, Zenon
<1>2. Cardinality(E) <= Cardinality(D)
  BY <1>1, FS_Subset, Zenon
<1>3. ASSUME NEW c \in E PROVE IsFiniteSet(k[c]) /\ Cardinality(k[c]) <= n
  <2>1. IsFiniteSet(held)
    BY Zenon DEF HoldInv, Shape
  <2>2. VouchedBy(held, c) \subseteq held /\ c \in Conns /\ k[c] = VouchedBy(held, c)
    BY Zenon DEF VouchedBy
  <2>3. IsFiniteSet(k[c])
    BY <2>1, <2>2, FS_Subset, Zenon
  <2>4. Cardinality(k[c]) = InSet(c) /\ InSet(c) <= n
    BY <2>2, Shares, Zenon
  <2> QED BY <2>3, <2>4, Zenon
<1>4. \A y \in T : \E c \in E : y \in k[c]
  BY Zenon DEF VouchedBy
<1> HIDE DEF E, k
<1>5. IsFiniteSet(T) /\ Cardinality(T) <= Cardinality(E) * n
  BY <1>1, <1>3, <1>4, Covered, Zenon
<1>6. Cardinality(T) \in Nat
  BY <1>5, FS_CardinalityType, Zenon
<1>7. Cardinality(E) <= m
  BY <1>1, <1>2
<1>8. Cardinality(E) * n <= m * n /\ Cardinality(E) * n \in Nat /\ m * n \in Nat
  BY <1>1, <1>7
<1> QED BY <1>5, <1>6, <1>8

\* The sizing of DSL_EARLY_RESPONSES_PER_MN: a share of one entry per masternode
\* for each other connection, and one for the honest relays together.
Sized == MaxOthers \in Nat /\ (MaxOthers + 1) * Cardinality(MN) <= HoldMax

\* A hold whose entries all have small shares has room for an announcement that
\* an honest relay delivers first.
LEMMA RoomForHonest ==
    ASSUME Sized, HoldInv, TrustInv, OthersInv, NEW r \in Responses, Genuine(r),
           \A x \in held : x.resp # r,
           \A y \in held : \E c \in y.vouchers : InSet(c) <= Cardinality(MN)
    PROVE  Cardinality(held) < HoldMax
<1> DEFINE G == GenuineHeld
           T == held \ G
           D == up \ Honest
           N == Cardinality(MN)
<1>1. IsFiniteSet(MN) /\ N \in Nat
  BY FS_CardinalityType, HoldAssumption, Zenon
<1>4. IsFiniteSet(G) /\ Cardinality(G) <= N - 1
  BY GenuineMissing, Zenon
<1>5. \A y \in T : \E c \in D : c \in y.vouchers /\ InSet(c) <= N
  BY HonestVouchers, Zenon
<1>6. IsFiniteSet(T) /\ Cardinality(T) \in Nat /\ Cardinality(T) <= MaxOthers * N
  <2>1. D \subseteq Conns /\ Cardinality(D) <= MaxOthers /\ T \subseteq held
    BY Zenon DEF HoldInv, OthersInv
  <2> HIDE DEF T, D, N
  <2> QED BY <1>1, <1>5, <2>1, FewShares, Zenon DEF Sized
<1>7. held = G \cup T
  BY Zenon DEF GenuineHeld
<1>8. Cardinality(held) <= Cardinality(G) + Cardinality(T) /\ Cardinality(G) \in Nat
      /\ Cardinality(held) \in Nat
  <2> HIDE DEF G, T
  <2> QED BY <1>4, <1>6, <1>7, UnionAtMost, FS_Union, FS_CardinalityType, Zenon
<1> HIDE DEF G, T, N
<1>9. (MaxOthers + 1) * N <= HoldMax /\ MaxOthers \in Nat /\ HoldMax \in Nat
  BY HoldAssumption, Zenon DEF Sized, N
<1>10. (MaxOthers + 1) * N = MaxOthers * N + N /\ MaxOthers * N \in Nat
  BY <1>1, <1>9
<1> QED BY <1>1, <1>4, <1>6, <1>8, <1>9, <1>10

\* So has one for an entry of another connection whose share is smaller still.
LEMMA RoomForOther ==
    ASSUME Sized, HoldInv, TrustInv, OthersInv, NEW o \in up \ Honest,
           InSet(o) + 1 < Cardinality(MN),
           \A y \in held : \E c \in y.vouchers : InSet(c) <= Cardinality(MN)
    PROVE  Cardinality(held) < HoldMax
<1> DEFINE G == GenuineHeld
           V == VouchedBy(held, o)
           T == held \ (G \cup V)
           D == (up \ Honest) \ {o}
           N == Cardinality(MN)
<1>1. IsFiniteSet(MN) /\ N \in Nat
  BY FS_CardinalityType, HoldAssumption, Zenon
<1>2. IsFiniteSet(G) /\ Cardinality(G) <= N
  <2>1. \A x \in G : x.resp.proTx \in MN
    BY Zenon DEF GenuineHeld, Genuine
  <2> QED BY <2>1, GenuineFew, Zenon
<1>3. IsFiniteSet(V) /\ Cardinality(V) = InSet(o) /\ InSet(o) \in Nat
  <2>1. IsFiniteSet(held) /\ V \subseteq held /\ o \in Conns
    BY Zenon DEF HoldInv, Shape, VouchedBy
  <2> QED BY <2>1, FS_Subset, Shares, Zenon
<1>4. \A y \in T : \E c \in D : c \in y.vouchers /\ InSet(c) <= N
  BY HonestVouchers, Zenon DEF VouchedBy
<1>5. MaxOthers - 1 \in Nat /\ Cardinality(D) <= MaxOthers - 1 /\ D \subseteq Conns
  <2>1. up \ Honest \subseteq Conns /\ Cardinality(up \ Honest) <= MaxOthers
    BY Zenon DEF HoldInv, OthersInv
  <2>2. IsFiniteSet(up \ Honest) /\ Cardinality(up \ Honest) \in Nat /\ Cardinality(D) \in Nat
        /\ D \subseteq Conns
    BY <2>1, ConnSets, Zenon
  <2>3. Cardinality(D) = Cardinality(up \ Honest) - 1
    BY <2>2, FS_RemoveElement, Zenon
  <2> HIDE DEF D
  <2> QED BY <2>1, <2>2, <2>3 DEF Sized
<1>6. IsFiniteSet(T) /\ Cardinality(T) \in Nat /\ Cardinality(T) <= (MaxOthers - 1) * N
  <2>1. T \subseteq held
    BY Zenon
  <2> HIDE DEF T, D, N
  <2> QED BY <1>1, <1>4, <1>5, <2>1, FewShares, Zenon
<1>7. held = G \cup (V \cup T)
  BY Zenon DEF GenuineHeld, VouchedBy
<1>8. /\ Cardinality(V \cup T) <= Cardinality(V) + Cardinality(T)
      /\ IsFiniteSet(V \cup T) /\ Cardinality(V \cup T) \in Nat /\ Cardinality(V) \in Nat
  <2> HIDE DEF V, T
  <2> QED BY <1>3, <1>6, UnionAtMost, FS_Union, FS_CardinalityType, Zenon
<1>9. Cardinality(held) <= Cardinality(G) + Cardinality(V \cup T) /\ Cardinality(G) \in Nat
      /\ Cardinality(held) \in Nat
  <2> HIDE DEF G, V, T
  <2> QED BY <1>2, <1>7, <1>8, UnionAtMost, FS_Union, FS_CardinalityType, Zenon
<1>10. InSet(o) + 1 < N
  BY Zenon
<1> HIDE DEF G, V, T, N
<1>11. (MaxOthers + 1) * N <= HoldMax /\ MaxOthers \in Nat /\ HoldMax \in Nat
  BY HoldAssumption, Zenon DEF Sized, N
<1>12. (MaxOthers + 1) * N = (MaxOthers - 1) * N + N + N /\ (MaxOthers - 1) * N \in Nat
  BY <1>1, <1>5, <1>11
<1> QED BY <1>1, <1>2, <1>3, <1>6, <1>8, <1>9, <1>10, <1>11, <1>12

\* An honest relay's share is part of the genuine entries.
LEMMA HonestShare ==
    ASSUME HoldInv, TrustInv, NEW h \in Honest, IsFiniteSet(GenuineHeld)
    PROVE  /\ InSet(h) <= Cardinality(GenuineHeld) /\ InSet(h) \in Nat
           /\ Cardinality(GenuineHeld) \in Nat
<1>1. VouchedBy(held, h) \subseteq GenuineHeld /\ h \in Conns
  BY HonestVouchers, HoldAssumption, Zenon DEF VouchedBy
<1>2. Cardinality(VouchedBy(held, h)) <= Cardinality(GenuineHeld)
  BY <1>1, FS_Subset, Zenon
<1>3. Cardinality(GenuineHeld) \in Nat
  BY FS_CardinalityType, Zenon
<1> QED BY <1>1, <1>2, <1>3, Shares, Zenon

\* No entry of a full hold has a larger share than the weakest.
LEMMA WeakestShare ==
    ASSUME HoldInv, NEW w \in Weakest, w.vouchers # {}, NEW n \in Nat, ShareOf(w) <= n
    PROVE  \A y \in held : \E c \in y.vouchers : InSet(c) <= n
<1>1. \A x \in held : Live(x) = x.vouchers
  BY Shares, Zenon
<1>2. /\ w \in held /\ \A y \in held : y.vouchers # {} /\ ShareOf(y) <= ShareOf(w)
  BY <1>1, Zenon DEF Weakest
<1>3. ASSUME NEW y \in held PROVE \E c \in y.vouchers : InSet(c) <= n
  <2>1. PICK c \in y.vouchers : ShareOf(y) = InSet(c)
    BY <1>2, Shares, Zenon
  <2>2. PICK d \in w.vouchers : ShareOf(w) = InSet(d)
    BY <1>2, Shares, Zenon
  <2>3. c \in Conns /\ d \in Conns
    BY <1>2, EntrySets, Zenon DEF HoldInv, Shape
  <2>4. InSet(c) \in Nat /\ InSet(d) \in Nat
    BY <2>3, Shares, Zenon
  <2>5. InSet(c) <= InSet(d) /\ InSet(d) <= n
    BY <1>2, <2>1, <2>2, Zenon
  <2>6. InSet(c) <= n
    BY <2>4, <2>5
  <2> QED BY <2>6, Zenon
<1> QED BY <1>3, Zenon

\* The contest of a full hold: an honest relay's entry is not the one that gives
\* way.
LEMMA HonestStays ==
    ASSUME Sized, HoldInv, TrustInv, OthersInv, msg.at = "hold",
           \A x \in held : x.resp # msg.r, ~(Cardinality(held) < HoldMax),
           NEW w \in Weakest, WeakerThan(w, InSet(msg.from) + 1)
    PROVE  w.vouchers \cap Honest = {}
<1> SUFFICES ASSUME NEW h \in w.vouchers \cap Honest
             PROVE  FALSE
  BY Zenon
<1> DEFINE N == Cardinality(MN)
<1>1. w \in held /\ Live(w) = w.vouchers
  BY Shares, Zenon DEF Weakest
<1>2. msg.from \in up /\ msg.from \in Conns /\ msg.r \in Responses
      /\ (msg.from \in Honest => Genuine(msg.r))
  BY Zenon DEF HoldInv, MsgOK, TrustInv
<1>3. N \in Nat
  BY HoldAssumption, FS_CardinalityType, Zenon
<1>4. IsFiniteSet(GenuineHeld) /\ Cardinality(GenuineHeld) <= N
  <2>1. \A x \in GenuineHeld : x.resp.proTx \in MN
    BY Zenon DEF GenuineHeld, Genuine
  <2> QED BY <2>1, GenuineFew, Zenon
<1>5. InSet(h) <= N /\ InSet(h) \in Nat
  <2>1. /\ InSet(h) <= Cardinality(GenuineHeld) /\ InSet(h) \in Nat
        /\ Cardinality(GenuineHeld) \in Nat
    BY <1>4, HonestShare, Zenon
  <2> HIDE DEF N
  <2> QED BY <1>3, <1>4, <2>1
<1>6. PICK d \in w.vouchers : ShareOf(w) = InSet(d)
  BY <1>1, Shares, Zenon
<1>7. ShareOf(w) \in Nat /\ InSet(msg.from) \in Nat /\ ShareOf(w) <= InSet(h)
  <2>1. d \in Conns
    BY <1>1, EntrySets, Zenon DEF HoldInv, Shape
  <2> QED BY <1>1, <1>2, <1>6, <2>1, Shares, Zenon
<1>8. ShareOf(w) > InSet(msg.from) + 1
  BY <1>1, Zenon DEF WeakerThan
<1> HIDE DEF N
<1>9. ShareOf(w) <= N /\ InSet(msg.from) + 1 < N
  BY <1>3, <1>5, <1>7, <1>8
<1>10. \A y \in held : \E c \in y.vouchers : InSet(c) <= N
  BY <1>3, <1>9, WeakestShare, Zenon
<1>11. CASE msg.from \in Honest
  BY <1>2, <1>10, <1>11, RoomForHonest, Zenon DEF N
<1>12. CASE msg.from \notin Honest
  BY <1>2, <1>9, <1>10, <1>12, RoomForOther, Zenon DEF N
<1> QED BY <1>11, <1>12, Zenon

\* And what an honest relay delivers first is not refused.
LEMMA HonestEnters ==
    ASSUME Sized, HoldInv, TrustInv, OthersInv, msg.at = "hold", msg.from \in Honest,
           \A x \in held : x.resp # msg.r, ~(Cardinality(held) < HoldMax),
           NEW w \in Weakest
    PROVE  WeakerThan(w, InSet(msg.from) + 1)
<1> SUFFICES ASSUME ~WeakerThan(w, InSet(msg.from) + 1)
             PROVE  FALSE
  BY Zenon
<1> DEFINE N == Cardinality(MN)
<1>1. w \in held /\ Live(w) = w.vouchers
  BY Shares, Zenon DEF Weakest
<1>2. msg.r \in Responses /\ Genuine(msg.r)
  BY Zenon DEF HoldInv, MsgOK, TrustInv
<1>3. N \in Nat
  BY HoldAssumption, FS_CardinalityType, Zenon
<1>4. IsFiniteSet(GenuineHeld) /\ Cardinality(GenuineHeld) <= N - 1
  BY <1>2, GenuineMissing, Zenon
<1>5. /\ InSet(msg.from) <= Cardinality(GenuineHeld) /\ InSet(msg.from) \in Nat
      /\ Cardinality(GenuineHeld) \in Nat
  BY <1>4, HonestShare, Zenon
<1>6. w.vouchers # {} /\ ~(ShareOf(w) > InSet(msg.from) + 1)
  BY <1>1, Zenon DEF WeakerThan
<1>7. PICK d \in w.vouchers : ShareOf(w) = InSet(d)
  BY <1>1, <1>6, Shares, Zenon
<1>8. ShareOf(w) \in Nat
  <2>1. d \in Conns
    BY <1>1, EntrySets, Zenon DEF HoldInv, Shape
  <2> QED BY <1>7, <2>1, Shares, Zenon
<1> HIDE DEF N
<1>9. ShareOf(w) <= N
  BY <1>3, <1>4, <1>5, <1>6, <1>8
<1>10. \A y \in held : \E c \in y.vouchers : InSet(c) <= N
  BY <1>3, <1>6, <1>9, WeakestShare, Zenon
<1> QED BY <1>2, <1>10, RoomForHonest, Zenon DEF N

\* HoldDSLEarlyResponse keeps what honest relays vouch for, and holds what they
\* deliver.
LEMMA HoldHonest ==
    ASSUME Sized, HoldInv, TrustInv, OthersInv, HoldDSLEarlyResponse
    PROVE  /\ \A x \in held : x.vouchers \cap Honest # {} => \E y \in held' : y.resp = x.resp
           /\ msg' = NoMsg /\ msg.from \in Honest => \E y \in held' : y.resp = msg.r
<1> DEFINE new == Vouched(NewEntry(msg.r, msg.connected), msg.from)
           Kept == /\ \A x \in held : x.vouchers \cap Honest # {} =>
                          \E y \in held' : y.resp = x.resp
                   /\ msg.from \in Honest => \E y \in held' : y.resp = msg.r
<1>1. msg.at = "hold" /\ msg.from \in Conns /\ msg.r \in Responses /\ msg.connected \in BOOLEAN
      /\ (msg.from \in Honest => Genuine(msg.r))
  BY Zenon DEF HoldDSLEarlyResponse, HoldInv, MsgOK, TrustInv
<1>2. new.resp = msg.r
  BY Zenon DEF Vouched, NewEntry
<1> HIDE DEF new
<1>3. CASE msg' = [msg EXCEPT !.at = "process"] /\ UNCHANGED hold
  <2>1. msg \in [at : {"hold", "process"}, from : up, r : Responses, connected : BOOLEAN]
    BY <1>1, Zenon DEF HoldInv, MsgOK
  <2>2. msg'.at = "process"
    BY <1>3, <2>1
  <2>3. msg' # NoMsg
    BY <2>2 DEF NoMsg
  <2> QED BY <1>3, <2>3, Zenon DEF hold
<1>4. ASSUME NEW x \in held, x.resp = msg.r, HoldCopy(x, msg) PROVE Kept
  <2> DEFINE y == [x EXCEPT !.connected = @ \/ msg.connected]
  <2>1. CASE UNCHANGED hold
    BY <1>4, <2>1, Zenon DEF hold
  <2>2. CASE held' = (held \ {x}) \cup {Vouched(y, msg.from)}
    <3>1. x \in Entries
      BY Zenon DEF HoldInv, Shape
    <3>2. y \in Entries /\ y.resp = x.resp
      BY <3>1, Zenon DEF Entries
    <3> HIDE DEF y
    <3>3. Vouched(y, msg.from).resp = x.resp
      BY <3>2, Zenon DEF Vouched, Entries
    <3> QED BY <1>4, <2>2, <3>3, Zenon
  <2> QED BY <1>4, <2>1, <2>2, Zenon DEF HoldCopy
<1>5. ASSUME \A x \in held : x.resp # msg.r, HoldNew(msg) PROVE Kept
  <2>1. CASE msg.connected /\ msg.r.sig # Valid
    <3>1. held' = held /\ msg.from \notin Honest
      BY <1>1, <1>5, <2>1, Zenon DEF HoldNew, hold, Genuine
    <3> QED BY <3>1, Zenon
  <2>2. CASE Cardinality(held) < HoldMax /\ ~(msg.connected /\ msg.r.sig # Valid)
    <3>1. held' = held \cup {new}
      BY <1>5, <2>2, Zenon DEF HoldNew, new
    <3> QED BY <1>2, <3>1, Zenon
  <2>3. CASE ~(Cardinality(held) < HoldMax) /\ ~(msg.connected /\ msg.r.sig # Valid)
    <3>1. PICK w \in Weakest : IF WeakerThan(w, InSet(msg.from) + 1) THEN Displace(w, msg)
                               ELSE UNCHANGED hold
      BY <1>5, <2>3, Zenon DEF HoldNew
    <3>2. CASE WeakerThan(w, InSet(msg.from) + 1)
      <4>1. held' = (held \ {w}) \cup {new}
        BY <3>1, <3>2, Zenon DEF Displace, new
      <4>2. w.vouchers \cap Honest = {}
        BY <1>1, <1>5, <2>3, <3>2, HonestStays, Zenon
      <4> QED BY <1>2, <4>1, <4>2, Zenon
    <3>3. CASE ~WeakerThan(w, InSet(msg.from) + 1)
      <4>1. held' = held
        BY <3>1, <3>3, Zenon DEF hold
      <4>2. msg.from \notin Honest
        BY <1>1, <1>5, <2>3, <3>3, HonestEnters, Zenon
      <4> QED BY <4>1, <4>2, Zenon
    <3> QED BY <3>2, <3>3, Zenon
  <2> QED BY <2>1, <2>2, <2>3, Zenon
<1>6. \/ msg' = [msg EXCEPT !.at = "process"] /\ UNCHANGED hold
      \/ (\A x \in held : x.resp # msg.r) /\ HoldNew(msg)
      \/ \E x \in held : x.resp = msg.r /\ HoldCopy(x, msg)
  BY Zenon DEF HoldDSLEarlyResponse
<1> QED BY <1>3, <1>4, <1>5, <1>6, Zenon

\* A step keeps what the honest relays have delivered.
LEMMA HonestStep ==
    ASSUME Sized, HoldInv, DrainInv, TrustInv, OthersInv, [Next]_vars
    PROVE  [/\ \A x \in held : x.vouchers \cap Honest \cap up' # {} =>
                   \/ \E y \in held' : y.resp = x.resp
                   \/ x \in drain'.left
            /\ msg.at = "hold" /\ msg' = NoMsg /\ msg.from \in Honest =>
                   \E y \in held' : y.resp = msg.r]_vars
<1> DEFINE Same == msg' = msg \/ msg.at # "hold"
           Kept == \A x \in held : \/ \E y \in held' : y.resp = x.resp
                                   \/ x \in drain'.left
<1>0. NoMsg.at # "hold"
  BY DEF NoMsg
<1>1. ASSUME NEW c \in Conns, DisconnectPeer(c) PROVE Same /\ Kept
  <2>1. ForgetVoucher(c) /\ msg' = msg /\ held \subseteq Entries
    BY <1>1, Zenon DEF DisconnectPeer, HoldInv, Shape
  <2> DEFINE own(x) == LivedAnEpoch(c) /\ Cardinality(x.departed) < VouchersMax
             f(x) == IF c \notin x.vouchers THEN x
                     ELSE [x EXCEPT !.vouchers = @ \ {c},
                                    !.departed = IF own(x) THEN @ \cup {c} ELSE @,
                                    !.shared = @ \/ ~own(x)]
  <2>2. held' = {f(x) : x \in held}
    BY <2>1, Zenon DEF ForgetVoucher
  <2>3. \A x \in held : f(x).resp = x.resp
    BY <2>1, Zenon DEF Entries
  <2> HIDE DEF f
  <2> QED BY <2>1, <2>2, <2>3, Zenon
<1>2. CASE TickTakes
  <2>1. msg' = msg
    BY <1>2, Zenon DEF TickTakes
  <2>2. drain'.left = held
    BY <1>2, Zenon DEF TickTakes, DrainInv, Drains
  <2> QED BY <1>0, <2>1, <2>2, Zenon
<1>3. CASE HoldDSLEarlyResponse
  BY <1>3, HoldHonest, Zenon
<1>4. CASE UNCHANGED held /\ Same
  BY <1>0, <1>4, Zenon
<1>5. \/ \E c \in Conns : DisconnectPeer(c)
      \/ TickTakes \/ HoldDSLEarlyResponse
      \/ UNCHANGED held /\ Same
  BY <1>0, ZenonT(30) DEF Next, vars, hold, ConnectPeer, ConnectBlock, RecvResponse,
         ProcessResponse, TickBegin, DrainEntry, DrainAsks
<1> QED BY <1>0, <1>1, <1>2, <1>3, <1>4, <1>5, Zenon

\* HonestHeld: while the other connections are as few as the sizing of the hold
\* says (DSL_EARLY_RESPONSES_PER_MN), whatever they send and however often they
\* reconnect, HoldDSLEarlyResponse finds room for what an honest relay delivers,
\* and the contest never takes an entry that a connected honest relay vouches for.
THEOREM HonestRelayHeld ==
    ASSUME Sized
    PROVE  Spec => HonestHeld
<1> DEFINE Inv == HoldInv /\ DrainInv /\ TrustInv /\ OthersInv
<1>1. Init => Inv
  BY HoldInit, DrainInit, TrustInit, OthersInit, Zenon DEF Sized
<1>2. Inv /\ [Next]_vars => Inv'
  BY HoldStep, DrainStep, TrustStep, OthersStep, Zenon DEF Sized
<1>3. Inv /\ [Next]_vars =>
          [/\ \A x \in held : x.vouchers \cap Honest \cap up' # {} =>
                  \/ \E y \in held' : y.resp = x.resp
                  \/ x \in drain'.left
           /\ msg.at = "hold" /\ msg' = NoMsg /\ msg.from \in Honest =>
                  \E y \in held' : y.resp = msg.r]_vars
  BY HonestStep, Zenon
<1> QED BY <1>1, <1>2, <1>3, PTL DEF Spec, HonestHeld
=============================================================================
