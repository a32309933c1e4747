--------------------------- MODULE BlockTreeProofs --------------------------
(***************************************************************************)
(* The ancestors of a block, for every tree: they are its parent's and the *)
(* block itself, two of them are always ancestors of one another, and      *)
(* their heights are the numbers up to the block's.                        *)
(***************************************************************************)
EXTENDS BlockTree, FiniteSetTheorems, WellFoundedInduction, TLAPS

\* A closed set that has a block has its chain.
LEMMA ChainLeast ==
    ASSUME NEW b \in Blocks, NEW S \in SUBSET Blocks, b \in S, Closed(S)
    PROVE  Chain[b] \subseteq S
BY DEF Chain

\* A block is in its own chain.
LEMMA ChainSelf ==
    ASSUME NEW b \in Blocks
    PROVE  b \in Chain[b] /\ Chain[b] \subseteq Blocks
BY DEF Chain

\* A chain has the parent of each of its blocks.
LEMMA ChainClosed ==
    ASSUME NEW b \in Blocks, NEW a \in Chain[b], a # Genesis
    PROVE  a \in Blocks /\ Parent[a] \in Chain[b]
<1>1. a \in Blocks /\ Parent[a] \in Blocks
  BY ChainSelf, TreeAssumption
<1>2. ASSUME NEW S \in SUBSET Blocks, b \in S, Closed(S)
      PROVE  Parent[a] \in S
  <2>1. a \in S
    BY <1>2, ChainLeast
  <2> QED BY <1>2, <2>1 DEF Closed
<1> QED BY <1>1, <1>2 DEF Chain

\* The ancestors of an ancestor are ancestors.
LEMMA ChainTransitive ==
    ASSUME NEW b \in Blocks, NEW a \in Chain[b]
    PROVE  a \in Blocks /\ Chain[a] \subseteq Chain[b]
<1>1. Chain[b] \in SUBSET Blocks /\ a \in Blocks
  BY ChainSelf
<1>2. Closed(Chain[b])
  BY ChainClosed DEF Closed
<1> QED BY <1>1, <1>2, ChainLeast

\* A block's chain is the block on top of its parent's.
LEMMA ChainOfParent ==
    ASSUME NEW b \in Blocks, b # Genesis
    PROVE  Parent[b] \in Blocks /\ Chain[b] = {b} \cup Chain[Parent[b]]
<1>1. Parent[b] \in Blocks /\ Parent[b] \in Chain[b]
  BY ChainSelf, ChainClosed
<1>2. {b} \cup Chain[Parent[b]] \subseteq Chain[b]
  BY <1>1, ChainSelf, ChainTransitive
<1> DEFINE S == {b} \cup Chain[Parent[b]]
<1>3. S \in SUBSET Blocks
  BY <1>1, ChainSelf
<1>4. Closed(S)
  <2> SUFFICES ASSUME NEW a \in S, a # Genesis
               PROVE  Parent[a] \in S
    BY DEF Closed
  <2>1. CASE a = b
    BY <1>1, <2>1, ChainSelf
  <2>2. CASE a \in Chain[Parent[b]]
    BY <1>1, <2>2, ChainClosed
  <2> QED BY <2>1, <2>2
<1>5. Chain[b] \subseteq S
  <2> HIDE DEF S
  <2>1. b \in S
    BY DEF S
  <2> QED BY <1>3, <1>4, <2>1, ChainLeast
<1> QED BY <1>1, <1>2, <1>5

\* The genesis block has no other ancestor.
LEMMA ChainOfGenesis ==
    Chain[Genesis] = {Genesis}
<1>1. {Genesis} \in SUBSET Blocks /\ Closed({Genesis}) /\ Genesis \in Blocks
  BY TreeAssumption DEF Closed
<1>2. Chain[Genesis] \subseteq {Genesis}
  BY <1>1, ChainLeast
<1> QED BY <1>1, <1>2, ChainSelf

\* Of two ancestors of a block one is an ancestor of the other.
LEMMA ChainLinear ==
    ASSUME NEW b \in Blocks, NEW x \in Chain[b], NEW y \in Chain[b]
    PROVE  x \in Chain[y] \/ y \in Chain[x]
<1> DEFINE S == {v \in Chain[b] : \A z \in Chain[b] : z \in Chain[v] \/ v \in Chain[z]}
<1>1. S \in SUBSET Blocks /\ b \in S
  BY ChainSelf
<1>2. Closed(S)
  <2> SUFFICES ASSUME NEW v \in S, v # Genesis
               PROVE  Parent[v] \in S
    BY DEF Closed
  <2>1. v \in Blocks /\ Parent[v] \in Blocks /\ Parent[v] \in Chain[b]
    BY ChainClosed, ChainOfParent
  <2>2. Chain[v] = {v} \cup Chain[Parent[v]]
    BY <2>1, ChainOfParent
  <2> SUFFICES ASSUME NEW z \in Chain[b]
               PROVE  z \in Chain[Parent[v]] \/ Parent[v] \in Chain[z]
    BY <2>1
  <2>3. z \in Blocks
    BY ChainSelf
  <2>4. CASE v \in Chain[z]
    BY <2>3, <2>4, ChainClosed
  <2>5. CASE z \in Chain[v] /\ z # v
    BY <2>2, <2>5
  <2>6. CASE z = v
    BY <2>1, <2>6, ChainSelf, ChainClosed
  <2> QED BY <2>4, <2>5, <2>6
<1>3. Chain[b] \subseteq S
  <2> HIDE DEF S
  <2> QED BY <1>1, <1>2, ChainLeast
<1> QED BY <1>3

\* Heights are numbers that rise by one from the parent.
LEMMA HeightType ==
    ASSUME NEW b \in Blocks
    PROVE  /\ IsFiniteSet(Chain[b])
           /\ Height(b) \in Nat /\ Height(b) = Cardinality(Chain[b]) - 1
<1>1. IsFiniteSet(Chain[b])
  BY ChainSelf, FS_Subset, TreeAssumption
<1>2. Cardinality(Chain[b]) \in Nat /\ Cardinality(Chain[b]) # 0
  BY <1>1, ChainSelf, FS_CardinalityType, FS_EmptySet
<1> QED BY <1>1, <1>2 DEF Height, Depth

\* A block is one higher than its parent.
LEMMA HeightOfParent ==
    ASSUME NEW b \in Blocks, b # Genesis
    PROVE  Height(b) = Height(Parent[b]) + 1
<1>1. /\ Parent[b] \in Blocks /\ Chain[b] = Chain[Parent[b]] \cup {b}
      /\ b \notin Chain[Parent[b]]
  BY ChainOfParent, TreeAssumption
<1>2. IsFiniteSet(Chain[Parent[b]]) /\ Cardinality(Chain[Parent[b]]) \in Nat
  BY <1>1, HeightType, FS_CardinalityType
<1>3. Cardinality(Chain[b]) = Cardinality(Chain[Parent[b]]) + 1
  BY <1>1, <1>2, FS_AddElement
<1>4. /\ Height(b) = Cardinality(Chain[b]) - 1
      /\ Height(Parent[b]) = Cardinality(Chain[Parent[b]]) - 1
  BY <1>1, HeightType
<1> QED BY <1>2, <1>3, <1>4

\* The genesis block has height zero.
LEMMA HeightOfGenesis ==
    Height(Genesis) = 0
<1>1. Cardinality(Chain[Genesis]) = 1
  BY ChainOfGenesis, FS_Singleton
<1> QED BY <1>1, HeightType, TreeAssumption

\* A proper ancestor is lower.
LEMMA HeightOfAncestor ==
    ASSUME NEW b \in Blocks, NEW a \in Chain[b]
    PROVE  /\ a \in Blocks /\ Height(a) <= Height(b)
           /\ a # b => Height(a) < Height(b) /\ b \notin Chain[a]
<1>1. a \in Blocks /\ Chain[a] \subseteq Chain[b]
  BY ChainTransitive
<1>2. CASE a = b
  BY <1>2, HeightType
<1>3. CASE a # b
  <2>1. b # Genesis
    BY <1>3, ChainOfGenesis
  <2>2. a \in Chain[Parent[b]] /\ Parent[b] \in Blocks /\ b \notin Chain[Parent[b]]
    BY <1>3, <2>1, ChainOfParent, TreeAssumption
  <2>3. b \notin Chain[a]
    BY <2>2, ChainTransitive
  <2>4. /\ Cardinality(Chain[a]) <= Cardinality(Chain[b])
        /\ Cardinality(Chain[a]) # Cardinality(Chain[b])
    BY <1>1, <2>3, ChainSelf, HeightType, FS_Subset
  <2>5. /\ Height(a) \in Nat /\ Height(b) \in Nat
        /\ Height(a) = Cardinality(Chain[a]) - 1 /\ Height(b) = Cardinality(Chain[b]) - 1
        /\ Cardinality(Chain[a]) \in Nat /\ Cardinality(Chain[b]) \in Nat
    BY <1>1, HeightType, FS_CardinalityType
  <2> QED BY <1>1, <2>3, <2>4, <2>5
<1> QED BY <1>2, <1>3

\* A set of numbers has a least one.
LEMMA LeastNatural ==
    ASSUME NEW S \in SUBSET Nat, S # {}
    PROVE  \E n \in S : \A m \in S : n <= m
<1> DEFINE R == OpToRel(<, Nat)
<1>1. \A m, n \in Nat : <<m, n>> \in R <=> m < n
  BY DEF OpToRel
<1>2. IsWellFoundedOn(R, Nat)
  BY NatLessThanWellFounded
<1> HIDE DEF R
<1>3. PICK n \in S : \A m \in S : ~(<<m, n>> \in R)
  BY <1>2, WFMin
<1>4. ASSUME NEW m \in S
      PROVE  n <= m
  <2>1. m \in Nat /\ n \in Nat
    OBVIOUS
  <2>2. ~(m < n)
    BY <1>1, <1>3, <2>1, Zenon
  <2> QED BY <2>1, <2>2
<1> QED BY <1>4

\* A set of blocks has a lowest one.
LEMMA LowestIn ==
    ASSUME NEW S \in SUBSET Blocks, S # {}
    PROVE  Lowest(S) \in S /\ \A c \in S : Height(Lowest(S)) <= Height(c)
<1> DEFINE H == {Height(b) : b \in S}
<1>1. H \in SUBSET Nat /\ H # {}
  BY HeightType
<1>2. PICK n \in H : \A m \in H : n <= m
  <2> HIDE DEF H
  <2> QED BY <1>1, LeastNatural
<1>3. \E b \in S : \A c \in S : Height(b) <= Height(c)
  BY <1>2
<1> QED BY <1>3 DEF Lowest

\* A chain has a block of every height up to its top.
LEMMA ChainHasHeight ==
    ASSUME NEW b \in Blocks, NEW k \in Nat, k <= Height(b)
    PROVE  \E a \in Chain[b] : Height(a) = k
<1> DEFINE S == {a \in Chain[b] : Height(a) >= k}
           v == Lowest(S)
<1>1. S \in SUBSET Blocks /\ b \in S
  BY ChainSelf, HeightType
<1>2. v \in S /\ \A c \in S : Height(v) <= Height(c)
  <2> HIDE DEF S
  <2> QED BY <1>1, LowestIn
<1>3. v \in Blocks /\ v \in Chain[b] /\ Height(v) >= k /\ Height(v) \in Nat
  BY <1>1, <1>2, HeightType
<1>4. CASE v = Genesis
  BY <1>3, <1>4, HeightOfGenesis
<1>5. CASE v # Genesis
  <2>1. Parent[v] \in Blocks /\ Parent[v] \in Chain[b] /\ Height(v) = Height(Parent[v]) + 1
    BY <1>3, <1>5, ChainClosed, ChainOfParent, HeightOfParent
  <2>2. Height(Parent[v]) \in Nat
    BY <2>1, HeightType
  <2>3. CASE Height(v) = k
    BY <1>3, <2>3
  <2>4. CASE Height(v) # k
    <3>1. Parent[v] \in S
      BY <1>3, <2>1, <2>2, <2>4
    <3> QED BY <1>2, <2>1, <2>2, <3>1
  <2> QED BY <2>3, <2>4
<1> QED BY <1>4, <1>5

\* A set of ancestors of a block has a highest one.
LEMMA HighestIn ==
    ASSUME NEW t \in Blocks, NEW S \in SUBSET Chain[t], S # {}
    PROVE  Highest(S) \in S /\ \A c \in S : Height(Highest(S)) >= Height(c)
<1> DEFINE D == {Height(t) - Height(b) : b \in S}
<1>1. \A b \in S : b \in Blocks /\ Height(b) \in Nat /\ Height(t) - Height(b) \in Nat
  <2> SUFFICES ASSUME NEW b \in S
               PROVE  b \in Blocks /\ Height(b) \in Nat /\ Height(t) - Height(b) \in Nat
    OBVIOUS
  <2>1. b \in Blocks /\ Height(b) <= Height(t)
    BY HeightOfAncestor
  <2> QED BY <2>1, HeightType
<1>2. D \in SUBSET Nat /\ D # {}
  BY <1>1
<1>3. PICK n \in D : \A m \in D : n <= m
  <2> HIDE DEF D
  <2> QED BY <1>2, LeastNatural
<1>4. PICK b \in S : \A c \in S : Height(t) - Height(b) <= Height(t) - Height(c)
  BY <1>3
<1>5. \A c \in S : Height(b) >= Height(c)
  BY <1>1, <1>4, HeightType
<1> QED BY <1>5 DEF Highest

\* Two ancestors of one block at the same height are the same.
LEMMA SameHeight ==
    ASSUME NEW b \in Blocks, NEW x \in Chain[b], NEW y \in Chain[b], Height(x) = Height(y)
    PROVE  x = y
<1>1. x \in Blocks /\ y \in Blocks /\ Height(x) \in Nat /\ Height(y) \in Nat
  BY ChainSelf, HeightType
<1>2. CASE x \in Chain[y]
  BY <1>1, <1>2, HeightOfAncestor
<1>3. CASE y \in Chain[x]
  BY <1>1, <1>3, HeightOfAncestor
<1> QED BY <1>2, <1>3, ChainLinear

\* Of two ancestors the lower one is an ancestor of the other.
LEMMA LowerIsAncestor ==
    ASSUME NEW b \in Blocks, NEW x \in Chain[b], NEW y \in Chain[b], Height(x) <= Height(y)
    PROVE  x \in Chain[y]
<1>1. x \in Blocks /\ y \in Blocks /\ Height(x) \in Nat /\ Height(y) \in Nat
  BY ChainSelf, HeightType
<1>2. CASE y \in Chain[x] /\ x # y
  BY <1>1, <1>2, HeightOfAncestor
<1>3. CASE x = y
  BY <1>1, <1>3, ChainSelf
<1> QED BY <1>2, <1>3, ChainLinear
=============================================================================
