----------------------- MODULE PolicyResolution_proofs -----------------------
(***************************************************************************)
(* The resolution of a call's policies and the pipeline of evaluate are    *)
(* safe for every store, every priority and every event, not only for the  *)
(* ones TLC enumerates.                                                    *)
(*                                                                         *)
(* The argument about the resolvers rests on one fact, FirstLeads: the     *)
(* first of a stable sort exists and leads every other item.  From it the  *)
(* strictest hard overlay decides among its kind, and the winner of        *)
(* _resolve_with_packs is at least as strict as the base policies alone    *)
(* and as the overlays alone.  A store with layers taken away has the      *)
(* remaining candidates, which StricterParts compares side by side.        *)
(*                                                                         *)
(* Then Fleet, which brings policies from a hub to the store that is       *)
(* resolved, as an instance with variables of its own: what holds for any  *)
(* number of replicas, and what holds for a spoke of one.                  *)
(***************************************************************************)
EXTENDS PolicyResolution, WellFoundedInduction, TLAPS

-----------------------------------------------------------------------------
(* The first of a sort exists and leads all others. *)

Below == {p \in Nat \X Nat : p[1] < p[2]}

\* The order of the natural numbers as a relation.
LEMMA BelowPair == ASSUME NEW m \in Nat, NEW n \in Nat, n < m PROVE <<n, m>> \in Below
<1>1. <<n, m>> \in Nat \X Nat
  OBVIOUS
<1>2. <<n, m>>[1] < <<n, m>>[2]
  OBVIOUS
<1> QED
  BY <1>1, <1>2, Zenon DEF Below

\* A set of natural numbers that is not empty has a least element.
LEMMA LeastNat ==
  ASSUME NEW S, S \subseteq Nat, S # {}
  PROVE  \E m \in S : \A n \in S : m <= n
<1>1. IsWellFoundedOn(Below, Nat)
  BY NatLessThanWellFounded DEF OpToRel, Below
<1>2. PICK m \in S : \A n \in S : ~(<<n, m>> \in Below)
  BY <1>1, WFMin
<1>3. ASSUME NEW n \in S PROVE m <= n
  <2>1. n < m \/ m <= n
    OBVIOUS
  <2> QED
    BY <1>2, <2>1, BelowPair
<1> QED
  BY <1>3

\* So has a set of integers with a lower bound.
LEMMA LeastInt ==
  ASSUME NEW S, S \subseteq Int, S # {}, NEW b \in Int, \A n \in S : -b <= n
  PROVE  \E m \in S : \A n \in S : m <= n
<1> DEFINE T == {n + b : n \in S}
<1>1. \A n \in S : n + b \in Nat
  OBVIOUS
<1>2. T \subseteq Nat /\ T # {}
  BY <1>1
<1> HIDE DEF T
<1>3. PICK t \in T : \A u \in T : t <= u
  BY <1>2, LeastNat
<1>4. PICK m \in S : t = m + b
  BY DEF T
<1>5. ASSUME NEW n \in S PROVE m <= n
  <2>1. n + b \in T
    BY DEF T
  <2> QED
    BY <1>3, <1>4, <2>1
<1> QED
  BY <1>5

\* Every pair of a sort key lies in a range.
Keyed(items, key, b) ==
    \A i \in items : /\ i.at \in Nat
                     /\ key[i] = <<key[i][1], key[i][2]>>
                     /\ key[i][1] \in -b..b /\ key[i][2] \in -b..b

\* The first of a stable sort is one of the items and comes before every other.
LEMMA FirstLeads ==
  ASSUME NEW items, items # {}, NEW key, NEW b \in Nat, Keyed(items, key, b)
  PROVE  /\ First(items, key) \in items
         /\ \A y \in items : Leads(First(items, key), y, key)
<1> DEFINE S1 == {key[i][1] : i \in items}
<1>1. PICK x1 \in items : \A y \in items : key[x1][1] <= key[y][1]
  <2>1. S1 \subseteq Int /\ S1 # {} /\ b \in Int /\ \A n \in S1 : -b <= n
    BY DEF Keyed
  <2>2. \E m \in S1 : \A n \in S1 : m <= n
    <3> HIDE DEF S1
    <3> QED BY <2>1, LeastInt
  <2> QED
    BY <2>2
<1> DEFINE I2 == {i \in items : key[i][1] = key[x1][1]}
           S2 == {key[i][2] : i \in I2}
<1>2. PICK x2 \in I2 : \A y \in I2 : key[x2][2] <= key[y][2]
  <2>1. S2 \subseteq Int /\ S2 # {} /\ b \in Int /\ \A n \in S2 : -b <= n
    BY DEF Keyed
  <2>2. \E m \in S2 : \A n \in S2 : m <= n
    <3> HIDE DEF S2
    <3> QED BY <2>1, LeastInt
  <2> QED
    BY <2>2
<1> DEFINE I3 == {i \in I2 : key[i][2] = key[x2][2]}
           S3 == {i.at : i \in I3}
<1>3. PICK x3 \in I3 : \A y \in I3 : x3.at <= y.at
  <2>1. S3 \subseteq Nat /\ S3 # {}
    BY DEF Keyed
  <2>2. \E m \in S3 : \A n \in S3 : m <= n
    <3> HIDE DEF S3
    <3> QED BY <2>1, LeastNat
  <2> QED
    BY <2>2
<1>4. ASSUME NEW y \in items PROVE Leads(x3, y, key)
  <2>1. key[x3][1] = key[x1][1] /\ key[x3][2] = key[x2][2] /\ x3 \in items
    OBVIOUS
  <2>2. key[x1][1] <= key[y][1]
    BY <1>1
  <2>3. CASE key[x1][1] # key[y][1]
    BY <2>1, <2>2, <2>3 DEF Leads, Keyed
  <2>4. CASE key[x1][1] = key[y][1]
    <3>1. y \in I2 /\ key[x2][2] <= key[y][2]
      BY <1>2, <2>4
    <3>2. CASE key[x2][2] # key[y][2]
      BY <2>1, <2>4, <3>1, <3>2 DEF Leads, Keyed
    <3>3. CASE key[x2][2] = key[y][2]
      <4>1. x3.at <= y.at
        BY <1>3, <3>1, <3>3
      <4>2. key[x3] = key[y]
        BY <2>1, <2>4, <3>3 DEF Keyed
      <4> QED
        BY <4>1, <4>2 DEF Leads
    <3> QED
      BY <3>2, <3>3
  <2> QED
    BY <2>3, <2>4
<1>5. x3 \in items
  OBVIOUS
<1> QED
  BY <1>4, <1>5 DEF First

-----------------------------------------------------------------------------
(* What each resolver returns. *)

Item == [layer : Layers, at : Nat, dec : DOMAIN Rank, prio : -MaxPriority..MaxPriority, mode : {"block", "audit"}]

\* The ranks of the decisions.
LEMMA Ranks == \A d \in DOMAIN Rank : Rank[d] \in 0..3
  BY DEF Rank

\* A decision's effective rank is a rank, and it is the rank of the decision where the policy enforces.
LEMMA EffectiveRanks ==
  ASSUME NEW i \in Item
  PROVE  EffectiveRank(i) \in 0..3
<1>1. i.dec \in DOMAIN Rank /\ Rank[i.dec] \in 0..3 /\ Rank.audit \in 0..3
  BY Ranks DEF Item, Rank
<1> QED
  BY <1>1 DEF EffectiveRank

\* Priority picks one of the policies it is given.
LEMMA ByPriorityPicks ==
  ASSUME NEW items \in SUBSET Item, items # {}
  PROVE  ByPriority(items) \in items
<1> DEFINE key == [i \in items |-> <<-i.prio, Rank[i.dec]>>]
           b == MaxPriority + 3
<1>1. b \in Nat
  BY PriorityAssumption
<1>2. ASSUME NEW i \in items
      PROVE  i.at \in Nat /\ -i.prio \in -b..b /\ Rank[i.dec] \in -b..b
  BY Ranks, PriorityAssumption DEF Item
<1>3. Keyed(items, key, b)
  BY <1>2 DEF Keyed
<1> HIDE DEF b
<1>4. First(items, key) \in items
  <2> HIDE DEF key
  <2> QED BY <1>1, <1>3, FirstLeads
<1> QED
  BY <1>4 DEF ByPriority

\* Of the hard overlays the strictest decides, counted by what its mode leaves of it.
LEMMA HardOverlayIsStrictest ==
  ASSUME NEW items \in SUBSET Item, items # {}
  PROVE  /\ ResolveHardOverlay(items) \in items
         /\ \A y \in items : EffectiveRank(ResolveHardOverlay(items)) <= EffectiveRank(y)
<1> DEFINE key == [i \in items |-> <<EffectiveRank(i), -i.prio>>]
           b == MaxPriority + 3
           x == First(items, key)
<1>1. b \in Nat
  BY PriorityAssumption
<1>2. ASSUME NEW i \in items
      PROVE  i.at \in Nat /\ -i.prio \in -b..b /\ EffectiveRank(i) \in -b..b
  <2>1. EffectiveRank(i) \in 0..3
    BY EffectiveRanks
  <2> QED
    BY <2>1, PriorityAssumption DEF Item
<1>3. Keyed(items, key, b)
  BY <1>2 DEF Keyed
<1>4. x \in items /\ \A y \in items : Leads(x, y, key)
  <2> HIDE DEF key, b
  <2> QED BY <1>1, <1>3, FirstLeads
<1> HIDE DEF x
<1>5. ASSUME NEW y \in items PROVE EffectiveRank(x) <= EffectiveRank(y)
  <2>1. EffectiveRank(x) \in 0..3 /\ EffectiveRank(y) \in 0..3
    BY <1>4, EffectiveRanks
  <2>2. key[x] = <<EffectiveRank(x), -x.prio>> /\ key[y] = <<EffectiveRank(y), -y.prio>>
    BY <1>4
  <2>3. Leads(x, y, key)
    BY <1>4
  <2> QED
    BY <2>1, <2>2, <2>3 DEF Leads
<1> QED
  BY <1>4, <1>5 DEF ResolveHardOverlay, x

\* The pack family is decided by one of its own.
LEMMA PackFamilyPicks ==
  ASSUME NEW items \in SUBSET Item, items # {}
  PROVE  ResolvePackFamily(items) \in items
<1> DEFINE weaken == Layered(items, {"pack_weaken"})
           k1 == [i \in weaken |-> <<-Rank[i.dec], -i.prio>>]
           k2 == [i \in items |-> <<Rank[i.dec], -i.prio>>]
           b == MaxPriority + 3
<1>1. b \in Nat
  BY PriorityAssumption
<1>2. ASSUME NEW i \in items
      PROVE  i.at \in Nat /\ -i.prio \in -b..b /\ Rank[i.dec] \in -b..b /\ -Rank[i.dec] \in -b..b
  BY Ranks, PriorityAssumption DEF Item
<1>3. weaken \subseteq items
  BY DEF Layered
<1>4. Keyed(weaken, k1, b)
  BY <1>2, <1>3 DEF Keyed
<1>5. Keyed(items, k2, b)
  BY <1>2 DEF Keyed
<1> HIDE DEF b
<1>6. weaken # {} => First(weaken, k1) \in weaken
  <2> HIDE DEF k1, weaken
  <2> QED BY <1>1, <1>4, FirstLeads
<1>7. First(items, k2) \in items
  <2> HIDE DEF k2
  <2> QED BY <1>1, <1>5, FirstLeads
<1> QED
  BY <1>3, <1>6, <1>7 DEF ResolvePackFamily

\* Among base policies an observer decides only where it is stricter than the policy that enforces.
LEMMA PrecedencePicks ==
  ASSUME NEW items \in SUBSET Item, items # {}
  PROVE  /\ ResolvePrecedence(items) \in items
         /\ Enforcing(items) # {} =>
               EffectiveRank(ResolvePrecedence(items)) <= EffectiveRank(ByPriority(Enforcing(items)))
<1>1. Enforcing(items) \in SUBSET Item /\ Enforcing(items) \subseteq items
  BY DEF Enforcing
<1>2. Observing(items) \in SUBSET Item /\ Observing(items) \subseteq items
  BY DEF Observing
<1>3. Enforcing(items) # {} => ByPriority(Enforcing(items)) \in Enforcing(items)
  BY <1>1, ByPriorityPicks
<1>4. Observing(items) # {} => ByPriority(Observing(items)) \in Observing(items)
  BY <1>2, ByPriorityPicks
<1>5. ByPriority(items) \in items
  BY ByPriorityPicks
<1>6. Enforcing(items) # {} => EffectiveRank(ByPriority(Enforcing(items))) \in 0..3
  BY <1>1, <1>3, EffectiveRanks
<1>7. Observing(items) # {} => EffectiveRank(ByPriority(Observing(items))) \in 0..3
  BY <1>2, <1>4, EffectiveRanks
<1> QED
  BY <1>1, <1>2, <1>3, <1>4, <1>5, <1>6, <1>7 DEF ResolvePrecedence

Hard(items) == items \ Layered(items, PackFamily)

\* No overlay of the hard kind is loosened by the packs or by their weakening.
LEMMA OverlayCoversHard ==
  ASSUME NEW items \in SUBSET Item, items # {}
  PROVE  /\ ResolveOverlay(items) \in items
         /\ Hard(items) # {} =>
               EffectiveRank(ResolveOverlay(items)) <= EffectiveRank(ResolveHardOverlay(Hard(items)))
<1> DEFINE packs == Layered(items, PackFamily)
<1>1. packs \in SUBSET Item /\ packs \subseteq items
  BY DEF Layered
<1>2. Hard(items) \in SUBSET Item /\ Hard(items) \subseteq items
  BY DEF Hard
<1>3. packs # {} => ResolvePackFamily(packs) \in packs
  <2> HIDE DEF packs
  <2> QED BY <1>1, PackFamilyPicks
<1>4. Hard(items) # {} => ResolveHardOverlay(Hard(items)) \in Hard(items)
  BY <1>2, HardOverlayIsStrictest
<1>5. packs = {} => Hard(items) = items
  BY DEF Hard
<1>6. packs # {} => EffectiveRank(ResolvePackFamily(packs)) \in 0..3
  <2> HIDE DEF packs
  <2> QED BY <1>1, <1>3, EffectiveRanks
<1>7. Hard(items) # {} => EffectiveRank(ResolveHardOverlay(Hard(items))) \in 0..3
  BY <1>2, <1>4, EffectiveRanks
<1> QED
  BY <1>1, <1>2, <1>3, <1>4, <1>5, <1>6, <1>7 DEF ResolveOverlay, Hard

Bases(items) == Layered(items, BaseLayers)
Overlays(items) == items \ Bases(items)

\* The winner is at least as strict as what the base policies and the overlays decide on their own.
LEMMA WinnerCoversBoth ==
  ASSUME NEW items \in SUBSET Item, items # {}
  PROVE  /\ ResolveWithPacks(items) \in items
         /\ Bases(items) # {} =>
               EffectiveRank(ResolveWithPacks(items)) <= EffectiveRank(ResolvePrecedence(Bases(items)))
         /\ Overlays(items) # {} =>
               EffectiveRank(ResolveWithPacks(items)) <= EffectiveRank(ResolveOverlay(Overlays(items)))
<1>1. Bases(items) \in SUBSET Item /\ Bases(items) \subseteq items
  BY DEF Bases, Layered
<1>2. Overlays(items) \in SUBSET Item /\ Overlays(items) \subseteq items
  BY DEF Overlays
<1>3. Bases(items) # {} => ResolvePrecedence(Bases(items)) \in Bases(items)
  BY <1>1, PrecedencePicks
<1>4. Overlays(items) # {} => ResolveOverlay(Overlays(items)) \in Overlays(items)
  BY <1>2, OverlayCoversHard
<1>5. Bases(items) = {} => Overlays(items) = items
  BY DEF Overlays
<1>6. Bases(items) # {} => EffectiveRank(ResolvePrecedence(Bases(items))) \in 0..3
  BY <1>1, <1>3, EffectiveRanks
<1>7. Overlays(items) # {} => EffectiveRank(ResolveOverlay(Overlays(items))) \in 0..3
  BY <1>2, <1>4, EffectiveRanks
<1>8. ResolveWithPacks(items) = IF Bases(items) = {} THEN ResolveOverlay(Overlays(items))
                                ELSE IF Overlays(items) = {} THEN ResolvePrecedence(Bases(items))
                                ELSE IF EffectiveRank(ResolveOverlay(Overlays(items)))
                                          < EffectiveRank(ResolvePrecedence(Bases(items)))
                                THEN ResolveOverlay(Overlays(items)) ELSE ResolvePrecedence(Bases(items))
  BY DEF ResolveWithPacks, Bases, Overlays
<1> QED
  BY <1>1, <1>2, <1>3, <1>4, <1>5, <1>6, <1>7, <1>8

-----------------------------------------------------------------------------
(* The candidates of a store. *)

Store(s) == DOMAIN s \subseteq Layers /\ s \in [DOMAIN s -> Policy]

\* The places in the list of candidates.
LEMMA Positions == \A l \in Layers : Position[l] \in Nat
  BY DEF Layers, Position

\* A candidate is well typed.
LEMMA CandidateType ==
  ASSUME NEW s, Store(s), NEW l \in DOMAIN s, NEW at \in Nat
  PROVE  Candidate(s, l, at) \in Item
<1>1. l \in Layers /\ s[l] \in Policy
  BY DEF Store
<1>2. s[l].dec \in DOMAIN Rank /\ s[l].prio \in -MaxPriority..MaxPriority /\ s[l].mode \in {"block", "audit"}
  BY <1>1 DEF Policy
<1> QED
  BY <1>1, <1>2 DEF Candidate, Item

\* The layers that take part in a call of one namespace.
Taking(s, covers, workload) ==
    {l \in DOMAIN s : (l = "deployment" => workload) /\ ~(l = "baseline" /\ Superseded(s, covers))}

\* The candidates, one for each layer that takes part.
LEMMA CandidatesAre ==
  ASSUME NEW s, NEW covers, NEW workload
  PROVE  Candidates(s, covers, workload) = {Candidate(s, l, Position[l]) : l \in Taking(s, covers, workload)}
  BY DEF Candidates, Taking

\* The candidates of a store are well typed.
LEMMA CandidatesType ==
  ASSUME NEW s, Store(s), NEW covers, NEW workload
  PROVE  Candidates(s, covers, workload) \in SUBSET Item
<1>1. ASSUME NEW l \in Taking(s, covers, workload) PROVE Candidate(s, l, Position[l]) \in Item
  <2>1. l \in DOMAIN s /\ Position[l] \in Nat
    BY Positions DEF Taking, Store
  <2> QED
    BY <2>1, CandidateType
<1> QED
  BY <1>1, CandidatesAre

\* A part of a store is a store, and a layer has the same candidate in both.
Part(s, layers) == [l \in layers |-> s[l]]

LEMMA PartOfStore ==
  ASSUME NEW s, Store(s), NEW layers, layers \subseteq DOMAIN s
  PROVE  /\ Store(Part(s, layers)) /\ DOMAIN Part(s, layers) = layers
         /\ \A l \in layers : \A at : Candidate(Part(s, layers), l, at) = Candidate(s, l, at)
         /\ \A covers : {"controls", "baseline"} \cap DOMAIN s \subseteq layers =>
               (Superseded(Part(s, layers), covers) <=> Superseded(s, covers))
<1>1. Store(Part(s, layers)) /\ DOMAIN Part(s, layers) = layers
  BY DEF Store, Part
<1>2. \A l \in layers : Part(s, layers)[l] = s[l]
  BY DEF Part
<1>3. \A l \in layers : \A at : Candidate(Part(s, layers), l, at) = Candidate(s, l, at)
  BY <1>2 DEF Candidate
<1>4. ASSUME NEW covers, {"controls", "baseline"} \cap DOMAIN s \subseteq layers
      PROVE  Superseded(Part(s, layers), covers) <=> Superseded(s, covers)
  <2>1. CASE {"controls", "baseline"} \subseteq DOMAIN s
    <3>1. {"controls", "baseline"} \subseteq layers /\ Part(s, layers)["controls"] = s["controls"]
      BY <1>2, <1>4, <2>1
    <3> QED
      BY <1>1, <2>1, <3>1 DEF Superseded
  <2>2. CASE ~({"controls", "baseline"} \subseteq DOMAIN s)
    BY <1>1, <2>2 DEF Superseded
  <2> QED
    BY <2>1, <2>2
<1> QED
  BY <1>1, <1>3, <1>4

\* The winner is at least as strict as every candidate that is neither a base policy nor of the packs.
LEMMA WinnerCoversFloor ==
  ASSUME NEW items \in SUBSET Item, NEW x \in items, x.layer \notin BaseLayers \cup PackFamily
  PROVE  EffectiveRank(ResolveWithPacks(items)) <= EffectiveRank(x)
<1> DEFINE over == Overlays(items)
<1>1. x \in over /\ over \in SUBSET Item
  BY DEF Overlays, Bases, Layered
<1>2. x \in Hard(over) /\ Hard(over) \in SUBSET Item
  BY <1>1 DEF Hard, Layered
<1>3. EffectiveRank(ResolveHardOverlay(Hard(over))) <= EffectiveRank(x)
      /\ ResolveHardOverlay(Hard(over)) \in Hard(over)
  BY <1>2, HardOverlayIsStrictest
<1> HIDE DEF over
<1>4. EffectiveRank(ResolveOverlay(over)) <= EffectiveRank(ResolveHardOverlay(Hard(over)))
      /\ ResolveOverlay(over) \in over
  BY <1>1, <1>2, OverlayCoversHard
<1>5. EffectiveRank(ResolveWithPacks(items)) <= EffectiveRank(ResolveOverlay(over))
      /\ ResolveWithPacks(items) \in items
  BY <1>1, WinnerCoversBoth DEF over
<1>6. /\ EffectiveRank(x) \in 0..3 /\ EffectiveRank(ResolveHardOverlay(Hard(over))) \in 0..3
      /\ EffectiveRank(ResolveOverlay(over)) \in 0..3 /\ EffectiveRank(ResolveWithPacks(items)) \in 0..3
  BY <1>1, <1>2, <1>3, <1>4, <1>5, EffectiveRanks
<1> QED
  BY <1>3, <1>4, <1>5, <1>6

-----------------------------------------------------------------------------
(* The inductive invariant: what is answered is the function of what was asked. *)

ResolvedOut ==
    LET all == Candidates(in.store, in.covers, in.workload)
        union == CandidatesUnion(in.store, in.covers)
    IN [one |-> IF all = {} THEN <<>> ELSE <<ResolveWithPacks(all)>>,
        union |-> IF union = {} THEN <<>> ELSE <<ResolveWithPacks(union)>>]
DecidedOut ==
    [fresh |-> Evaluated(in.e),
     cached |-> IF in.e.fault # "none" \/ BaseDecision(in.e).decision = "raise" THEN Evaluated(in.e)
                ELSE FromCache(BaseDecision(in.e), in.e)]

IndInv ==
    /\ in \in Inputs
    /\ out # <<>> /\ in.kind = "resolve" => out = ResolvedOut
    /\ out # <<>> /\ in.kind = "evaluate" => out = DecidedOut

\* The invariant holds in every reachable state.
LEMMA Invariance == Spec => []IndInv
<1>1. Init => IndInv
  BY DEF Init, IndInv
<1>2. IndInv /\ [Next]_vars => IndInv'
  <2> SUFFICES ASSUME IndInv, [Next]_vars PROVE IndInv'
    OBVIOUS
  <2>1. CASE Resolve
    <3>1. in' = in /\ in.kind = "resolve" /\ out' = ResolvedOut
      BY <2>1 DEF Resolve, ResolvedOut
    <3>2. ResolvedOut' = ResolvedOut
      BY <3>1 DEF ResolvedOut
    <3> QED
      BY <3>1, <3>2 DEF IndInv
  <2>2. CASE Decide
    <3>1. in' = in /\ in.kind = "evaluate" /\ out' = DecidedOut
      BY <2>2 DEF Decide, DecidedOut
    <3>2. DecidedOut' = DecidedOut
      BY <3>1 DEF DecidedOut
    <3> QED
      BY <3>1, <3>2 DEF IndInv
  <2>3. CASE UNCHANGED vars
    BY <2>3 DEF vars, IndInv, ResolvedOut, DecidedOut
  <2> QED
    BY <2>1, <2>2, <2>3 DEF Next
<1> QED
  BY <1>1, <1>2, PTL DEF Spec

\* What is known once a call has been resolved.
LEMMA ResolveInput ==
  ASSUME IndInv, Resolved
  PROVE  Store(in.store) /\ in.covers \in BOOLEAN /\ in.workload \in BOOLEAN /\ out = ResolvedOut
<1>1. in \in [kind : {"resolve"}, store : Stores, covers : BOOLEAN, workload : BOOLEAN]
  BY DEF IndInv, Inputs, Resolved
<1> QED
  BY <1>1, StoresAssumption DEF Store, IndInv, Resolved

\* The effective rank of a floor's candidate.
LEMMA FloorRanks ==
  ASSUME Store(in.store), NEW layer \in Floors \cap DOMAIN in.store, NEW at \in Nat
  PROVE  EffectiveRank(Candidate(in.store, layer, at)) = FloorRank(layer)
<1>1. in.store[layer].dec \in DOMAIN Rank /\ in.store[layer].mode \in {"block", "audit"}
  BY DEF Store, Policy
<1>2. layer \in Modeless <=> layer \in {"guardrail", "remediation"}
  BY DEF Floors, Modeless, PackFamily
<1>3. DOMAIN Rank = {"block", "escalate", "audit", "allow"} /\ Rank["audit"] = 2 /\ Rank["allow"] = 3
  BY DEF Rank
<1> QED
  BY <1>1, <1>2, <1>3 DEF Candidate, EffectiveRank, FloorRank

\* FloorsHold in the states of the invariant: a floor is a candidate, and the winner covers it.
LEMMA Floored == ASSUME IndInv, Resolved PROVE FloorsHold
<1>1. Store(in.store) /\ out = ResolvedOut
  BY ResolveInput
<1> DEFINE all == Candidates(in.store, in.covers, in.workload)
           union == CandidatesUnion(in.store, in.covers)
           others == DOMAIN in.store \ {"mcp", "namespace", "deployment", "cluster"}
<1>2. all \in SUBSET Item
  BY <1>1, CandidatesType
<1>3. /\ Store(Part(in.store, others)) /\ DOMAIN Part(in.store, others) = others
      /\ \A l \in others : \A at : Candidate(Part(in.store, others), l, at) = Candidate(in.store, l, at)
      /\ Superseded(Part(in.store, others), in.covers) <=> Superseded(in.store, in.covers)
  BY <1>1, PartOfStore
<1>4. union = Candidates(Part(in.store, others), in.covers, FALSE)
                 \cup {Candidate(in.store, l, 14) : l \in DOMAIN in.store \cap {"cluster"}}
  BY DEF CandidatesUnion, Part
<1>5. union \in SUBSET Item
  <2>1. Candidates(Part(in.store, others), in.covers, FALSE) \in SUBSET Item
    BY <1>3, CandidatesType
  <2>2. \A l \in DOMAIN in.store \cap {"cluster"} : Candidate(in.store, l, 14) \in Item
    BY <1>1, CandidateType
  <2> QED
    BY <1>4, <2>1, <2>2
<1>6. ASSUME NEW layer \in Floors \cap DOMAIN in.store, Binding(layer)
      PROVE  /\ EffectiveRank(out.one[1]) <= FloorRank(layer)
             /\ layer # "mcp" => EffectiveRank(out.union[1]) <= FloorRank(layer)
  <2>1. layer \in Layers /\ Position[layer] \in Nat
    BY <1>1, Positions DEF Store
  <2>2. layer \notin BaseLayers \cup PackFamily /\ layer # "deployment" /\ layer # "namespace"
    BY DEF Floors, BaseLayers, PackFamily
  <2>3. ~(layer = "baseline" /\ Superseded(in.store, in.covers))
    BY <1>6 DEF Binding, Superseded
  <2>4. Candidate(in.store, layer, Position[layer]) \in all
    <3>1. layer \in Taking(in.store, in.covers, in.workload)
      BY <2>2, <2>3 DEF Taking
    <3> QED
      BY <3>1, CandidatesAre
  <2>5. out.one = <<ResolveWithPacks(all)>>
    BY <1>1, <2>4 DEF ResolvedOut
  <2>6. \A at \in Nat : /\ EffectiveRank(Candidate(in.store, layer, at)) = FloorRank(layer)
                        /\ Candidate(in.store, layer, at).layer = layer
    BY <1>1, FloorRanks DEF Candidate
  <2>7. EffectiveRank(ResolveWithPacks(all)) <= FloorRank(layer)
    <3> HIDE DEF all
    <3> QED BY <1>2, <2>1, <2>2, <2>4, <2>6, WinnerCoversFloor
  <2>8. ASSUME layer # "mcp" PROVE EffectiveRank(out.union[1]) <= FloorRank(layer)
    <3>1. PICK at \in Nat : Candidate(in.store, layer, at) \in union
      <4>1. CASE layer = "cluster"
        <5>1. Candidate(in.store, "cluster", 14) \in union
          BY <1>4, <1>6, <4>1
        <5> QED
          BY <4>1, <5>1
      <4>2. CASE layer # "cluster"
        <5>1. layer \in others
          BY <2>2, <2>8, <4>2
        <5>2. layer \in Taking(Part(in.store, others), in.covers, FALSE)
          BY <1>3, <2>2, <2>3, <5>1 DEF Taking
        <5>3. Candidate(in.store, layer, Position[layer]) \in Candidates(Part(in.store, others), in.covers, FALSE)
          BY <1>3, <5>1, <5>2, CandidatesAre
        <5> QED
          BY <1>4, <2>1, <5>3
      <4> QED
        BY <4>1, <4>2
    <3>2. out.union = <<ResolveWithPacks(union)>>
      BY <1>1, <3>1 DEF ResolvedOut
    <3>3. EffectiveRank(ResolveWithPacks(union)) <= FloorRank(layer)
      <4> HIDE DEF union
      <4> QED BY <1>5, <2>2, <2>6, <3>1, WinnerCoversFloor
    <3> QED
      BY <3>2, <3>3
  <2> QED
    BY <2>5, <2>7, <2>8
<1> QED
  BY <1>6 DEF FloorsHold

-----------------------------------------------------------------------------
(* A store with a part of its layers taken away. *)

\* Taking layers out of a store takes their candidates away and leaves the others.
LEMMA CandidatesOfPart ==
  ASSUME NEW s, Store(s), NEW layers, layers \subseteq DOMAIN s, NEW covers, NEW workload,
         {"controls", "baseline"} \cap DOMAIN s \subseteq layers
  PROVE  Candidates(Part(s, layers), covers, workload)
            = {x \in Candidates(s, covers, workload) : x.layer \in layers}
<1>1. /\ DOMAIN Part(s, layers) = layers
      /\ \A l \in layers : \A at : Candidate(Part(s, layers), l, at) = Candidate(s, l, at)
      /\ Superseded(Part(s, layers), covers) <=> Superseded(s, covers)
  BY PartOfStore
<1>2. Taking(Part(s, layers), covers, workload) = Taking(s, covers, workload) \cap layers
  BY <1>1 DEF Taking
<1>3. Candidates(Part(s, layers), covers, workload)
         = {Candidate(s, l, Position[l]) : l \in Taking(s, covers, workload) \cap layers}
  BY <1>1, <1>2, CandidatesAre
<1>4. \A l : Candidate(s, l, Position[l]).layer = l
  BY DEF Candidate
<1> QED
  BY <1>3, <1>4, CandidatesAre

\* If the base policies and the overlays of one list are each as strict as those of another, its
\* winner is as strict as the other's.
LEMMA StricterParts ==
  ASSUME NEW items \in SUBSET Item, items # {}, NEW less \in SUBSET Item, less # {},
         Bases(less) # {} => /\ Bases(items) # {}
                             /\ EffectiveRank(ResolvePrecedence(Bases(items)))
                                   <= EffectiveRank(ResolvePrecedence(Bases(less))),
         Overlays(less) # {} => /\ Overlays(items) # {}
                                /\ EffectiveRank(ResolveOverlay(Overlays(items)))
                                      <= EffectiveRank(ResolveOverlay(Overlays(less)))
  PROVE  EffectiveRank(ResolveWithPacks(items)) <= EffectiveRank(ResolveWithPacks(less))
<1>1. \A i \in {items, less} :
         /\ i \in SUBSET Item /\ i # {}
         /\ Bases(i) \in SUBSET Item /\ Overlays(i) \in SUBSET Item
  BY DEF Bases, Overlays, Layered
<1>2. \A i \in {items, less} :
         /\ Bases(i) # {} => EffectiveRank(ResolvePrecedence(Bases(i))) \in 0..3
         /\ Overlays(i) # {} => EffectiveRank(ResolveOverlay(Overlays(i))) \in 0..3
  <2> TAKE i \in {items, less}
  <2>1. Bases(i) # {} => ResolvePrecedence(Bases(i)) \in Item
    BY <1>1, PrecedencePicks
  <2>2. Overlays(i) # {} => ResolveOverlay(Overlays(i)) \in Item
    BY <1>1, OverlayCoversHard
  <2> QED
    BY <2>1, <2>2, EffectiveRanks
<1>3. EffectiveRank(ResolveWithPacks(items)) \in 0..3
  <2>1. ResolveWithPacks(items) \in Item
    BY WinnerCoversBoth
  <2> QED
    BY <2>1, EffectiveRanks
<1>4. /\ Bases(items) # {} =>
            EffectiveRank(ResolveWithPacks(items)) <= EffectiveRank(ResolvePrecedence(Bases(items)))
      /\ Overlays(items) # {} =>
            EffectiveRank(ResolveWithPacks(items)) <= EffectiveRank(ResolveOverlay(Overlays(items)))
  BY WinnerCoversBoth
<1>5. \/ Bases(less) # {} /\ ResolveWithPacks(less) = ResolvePrecedence(Bases(less))
      \/ Overlays(less) # {} /\ ResolveWithPacks(less) = ResolveOverlay(Overlays(less))
  <2>1. Bases(less) = {} => Overlays(less) # {}
    BY DEF Overlays
  <2> QED
    BY <2>1 DEF ResolveWithPacks, Bases, Overlays
<1> QED
  BY <1>2, <1>3, <1>4, <1>5

\* WeakeningReachesPacks: without the packs the base policies are the same and the hard overlays alone remain.
LEMMA Weakened == ASSUME IndInv, Resolved PROVE WeakeningReachesPacks
<1> DEFINE all == Candidates(in.store, in.covers, in.workload)
           layers == DOMAIN in.store \ PackFamily
           less == Candidates(NoPacks(in.store), in.covers, in.workload)
<1> SUFFICES ASSUME less # {}
             PROVE  EffectiveRank(out.one[1]) <= EffectiveRank(ResolveWithPacks(less))
  BY DEF WeakeningReachesPacks
<1>1. Store(in.store) /\ out = ResolvedOut
  BY ResolveInput
<1>2. less = {x \in all : x.layer \in layers}
  <2>1. {"controls", "baseline"} \cap DOMAIN in.store \subseteq layers /\ layers \subseteq DOMAIN in.store
    BY DEF PackFamily
  <2>2. NoPacks(in.store) = Part(in.store, layers)
    BY DEF NoPacks, Part
  <2> QED
    BY <1>1, <2>1, <2>2, CandidatesOfPart
<1>3. all \in SUBSET Item /\ less \in SUBSET Item /\ all # {}
  BY <1>1, <1>2, CandidatesType
<1>4. \A x \in all : x.layer \in layers <=> x.layer \notin PackFamily
  <2>1. \A l : Candidate(in.store, l, Position[l]).layer = l
    BY DEF Candidate
  <2> QED
    BY <2>1, CandidatesAre DEF Taking
<1>5. out.one[1] = ResolveWithPacks(all)
  BY <1>1, <1>3 DEF ResolvedOut
<1> HIDE DEF all, less, layers
<1>6. Bases(less) = Bases(all)
  BY <1>2, <1>4 DEF Bases, Layered, BaseLayers, PackFamily
<1>7. Overlays(less) = Hard(Overlays(all))
  BY <1>2, <1>4 DEF Overlays, Bases, Layered, BaseLayers, PackFamily, Hard
<1>8. ASSUME Bases(less) # {}
      PROVE  /\ Bases(all) # {}
             /\ EffectiveRank(ResolvePrecedence(Bases(all))) <= EffectiveRank(ResolvePrecedence(Bases(less)))
  <2>1. Bases(all) \in SUBSET Item /\ Bases(all) # {}
    BY <1>3, <1>6, <1>8 DEF Bases, Layered
  <2>2. ResolvePrecedence(Bases(all)) \in Item
    BY <2>1, PrecedencePicks
  <2>3. EffectiveRank(ResolvePrecedence(Bases(all))) \in 0..3
    BY <2>2, EffectiveRanks
  <2> QED
    BY <1>6, <2>1, <2>3
<1>9. ASSUME Overlays(less) # {}
      PROVE  /\ Overlays(all) # {}
             /\ EffectiveRank(ResolveOverlay(Overlays(all))) <= EffectiveRank(ResolveOverlay(Overlays(less)))
  <2>1. Overlays(all) \in SUBSET Item /\ Overlays(all) # {}
    BY <1>3, <1>7, <1>9 DEF Overlays, Hard
  <2>2. Layered(Overlays(less), PackFamily) = {}
    BY <1>7 DEF Hard, Layered
  <2>3. ResolveOverlay(Overlays(less)) = ResolveHardOverlay(Overlays(less))
    BY <2>2 DEF ResolveOverlay
  <2> QED
    BY <1>7, <1>9, <2>1, <2>3, OverlayCoversHard
<1> QED
  BY <1>3, <1>5, <1>8, <1>9, StricterParts

\* ObserversOnlyTighten: without the observers the overlays are the same and the enforcing base policies remain.
LEMMA Observed == ASSUME IndInv, Resolved PROVE ObserversOnlyTighten
<1> DEFINE all == Candidates(in.store, in.covers, in.workload)
           layers == {k \in DOMAIN in.store : k \notin BaseLayers \/ in.store[k].mode = "block"}
           less == Candidates(Disarmed(in.store), in.covers, in.workload)
<1> SUFFICES ASSUME NEW l \in BaseLayers \cap DOMAIN in.store, in.store[l].mode = "block",
                    l = "deployment" => in.workload
             PROVE  EffectiveRank(out.one[1]) <= EffectiveRank(ResolveWithPacks(less))
  BY DEF ObserversOnlyTighten
<1>1. Store(in.store) /\ out = ResolvedOut
  BY ResolveInput
<1>2. less = {x \in all : x.layer \in layers}
  <2>1. {"controls", "baseline"} \cap DOMAIN in.store \subseteq layers /\ layers \subseteq DOMAIN in.store
    BY DEF BaseLayers
  <2>2. Disarmed(in.store) = Part(in.store, layers)
    BY DEF Disarmed, Part
  <2> QED
    BY <1>1, <2>1, <2>2, CandidatesOfPart
<1>3. all \in SUBSET Item /\ less \in SUBSET Item
  BY <1>1, <1>2, CandidatesType
<1>4. ASSUME NEW x \in all PROVE x.layer \in layers <=> (x.layer \notin BaseLayers \/ x.mode # "audit")
  <2>1. PICK k \in Taking(in.store, in.covers, in.workload) : x = Candidate(in.store, k, Position[k])
    BY CandidatesAre
  <2>2. x.layer = k /\ k \in DOMAIN in.store /\ (k \in BaseLayers => x.mode = in.store[k].mode)
    BY <2>1 DEF Candidate, Taking, BaseLayers, Modeless, PackFamily
  <2>3. in.store[k].mode \in {"block", "audit"}
    BY <1>1, <2>2 DEF Store, Policy
  <2> QED
    BY <2>2, <2>3
<1>5. PICK x \in all : x.layer \in BaseLayers /\ x.mode # "audit"
  <2>1. l \in Taking(in.store, in.covers, in.workload)
    BY DEF Taking, BaseLayers
  <2>2. Candidate(in.store, l, Position[l]) \in all
    BY <2>1, CandidatesAre
  <2>3. Candidate(in.store, l, Position[l]).layer = l /\ Candidate(in.store, l, Position[l]).mode = "block"
    BY DEF Candidate, BaseLayers, Modeless, PackFamily
  <2> QED
    BY <2>2, <2>3
<1>6. out.one[1] = ResolveWithPacks(all)
  BY <1>1, <1>5 DEF ResolvedOut
<1> HIDE DEF all, less, layers
<1>7. Bases(less) = Enforcing(Bases(all)) /\ x \in Bases(less) /\ x \in less
  BY <1>2, <1>4, <1>5 DEF Bases, Layered, Enforcing
<1>8. Overlays(less) = Overlays(all)
  BY <1>2, <1>4 DEF Overlays, Bases, Layered
<1>9. /\ Bases(all) # {}
      /\ EffectiveRank(ResolvePrecedence(Bases(all))) <= EffectiveRank(ResolvePrecedence(Bases(less)))
  <2>1. Bases(all) \in SUBSET Item /\ Bases(all) # {}
    BY <1>3, <1>7 DEF Bases, Layered, Enforcing
  <2>2. Enforcing(Bases(less)) = Bases(less) /\ Observing(Bases(less)) = {}
    BY <1>7 DEF Enforcing, Observing
  <2>3. ResolvePrecedence(Bases(less)) = ByPriority(Enforcing(Bases(all)))
    BY <1>7, <2>2 DEF ResolvePrecedence
  <2> QED
    BY <1>7, <2>1, <2>3, PrecedencePicks
<1>10. ASSUME Overlays(less) # {}
       PROVE  EffectiveRank(ResolveOverlay(Overlays(all))) <= EffectiveRank(ResolveOverlay(Overlays(less)))
  <2>1. Overlays(all) \in SUBSET Item /\ Overlays(all) # {}
    BY <1>3, <1>8, <1>10 DEF Overlays
  <2>2. ResolveOverlay(Overlays(all)) \in Item
    BY <2>1, OverlayCoversHard
  <2>3. EffectiveRank(ResolveOverlay(Overlays(all))) \in 0..3
    BY <2>2, EffectiveRanks
  <2> QED
    BY <1>8, <2>3
<1> QED
  BY <1>3, <1>5, <1>6, <1>7, <1>8, <1>9, <1>10, StricterParts

\* For every store and every priority: no layer loosens a floor, no observing policy an enforcing one,
\* and no weakening more than the packs (_resolve_with_packs).
THEOREM ResolutionIsSafe == Spec => []NothingLoosens
<1>1. IndInv => NothingLoosens
  <2>1. CASE Resolved
    BY <2>1, Floored, Weakened, Observed DEF NothingLoosens
  <2>2. CASE ~Resolved
    BY <2>2 DEF NothingLoosens, FloorsHold, ObserversOnlyTighten, WeakeningReachesPacks
  <2> QED
    BY <2>1, <2>2
<1> QED
  BY <1>1, Invariance, PTL

-----------------------------------------------------------------------------
(* The three ways out of evaluate. *)

Failure(e) == IF e.fault # "none" THEN e.fault
              ELSE IF BaseDecision(e).decision = "raise" THEN "error" ELSE "none"

\* The fields of a decision.
LEMMA Fields == \A d, r : Decision(d, r).decision = d /\ Decision(d, r).rule = r
  BY DEF Decision

\* The ways out of evaluate, by what failed.
LEMMA EvaluatedIs ==
  ASSUME NEW e
  PROVE  Evaluated(e) = IF Failure(e) # "none" THEN SoftenFailure(FailureDecision(Failure(e)), e)
                        ELSE ApplyPepDenial(Overridden(BaseDecision(e), e), e)
  BY DEF Evaluated, Failure

\* The refusal of a handler is a block, and it is signed.
LEMMA FailuresBlock ==
  ASSUME NEW e \in Event, Failure(e) # "none"
  PROVE  /\ FailureDecision(Failure(e)).decision = "block"
         /\ FailureDecision(Failure(e)).rule
               \in {"evaluator_timeout", "invalid_spiffe_identity", "evaluator_fallback"}
<1>1. Failure(e) \in {"timeout", "identity", "error"}
  BY DEF Failure, Event
<1> QED
  BY <1>1 DEF FailureDecision, Decision

\* Each answer of OPA is one of the four decisions, and only a policy's own block may lack a rule.
LEMMA Answers ==
  ASSUME NEW p \in Payloads, p # "error"
  PROVE  /\ Answer(p).decision \in {"block", "escalate", "audit", "allow"}
         /\ p \in {"fired without decision", "no document"} =>
               Answer(p).decision = "block"
<1>1. DOMAIN Rank = {"block", "escalate", "audit", "allow"}
  BY DEF Rank
<1> QED
  BY <1>1 DEF Payloads, Answer, Decision

\* The base decision of a call the engine has no answer to is a block or an error.
LEMMA BaseRefuses ==
  ASSUME NEW e \in Event, Unanswered(e), ~Failed(e), e.candidates > 0 => e.mode # "audit"
  PROVE  BaseDecision(e).decision = "block"
<1>0. e.fault = "none" /\ BaseDecision(e).decision # "raise"
  BY DEF Failed
<1>1. e.tries[1] \in Payloads /\ e.tries[2] \in Payloads /\ e.candidates \in Nat
  BY DEF Event
<1>2. CASE e.candidates = 0 /\ ~e.direct
  <2>0. ~(e.candidates > 0)
    BY <1>1, <1>2
  <2>1. ~e.warmed
    BY <1>0, <1>2, <2>0, Zenon DEF Unanswered
  <2>2. BaseDecision(e) = Decision("block", "policy_load_pending")
    BY <1>2, <2>1 DEF BaseDecision, NoPolicyDecision
  <2> QED
    BY <2>2, Fields
<1>3. CASE e.candidates = 0 /\ e.direct
  <2>1. BaseDecision(e) = IF e.tries[1] = "error" THEN Decision("raise", "") ELSE Answer(e.tries[1])
    BY <1>3 DEF BaseDecision
  <2>2. e.tries[1] # "error"
    BY <1>0, <2>1, Fields
  <2>3. e.tries[1] \in {"fired without decision", "no document"}
    BY <1>0, <1>3, <2>2 DEF Unanswered
  <2> QED
    BY <1>1, <2>1, <2>2, <2>3, Answers
<1>4. CASE e.candidates # 0
  <2>1. e.mode # "audit" /\ (IF e.tries[1] = "error" THEN e.tries[2] ELSE e.tries[1])
                              \in {"error", "fired without decision", "no document"}
    BY <1>0, <1>1, <1>4 DEF Unanswered
  <2>2. EvaluateSingle(e.tries).decision = "block"
    BY <1>1, <2>1, Answers DEF EvaluateSingle, Decision
  <2> QED
    BY <1>4, <2>1, <2>2 DEF BaseDecision, ApplyPolicyMode
<1> QED
  BY <1>2, <1>3, <1>4

\* Without monitor mode a block stays one through the rest of the pipeline.
LEMMA BlocksStay ==
  ASSUME NEW e, NEW d, d.decision = "block", ~e.monitor
  PROVE  ApplyPepDenial(Overridden(d, e), e).decision = "block"
<1>1. ApplyTrustOverrides(d, e).decision = "block"
  BY DEF ApplyTrustOverrides, Decision
<1>2. Overridden(d, e) = EnsureBlockAttribution(ApplyTrustOverrides(d, e))
  BY DEF Overridden, RateLimited, ApplyPosture
<1>3. Overridden(d, e).decision = "block"
  BY <1>1, <1>2, Fields DEF EnsureBlockAttribution
<1> QED
  BY <1>3 DEF ApplyPepDenial

\* What is known once a call has been evaluated.
LEMMA DecideInput ==
  ASSUME IndInv, Decided
  PROVE  in.e \in Event /\ out.fresh = Evaluated(in.e)
<1>1. in.e \in Event
  BY EventsAssumption DEF IndInv, Decided, Inputs
<1>2. out = DecidedOut
  BY DEF IndInv, Decided
<1> QED
  BY <1>1, <1>2 DEF DecidedOut

\* A handler refuses unless monitor mode reaches its answer.
LEMMA HandlersBlock ==
  ASSUME NEW e \in Event, Failed(e), ~MonitorApplies(e)
  PROVE  Evaluated(e).decision = "block"
<1>1. Failure(e) # "none"
  BY DEF Failure, Failed, Event
<1>2. FailureDecision(Failure(e)).decision = "block"
  BY <1>1, FailuresBlock
<1>3. SoftenFailure(FailureDecision(Failure(e)), e) = FailureDecision(Failure(e))
  BY DEF SoftenFailure, ApplyPosture, MonitorApplies
<1> QED
  BY <1>1, <1>2, <1>3, EvaluatedIs

\* FailuresRefuse in the states of the invariant.
LEMMA Refused == ASSUME IndInv, Decided PROVE FailuresRefuse
<1> DEFINE e == in.e
<1> SUFFICES ASSUME Unanswered(e), ~MonitorApplies(e), Failed(e) \/ ~(e.candidates > 0 /\ e.mode = "audit")
             PROVE  Evaluated(e).decision = "block"
  BY DecideInput DEF FailuresRefuse
<1>1. e \in Event
  BY DecideInput
<1> HIDE DEF e
<1>2. CASE Failed(e)
  BY <1>1, <1>2, HandlersBlock
<1>3. CASE ~Failed(e)
  <2>1. Failure(e) = "none" /\ ~e.monitor
    BY <1>3 DEF Failure, Failed, MonitorApplies
  <2> QED
    BY <1>1, <1>3, <2>1, BaseRefuses, BlocksStay, EvaluatedIs
<1> QED
  BY <1>2, <1>3

\* In monitor mode what the pipeline before the enforcement point interrupts is exempt from it.
LEMMA MonitorOverrides ==
  ASSUME NEW e, NEW d, e.monitor, Interrupts(Overridden(d, e))
  PROVE  Overridden(d, e).rule \in PostureExemptRules(e)
<1> DEFINE t == ApplyTrustOverrides(d, e)
<1>1. ASSUME NEW x, Interrupts(ApplyPosture(x, e))
      PROVE  ApplyPosture(x, e) = x /\ x.rule \in PostureExemptRules(e)
  BY <1>1 DEF ApplyPosture, Interrupts, Softened, Decision
<1>2. CASE RateLimited(d, e)
  BY <1>1, <1>2 DEF Overridden
<1>3. CASE ~RateLimited(d, e)
  <2>1. Overridden(d, e) = EnsureBlockAttribution(ApplyPosture(t, e))
    BY <1>3 DEF Overridden
  <2>2. Interrupts(ApplyPosture(t, e))
    BY <2>1 DEF EnsureBlockAttribution, Interrupts, Decision
  <2>3. ApplyPosture(t, e).rule \in PostureExemptRules(e)
    BY <1>1, <2>2
  <2>4. EnsureBlockAttribution(ApplyPosture(t, e)) = ApplyPosture(t, e)
    BY <2>3 DEF EnsureBlockAttribution, PostureExemptRules
  <2> QED
    BY <2>1, <2>3, <2>4
<1> QED
  BY <1>2, <1>3

\* MonitorInterruptsNothing in the states of the invariant.
LEMMA Monitored == ASSUME IndInv, Decided PROVE MonitorInterruptsNothing
<1> DEFINE e == in.e
<1> SUFFICES ASSUME e.monitor, e.postureReadable, Interrupts(Evaluated(e))
             PROVE  Evaluated(e).rule \in PostureExemptRules(e) \cup {"pep_rule"}
  BY DecideInput DEF MonitorInterruptsNothing
<1> HIDE DEF e
<1>1. CASE Failure(e) # "none"
  <2>1. Evaluated(e) = ApplyPosture(FailureDecision(Failure(e)), e)
    BY <1>1, EvaluatedIs DEF SoftenFailure
  <2> QED
    BY <2>1 DEF ApplyPosture, Interrupts, Softened, Decision
<1>2. CASE Failure(e) = "none"
  <2>1. Evaluated(e) = ApplyPepDenial(Overridden(BaseDecision(e), e), e)
    BY <1>2, EvaluatedIs
  <2>2. CASE e.pep = "block" /\ Overridden(BaseDecision(e), e).decision # "block"
    BY <2>1, <2>2 DEF ApplyPepDenial, Decision
  <2>3. CASE ~(e.pep = "block" /\ Overridden(BaseDecision(e), e).decision # "block")
    <3>1. Evaluated(e) = Overridden(BaseDecision(e), e)
      BY <2>1, <2>3 DEF ApplyPepDenial
    <3> QED
      BY <3>1, MonitorOverrides
  <2> QED
    BY <2>2, <2>3
<1> QED
  BY <1>1, <1>2

\* FrozenIsRefused in the states of the invariant.
LEMMA StaysFrozen == ASSUME IndInv, Decided PROVE FrozenIsRefused
<1> DEFINE e == in.e
<1> SUFFICES ASSUME e.trust = "frozen",
                    ~(MonitorApplies(e) /\ (Failed(e) \/ (RateLimited(BaseDecision(e), e) /\ ~e.exemptRate)))
             PROVE  Evaluated(e).decision = "block"
  BY DecideInput DEF FrozenIsRefused
<1>0. e \in Event
  BY DecideInput
<1> HIDE DEF e
<1>1. CASE Failed(e)
  BY <1>0, <1>1, HandlersBlock
<1>2. CASE ~Failed(e)
  <2>1. Evaluated(e) = ApplyPepDenial(Overridden(BaseDecision(e), e), e)
    BY <1>2, EvaluatedIs DEF Failure, Failed
  <2>2. Overridden(BaseDecision(e), e).decision = "block"
    <3>1. CASE RateLimited(BaseDecision(e), e)
      <4>1. ~e.monitor \/ "rate_limit_exceeded" \in PostureExemptRules(e)
        BY <1>2, <3>1 DEF MonitorApplies, PostureExemptRules
      <4>2. Overridden(BaseDecision(e), e) = Decision("block", "rate_limit_exceeded")
        BY <3>1, <4>1 DEF Overridden, ApplyPosture, Decision
      <4> QED
        BY <4>2 DEF Decision
    <3>2. CASE ~RateLimited(BaseDecision(e), e)
      <4>1. ApplyPosture(ApplyTrustOverrides(BaseDecision(e), e), e) = Decision("block", "trust_frozen")
        BY DEF ApplyPosture, ApplyTrustOverrides, PostureExemptRules, Decision
      <4> QED
        BY <3>2, <4>1 DEF Overridden, EnsureBlockAttribution, Decision
    <3> QED
      BY <3>1, <3>2
  <2> QED
    BY <2>1, <2>2 DEF ApplyPepDenial
<1> QED
  BY <1>1, <1>2

\* CacheIsTransparent in the states of the invariant.
LEMMA Transparent == ASSUME IndInv, Decided PROVE CacheIsTransparent
<1>1. out.fresh = Evaluated(in.e)
      /\ out.cached = IF in.e.fault # "none" \/ BaseDecision(in.e).decision = "raise" THEN Evaluated(in.e)
                      ELSE FromCache(BaseDecision(in.e), in.e)
  BY DEF IndInv, Decided, DecidedOut
<1> QED
  BY <1>1, EvaluatedIs DEF CacheIsTransparent, Failure, FromCache

\* BlocksAreSigned in the states of the invariant.
LEMMA Signed == ASSUME IndInv, Decided PROVE BlocksAreSigned
<1> DEFINE e == in.e
<1> SUFFICES ASSUME Evaluated(e).decision = "block"
             PROVE  Evaluated(e).rule \notin {"", "default_allow"}
  BY DecideInput DEF BlocksAreSigned
<1>1. e \in Event
  BY DecideInput
<1> HIDE DEF e
<1>2. \A x : ApplyPosture(x, e).decision = "block" => ApplyPosture(x, e) = x
  BY DEF ApplyPosture, Softened, Decision
<1>3. CASE Failure(e) # "none"
  <2>1. Evaluated(e) = FailureDecision(Failure(e))
    BY <1>2, <1>3, EvaluatedIs DEF SoftenFailure
  <2> QED
    BY <1>1, <1>3, <2>1, FailuresBlock
<1>4. CASE Failure(e) = "none"
  <2> DEFINE d == Overridden(BaseDecision(e), e)
  <2>1. Evaluated(e) = ApplyPepDenial(d, e)
    BY <1>4, EvaluatedIs
  <2>2. d.decision = "block" => d.rule \notin {"", "default_allow"}
    <3>1. CASE RateLimited(BaseDecision(e), e)
      <4>1. d = ApplyPosture(Decision("block", "rate_limit_exceeded"), e)
        BY <3>1 DEF Overridden
      <4>2. d.decision = "block" => d = Decision("block", "rate_limit_exceeded")
        BY <1>2, <4>1
      <4>3. Decision("block", "rate_limit_exceeded").rule \notin {"", "default_allow"}
        BY Fields
      <4> QED
        BY <4>2, <4>3
    <3>2. CASE ~RateLimited(BaseDecision(e), e)
      <4>1. d = EnsureBlockAttribution(ApplyPosture(ApplyTrustOverrides(BaseDecision(e), e), e))
        BY <3>2 DEF Overridden
      <4>2. ASSUME NEW y, EnsureBlockAttribution(y).decision = "block"
            PROVE  EnsureBlockAttribution(y).rule \notin {"", "default_allow"}
        <5>1. Decision("block", "unattributed_block").rule \notin {"", "default_allow"}
          BY Fields
        <5> QED
          BY <4>2, <5>1 DEF EnsureBlockAttribution
      <4> QED
        BY <4>1, <4>2
    <3> QED
      BY <3>1, <3>2
  <2> HIDE DEF d
  <2>3. CASE e.pep = "block" /\ d.decision # "block"
    BY <2>1, <2>3 DEF ApplyPepDenial, Decision
  <2>4. CASE ~(e.pep = "block" /\ d.decision # "block")
    BY <2>1, <2>2, <2>4 DEF ApplyPepDenial
  <2> QED
    BY <2>3, <2>4
<1> QED
  BY <1>3, <1>4

\* For every call, on every way out of evaluate: a call without an answer, or of a frozen agent, passes
\* only where the operator has asked the namespace to observe, or, without an answer, the policy to audit;
\* a freeze gives way there to a handler and a softened rate limit only; monitor mode interrupts for its
\* three reasons only; a cached decision is the fresh one; a refusal is signed.
THEOREM PipelineIsSafe == Spec => []EveryWayOut
<1>1. IndInv => EveryWayOut
  <2>1. CASE Decided
    BY <2>1, Refused, Monitored, StaysFrozen, Transparent, Signed DEF EveryWayOut
  <2>2. CASE ~Decided
    BY <2>2 DEF EveryWayOut, FailuresRefuse, MonitorInterruptsNothing, FrozenIsRefused, CacheIsTransparent,
                BlocksAreSigned
  <2> QED
    BY <2>1, <2>2
<1> QED
  BY <1>1, Invariance, PTL

-----------------------------------------------------------------------------
(* Policies pushed by a hub.                                               *)
CONSTANTS Replicas, Keys, Reserved, Fleetwide, Override, Legacy, MaxEdits, MaxFaults, MaxVersion
VARIABLES rows, cluster, rollout, token, store, state, joined, on, loop, pull, claim, signed, claims, mishaps, edits, faults

FL == INSTANCE Fleet

\* A pull, field by field.
Made(a, b, c, d, e, f, g) == [pc |-> a, bundle |-> b, version |-> c, todo |-> d, last |-> e, state |-> f, bump |-> g]
\* x has the fields of a pull.
Whole(x) == x = Made(x.pc, x.bundle, x.version, x.todo, x.last, x.state, x.bump)
\* A pull is under way.
Under(r) == pull[r] # FL!Idle
\* Only the pull of r changes, and becomes x.
Becomes(r, x) == pull' = [q \in Replicas |-> IF q = r THEN x ELSE pull[q]]

\* Pulls have their fields, and their versions are numbers.
PullTypes ==
    /\ pull = [r \in Replicas |-> pull[r]] /\ store = [k \in Keys |-> store[k]]
    /\ cluster \subseteq Nat /\ \A r \in Replicas : Under(r) => Whole(pull[r]) /\ pull[r].version \in Nat

\* What a pull is about to write or delete is no scope of the cluster's own.
SpareInv == PullTypes /\ \A r \in Replicas : FL!At(r, "apply") \/ FL!At(r, "drop") => pull[r].todo \cap Reserved = {}

\* A token that waits has not been claimed.
ClaimInv == claims \in Nat /\ claims <= 1 /\ (token = "minted" => claims = 0)

-----------------------------------------------------------------------------
(* What the steps of a pull make of it. *)

\* What is read from a pull that was just made.
LEMMA MadeIs ==
    ASSUME NEW a, NEW b, NEW c, NEW d, NEW e, NEW f, NEW g, NEW x, x = Made(a, b, c, d, e, f, g)
    PROVE  /\ x # FL!Idle /\ x.pc = a /\ x.bundle = b /\ x.version = c /\ x.todo = d /\ x.last = e /\ x.state = f /\ Whole(x)
           /\ (x.bump <=> g)
  BY DEF Made, Whole, FL!Idle

\* A field of a pull is set.
LEMMA SetPc ==
    ASSUME NEW x, Whole(x), NEW v, NEW y, y = [x EXCEPT !.pc = v]
    PROVE  Whole(y) /\ y.pc = v /\ y.bundle = x.bundle /\ y.version = x.version /\ y.todo = x.todo /\ y.state = x.state /\ y.last = x.last
  BY DEF Made, Whole

\* The same for its version,
LEMMA SetVersion ==
    ASSUME NEW x, Whole(x), NEW v, NEW y, y = [x EXCEPT !.version = v]
    PROVE  Whole(y) /\ y.pc = x.pc /\ y.bundle = x.bundle /\ y.version = v /\ y.todo = x.todo /\ y.state = x.state /\ y.last = x.last
  BY DEF Made, Whole

\* what it has to do,
LEMMA SetTodo ==
    ASSUME NEW x, Whole(x), NEW v, NEW y, y = [x EXCEPT !.todo = v]
    PROVE  Whole(y) /\ y.pc = x.pc /\ y.bundle = x.bundle /\ y.version = x.version /\ y.todo = v /\ y.state = x.state /\ y.last = x.last
  BY DEF Made, Whole

\* what it has read,
LEMMA SetLast ==
    ASSUME NEW x, Whole(x), NEW v, NEW y, y = [x EXCEPT !.last = v]
    PROVE  Whole(y) /\ y.pc = x.pc /\ y.bundle = x.bundle /\ y.version = x.version /\ y.todo = x.todo /\ y.state = x.state /\ y.last = v
  BY DEF Made, Whole

\* and what it will report.
LEMMA SetState ==
    ASSUME NEW x, Whole(x), NEW v, NEW y, y = [x EXCEPT !.state = v]
    PROVE  Whole(y) /\ y.pc = x.pc /\ y.bundle = x.bundle /\ y.version = x.version /\ y.todo = x.todo /\ y.state = v /\ y.last = x.last
  BY DEF Made, Whole

\* What Ends does to a pull.
LEMMA Ended ==
    ASSUME PullTypes, NEW r \in Replicas, FL!Ends(r) PROVE Becomes(r, FL!Idle)
  BY DEF PullTypes, FL!Ends, Becomes

\* A bundle that keeps its version has its digest in the rollout.
LEMMA Asked ==
    ASSUME PullTypes, NEW r \in Replicas, FL!Ask(r)
    PROVE  \E x : /\ Becomes(r, x) /\ Whole(x) /\ x.pc = "read" /\ x.version \in cluster /\ x.state = "failed"
                  /\ ~x.bump => \E o \in rollout : o.detail # {}
<1>1. PICK v \in cluster : pull' = [pull EXCEPT ![r] =
           [pc |-> "read", bundle |-> FL!Resolved, version |-> v, todo |-> {}, last |-> 0, state |-> "failed",
            bump |-> v = 0 \/ \A o \in rollout : o.detail # {FL!Resolved}]]
  BY DEF FL!Ask
<1> DEFINE bump == v = 0 \/ \A o \in rollout : o.detail # {FL!Resolved}
           x == Made("read", FL!Resolved, v, {}, 0, "failed", bump)
<1>2. Becomes(r, x)
  BY <1>1 DEF PullTypes, Becomes, Made
<1>3. ~bump => \E o \in rollout : o.detail # {}
  OBVIOUS
<1> HIDE DEF bump
<1>4. Whole(x) /\ x.pc = "read" /\ x.version = v /\ x.state = "failed" /\ (x.bump <=> bump)
  BY MadeIs
<1> QED BY <1>2, <1>3, <1>4

\* The pull of r goes from one stage to the next.
Goes(r, x, pc) ==
    /\ Becomes(r, x) /\ Whole(x) /\ x.pc = pc /\ x.bundle = pull[r].bundle
    /\ pc # "report" => x.state = pull[r].state

\* What get_bundle writes.
LEMMA SignsIt ==
    ASSUME PullTypes, NEW r \in Replicas, FL!Sign(r)
    PROVE  \/ Becomes(r, FL!Idle) /\ UNCHANGED <<cluster, rollout>>
           \/ \E x : /\ Goes(r, x, "got")
                     /\ \/ /\ ~pull[r].bump /\ x.version = pull[r].version /\ UNCHANGED <<cluster, rollout>>
                        \/ /\ x.version = pull[r].version + 1 /\ cluster' = {x.version}
                           /\ \E d : rollout' = {[version |-> x.version, detail |-> d, state |-> "pending"]}
<1>1. CASE pull[r].bump /\ cluster = {}
  BY <1>1, Ended DEF FL!Sign
<1>2. CASE ~(pull[r].bump /\ cluster = {})
  <2>0. PICK v, y, x : /\ v = pull[r].version + (IF pull[r].bump THEN 1 ELSE 0)
                       /\ y = [pull[r] EXCEPT !.pc = "got"] /\ x = [y EXCEPT !.version = v]
    OBVIOUS
  <2>1. /\ pull' = [pull EXCEPT ![r].pc = "got", ![r].version = v]
        /\ IF pull[r].bump
           THEN /\ cluster' = {v}
                /\ rollout' = {[version |-> v, detail |-> {pull[r].bundle}, state |-> "pending"]}
           ELSE UNCHANGED <<cluster, rollout>>
    BY <1>2, <2>0 DEF FL!Sign
  <2>2. Becomes(r, x)
    BY <2>0, <2>1 DEF PullTypes, Becomes
  <2>3. Whole(pull[r])
    BY DEF FL!Sign, PullTypes, Under
  <2>4. Whole(y) /\ y.pc = "got" /\ y.bundle = pull[r].bundle /\ y.state = pull[r].state
    BY <2>0, <2>3, SetPc
  <2>5. Whole(x) /\ x.pc = "got" /\ x.bundle = pull[r].bundle /\ x.version = v /\ x.state = pull[r].state
    <3>1. x = [y EXCEPT !.version = v]
      BY <2>0
    <3> QED BY <2>4, <3>1, SetVersion
  <2>6. v = pull[r].version + (IF pull[r].bump THEN 1 ELSE 0)
    BY <2>0
  <2>7. Goes(r, x, "got")
    BY <2>2, <2>5 DEF Goes
  <2>8. CASE pull[r].bump
    BY <2>1, <2>5, <2>6, <2>7, <2>8
  <2>9. CASE ~pull[r].bump
    <3>1. x.version = pull[r].version
      BY <2>5, <2>6, <2>9 DEF PullTypes, Under, FL!Sign
    <3> QED BY <2>1, <2>7, <2>9, <3>1
  <2> QED BY <2>8, <2>9
<1> QED BY <1>1, <1>2
\* So it does with the same version,
GoesOn(r, x, pc) == Goes(r, x, pc) /\ x.version = pull[r].version
\* and with what it has read.
Keeps(r, x, pc) == GoesOn(r, x, pc) /\ x.last = pull[r].last

\* A pull that is at a stage has its fields.
LEMMA AtIs == ASSUME PullTypes, NEW r \in Replicas, NEW pc, FL!At(r, pc) PROVE Whole(pull[r]) /\ pull[r].pc = pc /\ pull[r].version \in Nat
  BY DEF PullTypes, Under, FL!At

\* A bundle is applied only when it is newer.
LEMMA Checked ==
    ASSUME PullTypes, NEW r \in Replicas, FL!Check(r)
    PROVE  \/ Becomes(r, FL!Idle)
           \/ r \in on /\ FL!Newer(r) /\ \E x : GoesOn(r, x, "apply") /\ x.todo = DOMAIN pull[r].bundle \ Reserved /\ x.last = state[FL!Id(r)].last
<1>1. CASE r \in on /\ FL!Newer(r)
  <2>0. PICK w, y, z, x : /\ w = DOMAIN pull[r].bundle \ Reserved /\ y = [pull[r] EXCEPT !.pc = "apply"]
                          /\ z = [y EXCEPT !.last = state[FL!Id(r)].last] /\ x = [z EXCEPT !.todo = w]
    OBVIOUS
  <2>1. Becomes(r, x)
    BY <1>1, <2>0 DEF FL!Check, PullTypes, Becomes
  <2>2. Whole(pull[r]) /\ y = [pull[r] EXCEPT !.pc = "apply"]
    BY <2>0, AtIs DEF FL!Check
  <2>3. Whole(y) /\ y.pc = "apply" /\ y.bundle = pull[r].bundle /\ y.version = pull[r].version /\ y.state = pull[r].state
    BY <2>2, SetPc
  <2>4. z = [y EXCEPT !.last = state[FL!Id(r)].last]
    BY <2>0
  <2>5. Whole(z) /\ z.pc = y.pc /\ z.bundle = y.bundle /\ z.version = y.version /\ z.state = y.state /\ z.last = state[FL!Id(r)].last
    BY <2>3, <2>4, SetLast
  <2>6. x = [z EXCEPT !.todo = w]
    BY <2>0
  <2>7. Whole(x) /\ x.pc = z.pc /\ x.bundle = z.bundle /\ x.version = z.version /\ x.todo = w /\ x.state = z.state /\ x.last = z.last
    BY <2>5, <2>6, SetTodo
  <2> QED BY <1>1, <2>0, <2>1, <2>3, <2>5, <2>7 DEF GoesOn, Goes
<1>2. CASE ~(r \in on /\ FL!Newer(r))
  BY <1>2, Ended DEF FL!Check
<1> QED BY <1>1, <1>2

\* A key is written or deleted, and is done with.
LEMMA DoneWith ==
    ASSUME PullTypes, NEW r \in Replicas, NEW pc, FL!At(r, pc), NEW k, pull' = [pull EXCEPT ![r].todo = @ \ {k}]
    PROVE  \E x : Keeps(r, x, pc) /\ x.todo = pull[r].todo \ {k}
<1>0. PICK w, x : w = pull[r].todo \ {k} /\ x = [pull[r] EXCEPT !.todo = w]
  OBVIOUS
<1>1. Becomes(r, x)
  BY <1>0 DEF PullTypes, Becomes
<1>2. Whole(pull[r]) /\ x = [pull[r] EXCEPT !.todo = w] /\ pull[r].pc = pc
  BY <1>0, AtIs
<1>3. Whole(x) /\ x.pc = pc /\ x.bundle = pull[r].bundle /\ x.version = pull[r].version /\ x.todo = w /\ x.state = pull[r].state /\ x.last = pull[r].last
  BY <1>2, SetTodo
<1> QED BY <1>0, <1>1, <1>3 DEF Keeps, GoesOn, Goes

\* Only the stage changes.
LEMMA NextStage ==
    ASSUME PullTypes, NEW r \in Replicas, NEW pc, FL!At(r, pc), NEW next, pull' = [pull EXCEPT ![r].pc = next]
    PROVE  \E x : Keeps(r, x, next) /\ x.todo = pull[r].todo /\ x.state = pull[r].state
<1>0. PICK x : x = [pull[r] EXCEPT !.pc = next]
  OBVIOUS
<1>1. Becomes(r, x)
  BY <1>0 DEF PullTypes, Becomes
<1>2. Whole(pull[r]) /\ x = [pull[r] EXCEPT !.pc = next]
  BY <1>0, AtIs
<1>3. Whole(x) /\ x.pc = next /\ x.bundle = pull[r].bundle /\ x.version = pull[r].version /\ x.todo = pull[r].todo /\ x.state = pull[r].state /\ x.last = pull[r].last
  BY <1>2, SetPc
<1> QED BY <1>1, <1>3 DEF Keeps, GoesOn, Goes

\* What is dropped is decided after the bundle is written.
LEMMA Reconciled ==
    ASSUME PullTypes, NEW r \in Replicas, FL!Reconcile(r)
    PROVE  \E x : Keeps(r, x, "drop") /\ x.todo = FL!Dropped(r)
<1>0. PICK w, y, x : w = FL!Dropped(r) /\ y = [pull[r] EXCEPT !.pc = "drop"] /\ x = [y EXCEPT !.todo = w]
  OBVIOUS
<1>1. Becomes(r, x)
  BY <1>0 DEF FL!Reconcile, PullTypes, Becomes
<1>2. Whole(pull[r]) /\ y = [pull[r] EXCEPT !.pc = "drop"]
  BY <1>0, AtIs DEF FL!Reconcile
<1>3. Whole(y) /\ y.pc = "drop" /\ y.bundle = pull[r].bundle /\ y.version = pull[r].version /\ y.state = pull[r].state /\ y.last = pull[r].last
  BY <1>2, SetPc
<1>4. x = [y EXCEPT !.todo = w]
  BY <1>0
<1>5. Whole(x) /\ x.pc = y.pc /\ x.bundle = y.bundle /\ x.version = y.version /\ x.todo = w /\ x.state = y.state /\ x.last = y.last
  BY <1>3, <1>4, SetTodo
<1> QED BY <1>0, <1>1, <1>3, <1>5 DEF Keeps, GoesOn, Goes

\* What was applied is recorded, and then reported.
LEMMA Persisted ==
    ASSUME PullTypes, NEW r \in Replicas, FL!Persist(r)
    PROVE  \E x : GoesOn(r, x, "report") /\ x.state = "applied"
<1>0. PICK y, x : y = [pull[r] EXCEPT !.pc = "report"] /\ x = [y EXCEPT !.state = "applied"]
  OBVIOUS
<1>1. Becomes(r, x)
  BY <1>0 DEF FL!Persist, PullTypes, Becomes
<1>2. Whole(pull[r]) /\ y = [pull[r] EXCEPT !.pc = "report"]
  BY <1>0, AtIs DEF FL!Persist
<1>3. Whole(y) /\ y.pc = "report" /\ y.bundle = pull[r].bundle /\ y.version = pull[r].version
  BY <1>2, SetPc
<1>4. x = [y EXCEPT !.state = "applied"]
  BY <1>0
<1>5. Whole(x) /\ x.pc = y.pc /\ x.bundle = y.bundle /\ x.version = y.version /\ x.state = "applied"
  BY <1>3, <1>4, SetState
<1> QED BY <1>1, <1>3, <1>5 DEF GoesOn, Goes
-----------------------------------------------------------------------------
(* Any number of replicas: the join token, and the scopes of the cluster's own. *)

\* A token is claimed by the update that finds it minted.
LEMMA ClaimStep == ClaimInv /\ [FL!Next]_(FL!vars) => ClaimInv'
<1> SUFFICES ASSUME ClaimInv, [FL!Next]_(FL!vars) PROVE ClaimInv'
  OBVIOUS
<1>1. CASE UNCHANGED <<token, claims>>
  BY <1>1 DEF ClaimInv
<1>2. ASSUME NEW r \in Replicas, FL!Pull(r) PROVE ClaimInv'
  BY <1>1, <1>2 DEF FL!Pull, FL!Ask, FL!Sign, FL!Check, FL!Refuse, FL!Apply, FL!Reconcile, FL!Drop, FL!ApplyFails, FL!Persist, FL!PersistFails, FL!Report, FL!hub
<1>3. ASSUME NEW r \in Replicas, FL!Join(r) \/ FL!Leave(r) \/ FL!Stops(r) \/ FL!Restart(r) PROVE ClaimInv'
  BY <1>1, <1>3 DEF FL!Join, FL!Leave, FL!Stops, FL!Restart, FL!hub
<1>4. ASSUME NEW r \in Replicas, FL!ClaimToken(r) PROVE ClaimInv'
  BY <1>4 DEF FL!ClaimToken, ClaimInv
<1>5. CASE FL!Mint \/ FL!ClaimLost \/ FL!Remove
  BY <1>5 DEF FL!Mint, FL!ClaimLost, FL!Remove, ClaimInv
<1>6. CASE \/ \E n \in FL!Names : FL!Author(n) \/ FL!Retract(n)
           \/ FL!Heartbeat \/ UNCHANGED FL!vars \/ \E k \in Keys : FL!Local(k)
  BY <1>1, <1>6 DEF FL!Author, FL!Retract, FL!Heartbeat, FL!Local, FL!vars, FL!hub
<1> QED BY <1>2, <1>3, <1>4, <1>5, <1>6 DEF FL!Next

\* One pull moves.
LEMMA SpareMove ==
    ASSUME SpareInv, NEW r \in Replicas, NEW x, Becomes(r, x), store' = [k \in Keys |-> store'[k]], cluster' \subseteq Nat,
           x # FL!Idle => Whole(x) /\ x.version \in Nat /\ (x.pc \in {"apply", "drop"} => x.todo \cap Reserved = {})
    PROVE  SpareInv'
  BY DEF SpareInv, PullTypes, Becomes, Under, FL!At

\* No pull is under way.
LEMMA SpareInit == FL!Init => SpareInv
  BY DEF FL!Init, SpareInv, PullTypes, Under, FL!At

\* Every step of hub and spoke keeps the invariant.
LEMMA SpareStep == SpareInv /\ [FL!Next]_(FL!vars) => SpareInv'
<1> SUFFICES ASSUME SpareInv, [FL!Next]_(FL!vars) PROVE SpareInv'
  OBVIOUS
<1>0. PullTypes /\ store = [k \in Keys |-> store[k]] /\ cluster \subseteq Nat
  BY DEF SpareInv, PullTypes
<1>1. ASSUME NEW r \in Replicas, FL!Ask(r) PROVE SpareInv'
  BY <1>0, <1>1, Asked, SpareMove DEF FL!Ask, FL!hub
<1>2. ASSUME NEW r \in Replicas, FL!Sign(r) PROVE SpareInv'
  <2>1. PullTypes /\ pull[r].version \in Nat /\ UNCHANGED store
    BY <1>0, <1>2 DEF FL!Sign, PullTypes, Under
  <2>2. CASE Becomes(r, FL!Idle) /\ UNCHANGED <<cluster, rollout>>
    BY <1>0, <2>1, <2>2, SpareMove
  <2>3. ASSUME NEW x, Goes(r, x, "got"),
               (x.version = pull[r].version /\ UNCHANGED cluster) \/ (x.version = pull[r].version + 1 /\ cluster' = {x.version})
        PROVE  SpareInv'
    <3>1. x.version \in Nat /\ cluster' \subseteq Nat
      BY <1>0, <2>1, <2>3
    <3> QED BY <1>0, <2>1, <2>3, <3>1, SpareMove DEF Goes
  <2>4. \/ Becomes(r, FL!Idle) /\ UNCHANGED <<cluster, rollout>>
        \/ \E x : /\ Goes(r, x, "got")
                  /\ \/ x.version = pull[r].version /\ UNCHANGED cluster
                     \/ x.version = pull[r].version + 1 /\ cluster' = {x.version}
    BY <1>0, <1>2, SignsIt
  <2> QED BY <2>2, <2>3, <2>4
<1>3. ASSUME NEW r \in Replicas, NEW x, NEW pc, GoesOn(r, x, pc), Under(r), UNCHANGED cluster, store' = [k \in Keys |-> store'[k]],
             pc \in {"apply", "drop"} => x.todo \cap Reserved = {}
      PROVE  SpareInv'
  BY <1>0, <1>3, SpareMove DEF GoesOn, Goes, PullTypes
<1>4. ASSUME NEW r \in Replicas, Becomes(r, FL!Idle), UNCHANGED <<store, cluster>> PROVE SpareInv'
  BY <1>0, <1>4, SpareMove
<1>5. ASSUME NEW r \in Replicas, FL!Check(r) PROVE SpareInv'
  BY <1>0, <1>3, <1>4, <1>5, Checked DEF FL!Check, FL!hub, FL!At, Under
<1>6. ASSUME NEW r \in Replicas, FL!Refuse(r) \/ FL!PersistFails(r) \/ FL!Report(r) \/ FL!Restart(r) PROVE SpareInv'
  BY <1>0, <1>4, <1>6, Ended DEF FL!Refuse, FL!PersistFails, FL!Report, FL!Restart, FL!hub
<1>7. ASSUME NEW r \in Replicas, NEW pc \in {"apply", "drop"}, FL!At(r, pc), NEW k, pull' = [pull EXCEPT ![r].todo = @ \ {k}],
             NEW p, store' = [store EXCEPT ![k] = p], UNCHANGED cluster
      PROVE  SpareInv'
  <2>1. PICK x : Keeps(r, x, pc) /\ x.todo = pull[r].todo \ {k}
    BY <1>0, <1>7, DoneWith
  <2>2. x.todo \cap Reserved = {}
    BY <1>7, <2>1 DEF SpareInv
  <2>3. Under(r) /\ store' = [j \in Keys |-> store'[j]]
    BY <1>0, <1>7 DEF Under, FL!At
  <2> QED BY <1>3, <1>7, <2>1, <2>2, <2>3 DEF Keeps
<1>8. ASSUME NEW r \in Replicas, FL!Apply(r) PROVE SpareInv'
  BY <1>7, <1>8 DEF FL!Apply, FL!hub
<1>9. ASSUME NEW r \in Replicas, FL!Reconcile(r) PROVE SpareInv'
  BY <1>0, <1>3, <1>9, Reconciled DEF Keeps, FL!Reconcile, FL!hub, FL!Dropped, FL!At, Under
<1>10. ASSUME NEW r \in Replicas, FL!Drop(r) PROVE SpareInv'
  <2>1. FL!At(r, "drop") /\ UNCHANGED cluster
    BY <1>10 DEF FL!Drop, FL!hub
  <2>2. CASE pull[r].todo = {}
    <3>1. pull' = [pull EXCEPT ![r].pc = "persist"] /\ UNCHANGED store
      BY <1>10, <2>2 DEF FL!Drop
    <3>2. PICK x : GoesOn(r, x, "persist")
      BY <1>0, <2>1, <3>1, NextStage DEF Keeps
    <3>3. Under(r) /\ store' = [k \in Keys |-> store'[k]]
      BY <1>0, <2>1, <3>1 DEF FL!At, Under
    <3> QED BY <1>3, <2>1, <3>2, <3>3
  <2>3. CASE pull[r].todo # {}
    <3>1. PICK k \in pull[r].todo : store' = [store EXCEPT ![k] = FL!Absent] /\ pull' = [pull EXCEPT ![r].todo = @ \ {k}]
      BY <1>10, <2>3 DEF FL!Drop
    <3> QED BY <1>7, <2>1, <3>1
  <2> QED BY <2>2, <2>3
<1>11. ASSUME NEW r \in Replicas, FL!ApplyFails(r) PROVE SpareInv'
  <2>1. PICK pc \in {"apply", "drop"} : FL!At(r, pc)
    BY <1>11 DEF FL!ApplyFails
  <2>2. pull' = [pull EXCEPT ![r].pc = "report"] /\ UNCHANGED <<store, cluster>>
    BY <1>11 DEF FL!ApplyFails, FL!hub
  <2>3. PICK x : GoesOn(r, x, "report")
    BY <1>0, <2>1, <2>2, NextStage DEF Keeps
  <2>4. Under(r) /\ store' = [k \in Keys |-> store'[k]]
    BY <1>0, <2>1, <2>2 DEF FL!At, Under
  <2> QED BY <1>3, <2>2, <2>3, <2>4
<1>12. ASSUME NEW r \in Replicas, FL!Persist(r) PROVE SpareInv'
  <2>1. PICK x : GoesOn(r, x, "report")
    BY <1>0, <1>12, Persisted
  <2>2. Under(r) /\ UNCHANGED <<store, cluster>>
    BY <1>12 DEF FL!Persist, FL!hub, FL!At, Under
  <2> QED BY <1>0, <1>3, <2>1, <2>2
<1>13. CASE UNCHANGED pull /\ store' = [k \in Keys |-> store'[k]] /\ cluster' \subseteq Nat
  BY <1>13 DEF SpareInv, PullTypes, Under, FL!At
<1>14. ASSUME NEW r \in Replicas, FL!ClaimToken(r) \/ FL!Join(r) \/ FL!Leave(r) \/ FL!Stops(r) PROVE SpareInv'
  BY <1>0, <1>13, <1>14 DEF FL!ClaimToken, FL!Join, FL!Leave, FL!Stops, FL!hub
<1>15. CASE \/ \E n \in FL!Names : FL!Author(n) \/ FL!Retract(n)
            \/ FL!Mint \/ FL!ClaimLost \/ FL!Remove \/ FL!Heartbeat \/ UNCHANGED FL!vars
  BY <1>0, <1>13, <1>15 DEF FL!Author, FL!Retract, FL!Mint, FL!ClaimLost, FL!Remove, FL!Heartbeat, FL!vars, FL!hub
<1>16. ASSUME NEW k \in Keys, FL!Local(k) PROVE SpareInv'
  BY <1>0, <1>13, <1>16 DEF FL!Local, FL!hub
<1> QED BY <1>1, <1>2, <1>5, <1>6, <1>8, <1>9, <1>10, <1>11, <1>12, <1>14, <1>15, <1>16 DEF FL!Next, FL!Pull

(* A join token enrols at most once, for any number of replicas and        *)
(* whatever answers are lost (claim_join_token).                           *)
THEOREM TokenOnce == FL!Spec => []FL!ClaimedOnce
<1>1. FL!Init => ClaimInv
  BY DEF FL!Init, ClaimInv
<1>2. ClaimInv => FL!ClaimedOnce
  BY DEF ClaimInv, FL!ClaimedOnce
<1> QED BY <1>1, <1>2, ClaimStep, PTL DEF FL!Spec

(* No step but a leave changes a scope that the cluster manages itself,    *)
(* for any replicas, policies, bundles and recorded manifests              *)
(* (pull_once, _dropped_keys).                                             *)
THEOREM ReservedIsSpared == ASSUME Reserved \subseteq Keys PROVE FL!Spec => FL!PullsSpareReserved
<1>1. SpareInv /\ [FL!Next]_(FL!vars) => [FL!SparesReserved]_(FL!vars)
  <2> SUFFICES ASSUME SpareInv, FL!Next PROVE FL!SparesReserved
    BY DEF FL!vars
  <2>0. store = [k \in Keys |-> store[k]]
    BY DEF SpareInv, PullTypes
  <2>1. ASSUME NEW r \in Replicas, FL!Apply(r) \/ FL!Drop(r) PROVE FL!SparesReserved
    <3>1. \/ UNCHANGED store
          \/ \E k \in pull[r].todo : \E p : store' = [store EXCEPT ![k] = p]
      BY <2>1 DEF FL!Apply, FL!Drop
    <3>2. pull[r].todo \cap Reserved = {}
      BY <2>1 DEF SpareInv, FL!Apply, FL!Drop
    <3> QED BY <2>0, <3>1, <3>2 DEF FL!SparesReserved
  <2>2. ASSUME NEW k \in Keys, FL!Local(k) PROVE FL!SparesReserved
    BY <2>0, <2>2 DEF FL!Local, FL!SparesReserved
  <2>3. CASE UNCHANGED store
    BY <2>3 DEF FL!SparesReserved
  <2>4. CASE \E r \in Replicas : FL!Leave(r)
    BY <2>4 DEF FL!SparesReserved
  <2>5. ASSUME NEW r \in Replicas,
               \/ FL!Ask(r) \/ FL!Sign(r) \/ FL!Check(r) \/ FL!Refuse(r) \/ FL!Reconcile(r) \/ FL!ApplyFails(r) \/ FL!Persist(r)
               \/ FL!PersistFails(r) \/ FL!Report(r) \/ FL!ClaimToken(r) \/ FL!Join(r) \/ FL!Stops(r) \/ FL!Restart(r)
        PROVE  FL!SparesReserved
    BY <2>3, <2>5 DEF FL!Ask, FL!Sign, FL!Check, FL!Refuse, FL!Reconcile, FL!ApplyFails, FL!Persist, FL!PersistFails, FL!Report, FL!ClaimToken,
                      FL!Join, FL!Stops, FL!Restart
  <2>6. CASE \/ \E n \in FL!Names : FL!Author(n) \/ FL!Retract(n)
             \/ FL!Mint \/ FL!ClaimLost \/ FL!Remove \/ FL!Heartbeat
    BY <2>3, <2>6 DEF FL!Author, FL!Retract, FL!Mint, FL!ClaimLost, FL!Remove, FL!Heartbeat
  <2> QED BY <2>1, <2>2, <2>4, <2>5, <2>6 DEF FL!Next, FL!Pull
<1> QED BY <1>1, SpareInit, SpareStep, PTL DEF FL!Spec, FL!PullsSpareReserved
-----------------------------------------------------------------------------
(* What is recorded, and what two pulls make of it. *)

\* The ids that states are kept under.
Ids == {"cluster", "none"}

\* States have their fields.
StateTypes ==
    /\ state = [i \in Ids |-> [last |-> state[i].last, manifest |-> state[i].manifest]]
    /\ \A i \in Ids : state[i].last \in Nat

\* A pull that writes is newer than what it read as recorded.
ReadInv == StateTypes /\ \A r \in Replicas : FL!Writing(r) => pull[r].last \in Nat /\ pull[r].version > pull[r].last

\* No other replica than s is in a pull.
Only(s) == \A q \in Replicas \ {s} : ~Under(q)

\* The hub shows nothing as applied.
NoneApplied == \A o \in rollout : o.state # "applied"
\* What it shows as applied is recorded.
Shown == \A o \in rollout : o.state = "applied" => state["cluster"].last \in {0, o.version}
\* The hub keeps a digest only with a rollout that nobody has reported on.
RolloutInv ==
    /\ \A o, p \in rollout : o = p
    /\ \A o \in rollout : o.detail # {} => o.state = "pending"
\* From the signing on, nothing is shown as applied until the pull has said so, which it does only of
\* what is recorded.
ShownInv(s) ==
    /\ FL!At(s, "read") /\ ~pull[s].bump => NoneApplied
    /\ FL!At(s, "got") \/ FL!Writing(s) => NoneApplied
    /\ Under(s) /\ pull[s].pc # "report" => pull[s].state = "failed"
    /\ FL!At(s, "report") /\ pull[s].state # "failed" /\ s \in on => state["cluster"].last \in {0, pull[s].version}
\* What is shown is true, and stays so.
AppliedInv(s) == RolloutInv /\ ShownInv(s) /\ Shown

\* k was written by a bundle.
Pushed(k) == store[k].by > 0
\* What the pushed policies are on record in, stage by stage.
RecordInv(s) ==
    /\ \A k \in Keys \cap Reserved : ~Pushed(k)
    /\ ~FL!Writing(s) => \A k \in Keys : Pushed(k) => k \in FL!Recorded
    /\ FL!Writing(s) /\ s \notin on => FL!Recorded = {}
    /\ FL!Writing(s) => \A k \in Keys : Pushed(k) => k \in FL!Recorded \/ k \in DOMAIN pull[s].bundle
    /\ FL!At(s, "apply") => pull[s].todo \subseteq DOMAIN pull[s].bundle
    /\ FL!At(s, "drop") =>
          \A k \in Keys : Pushed(k) => k \in DOMAIN pull[s].bundle \/ k \in pull[s].todo \/ k \in state["none"].manifest
    /\ FL!At(s, "persist") =>
          \A k \in Keys : Pushed(k) => k \in DOMAIN pull[s].bundle \/ k \in state["none"].manifest

\* Until two pulls are under way at once there is one replica whose pull, if any, all of it is about.
SpokeInv(s) == Only(s) /\ AppliedInv(s) /\ ("torn" \notin mishaps => RecordInv(s))
AloneInv == "crossed" \notin mishaps => \E s \in Replicas : SpokeInv(s)
FleetInv == SpareInv /\ ReadInv /\ AloneInv

\* Where the pull of a replica is after a step.
LEMMA StageIs ==
    ASSUME NEW s \in Replicas, NEW x, Becomes(s, x), Whole(x)
    PROVE  pull'[s] = x /\ (\A pc : FL!At(s, pc)' <=> x.pc = pc) /\ (FL!Writing(s)' <=> x.pc \in {"apply", "drop", "persist"})
<1>1. x # FL!Idle
  BY MadeIs DEF Whole
<1>2. pull'[s] = x
  BY DEF Becomes
<1> QED BY <1>1, <1>2 DEF FL!At, FL!Writing

\* An ended pull is nowhere.
LEMMA StageNone ==
    ASSUME NEW s \in Replicas, Becomes(s, FL!Idle) PROVE (\A pc : ~FL!At(s, pc)') /\ ~FL!Writing(s)' /\ ~Under(s)'
<1>1. pull'[s] = FL!Idle
  BY DEF Becomes
<1> QED BY <1>1 DEF FL!At, FL!Writing, Under

\* A step of a pull, and where it leads.
LEMMA LeadsOn ==
    ASSUME PullTypes, NEW s \in Replicas
    PROVE  /\ FL!Ask(s) => \E x : Becomes(s, x) /\ Whole(x) /\ x.pc = "read"
           /\ FL!Sign(s) => Becomes(s, FL!Idle) \/ \E x : Goes(s, x, "got")
           /\ FL!Refuse(s) \/ FL!PersistFails(s) \/ FL!Report(s) \/ FL!Restart(s) => Becomes(s, FL!Idle)
           /\ FL!Persist(s) \/ FL!ApplyFails(s) => \E x : GoesOn(s, x, "report")
           /\ FL!Apply(s) => \E x : Keeps(s, x, "apply")
           /\ FL!Reconcile(s) => \E x : Keeps(s, x, "drop")
           /\ FL!Drop(s) => \E x : Keeps(s, x, "drop") \/ Keeps(s, x, "persist")
<1>1. FL!Ask(s) => \E x : Becomes(s, x) /\ Whole(x) /\ x.pc = "read"
  BY Asked
<1>2. FL!Sign(s) => Becomes(s, FL!Idle) \/ \E x : Goes(s, x, "got")
  BY SignsIt
<1>3. FL!Refuse(s) \/ FL!PersistFails(s) \/ FL!Report(s) \/ FL!Restart(s) => Becomes(s, FL!Idle)
  BY Ended DEF FL!Refuse, FL!PersistFails, FL!Report, FL!Restart
<1>4. FL!Persist(s) => \E x : GoesOn(s, x, "report")
  BY Persisted
<1>5. FL!ApplyFails(s) => \E x : GoesOn(s, x, "report")
  <2>1. FL!ApplyFails(s) => \E x : Keeps(s, x, "report")
    BY NextStage DEF FL!ApplyFails
  <2> QED BY <2>1 DEF Keeps
<1>6. FL!Apply(s) => \E x : Keeps(s, x, "apply")
  BY DoneWith DEF FL!Apply
<1>7. FL!Reconcile(s) => \E x : Keeps(s, x, "drop")
  BY Reconciled
<1>8. FL!Drop(s) => \E x : Keeps(s, x, "drop") \/ Keeps(s, x, "persist")
  <2>1. CASE pull[s].todo = {}
    BY <2>1, NextStage DEF FL!Drop
  <2>2. CASE pull[s].todo # {}
    BY <2>2, DoneWith DEF FL!Drop
  <2> QED BY <2>1, <2>2
<1> QED BY <1>1, <1>2, <1>3, <1>4, <1>5, <1>6, <1>7, <1>8

\* Every step keeps what pulls have read, however many replicas pull.
LEMMA ReadStep == SpareInv /\ ReadInv /\ [FL!Next]_(FL!vars) => ReadInv'
<1> SUFFICES ASSUME SpareInv, ReadInv, [FL!Next]_(FL!vars) PROVE ReadInv'
  OBVIOUS
<1>0. PullTypes /\ StateTypes
  BY DEF SpareInv, ReadInv
<1>1. ASSUME UNCHANGED pull, StateTypes' PROVE ReadInv'
  BY <1>1 DEF ReadInv, FL!Writing, FL!At
<1>2. ASSUME NEW r \in Replicas, NEW x, Becomes(r, x), StateTypes',
             FL!Writing(r)' => x.last \in Nat /\ x.version > x.last
      PROVE  ReadInv'
  <2>1. pull'[r] = x /\ \A q \in Replicas \ {r} : pull'[q] = pull[q]
    BY <1>2 DEF Becomes
  <2>2. ASSUME NEW q \in Replicas, q # r, FL!Writing(q)' PROVE pull'[q].last \in Nat /\ pull'[q].version > pull'[q].last
    <3>1. FL!Writing(q) /\ pull'[q] = pull[q]
      BY <2>1, <2>2 DEF FL!Writing, FL!At
    <3> QED BY <3>1 DEF ReadInv
  <2> QED BY <1>2, <2>1, <2>2 DEF ReadInv
<1>3. UNCHANGED state => StateTypes'
  BY <1>0 DEF StateTypes
<1>4. ASSUME NEW r \in Replicas, Becomes(r, FL!Idle), UNCHANGED state PROVE ReadInv'
  BY <1>2, <1>3, <1>4, StageNone
<1>5. ASSUME NEW r \in Replicas, NEW x, Becomes(r, x), Whole(x), x.pc \in {"read", "got", "report"}, StateTypes' PROVE ReadInv'
  BY <1>2, <1>5, StageIs
<1>6. ASSUME NEW r \in Replicas, FL!Ask(r) \/ FL!Sign(r) \/ FL!Refuse(r) \/ FL!PersistFails(r) \/ FL!Report(r) \/ FL!Restart(r) \/ FL!ApplyFails(r)
      PROVE  ReadInv'
  <2>1. UNCHANGED state
    BY <1>6 DEF FL!Ask, FL!Sign, FL!Refuse, FL!PersistFails, FL!Report, FL!Restart, FL!ApplyFails
  <2>2. Becomes(r, FL!Idle) \/ \E x : Becomes(r, x) /\ Whole(x) /\ x.pc \in {"read", "got", "report"}
    BY <1>0, <1>6, LeadsOn DEF GoesOn, Goes
  <2> QED BY <1>3, <1>4, <1>5, <2>1, <2>2
<1>7. ASSUME NEW r \in Replicas, FL!Check(r) PROVE ReadInv'
  <2>0. UNCHANGED state /\ state[FL!Id(r)].last \in Nat
    BY <1>0, <1>7 DEF FL!Check, StateTypes, Ids, FL!Id
  <2>1. CASE Becomes(r, FL!Idle)
    BY <1>4, <2>0, <2>1
  <2>2. ASSUME FL!Newer(r), NEW x, GoesOn(r, x, "apply"), x.last = state[FL!Id(r)].last PROVE ReadInv'
    BY <1>2, <1>3, <2>0, <2>2 DEF GoesOn, Goes, FL!Newer
  <2> QED BY <1>0, <1>7, <2>1, <2>2, Checked
<1>8. ASSUME NEW r \in Replicas, FL!Apply(r) \/ FL!Reconcile(r) \/ FL!Drop(r) PROVE ReadInv'
  <2>1. UNCHANGED state /\ FL!Writing(r)
    BY <1>8 DEF FL!Apply, FL!Reconcile, FL!Drop, FL!Writing
  <2>2. PICK pc, x : Keeps(r, x, pc)
    BY <1>0, <1>8, LeadsOn
  <2>3. Becomes(r, x) /\ x.last = pull[r].last /\ x.version = pull[r].version
    BY <2>2 DEF Keeps, GoesOn, Goes
  <2> QED BY <1>2, <1>3, <2>1, <2>3 DEF ReadInv
<1>9. ASSUME NEW r \in Replicas, FL!Persist(r) PROVE ReadInv'
  <2>1. pull[r].version \in Nat
    BY <1>0, <1>9 DEF PullTypes, Under, FL!Persist, FL!At
  <2>2. StateTypes'
    BY <1>0, <1>9, <2>1 DEF StateTypes, FL!Persist, FL!Id
  <2>3. PICK x : GoesOn(r, x, "report")
    BY <1>0, <1>9, Persisted
  <2> QED BY <1>5, <2>2, <2>3 DEF GoesOn, Goes
<1>10. ASSUME NEW r \in Replicas, FL!Join(r) \/ FL!Leave(r) PROVE ReadInv'
  <2>1. StateTypes' /\ UNCHANGED pull
    BY <1>0, <1>10 DEF StateTypes, FL!Join, FL!Leave
  <2> QED BY <1>1, <2>1
<1>11. ASSUME NEW r \in Replicas, FL!ClaimToken(r) \/ FL!Stops(r) PROVE ReadInv'
  BY <1>1, <1>3, <1>11 DEF FL!ClaimToken, FL!Stops
<1>12. CASE \/ \E n \in FL!Names : FL!Author(n) \/ FL!Retract(n)
            \/ FL!Mint \/ FL!ClaimLost \/ FL!Remove \/ FL!Heartbeat \/ UNCHANGED FL!vars \/ \E k \in Keys : FL!Local(k)
  BY <1>1, <1>3, <1>12 DEF FL!Author, FL!Retract, FL!Mint, FL!ClaimLost, FL!Remove, FL!Heartbeat, FL!vars, FL!Local
<1> QED BY <1>6, <1>7, <1>8, <1>9, <1>10, <1>11, <1>12 DEF FL!Next, FL!Pull

-----------------------------------------------------------------------------
(* One pull at a time. *)

\* A step that the pull of s takes no part in, and that nobody joins or leaves by.
Apart(s) ==
    /\ UNCHANGED <<pull, state>> /\ (s \in on' <=> s \in on) /\ rollout' \in {rollout, {}}
    /\ \A k \in Keys : Pushed(k)' => Pushed(k)

\* While only s is in a pull, the steps of the others are few.
LEMMA Acting ==
    ASSUME PullTypes, NEW s \in Replicas, Only(s), Only(s)', [FL!Next]_(FL!vars)
    PROVE  FL!Pull(s) \/ FL!Restart(s) \/ (\E r \in Replicas : FL!Join(r) \/ FL!Leave(r)) \/ Apart(s)
<1>1. ASSUME NEW r \in Replicas, r # s, FL!Pull(r) PROVE FALSE
  <2>1. FL!Ask(r) => Under(r)'
    <3>1. ASSUME NEW x, Becomes(r, x), Whole(x) PROVE Under(r)'
      <4>1. x # FL!Idle
        BY <3>1, MadeIs DEF Whole
      <4> QED BY <3>1, <4>1 DEF Becomes, Under
    <3> QED BY <3>1, LeadsOn
  <2>2. FL!Ask(r) \/ Under(r)
    BY <1>1 DEF FL!Pull, FL!Sign, FL!Check, FL!Refuse, FL!Apply, FL!Reconcile, FL!Drop, FL!ApplyFails, FL!Persist, FL!PersistFails,
                FL!Report, FL!At, Under
  <2> QED BY <1>1, <2>1, <2>2 DEF Only
<1>2. ASSUME NEW r \in Replicas, r # s, FL!Restart(r) PROVE Apart(s)
  <2>1. UNCHANGED pull
    BY <1>2 DEF FL!Restart, FL!Ends, PullTypes, Only, Under
  <2> QED BY <1>2, <2>1 DEF FL!Restart, FL!hub, Apart, Pushed
<1>3. ASSUME NEW r \in Replicas, FL!ClaimToken(r) \/ FL!Stops(r) PROVE Apart(s)
  BY <1>3 DEF FL!ClaimToken, FL!Stops, FL!hub, Apart, Pushed
<1>4. CASE \/ \E n \in FL!Names : FL!Author(n) \/ FL!Retract(n)
           \/ FL!Mint \/ FL!ClaimLost \/ FL!Remove \/ FL!Heartbeat \/ UNCHANGED FL!vars
  BY <1>4 DEF FL!Author, FL!Retract, FL!Mint, FL!ClaimLost, FL!Remove, FL!Heartbeat, FL!vars, FL!hub, Apart, Pushed
<1>5. ASSUME NEW k \in Keys, FL!Local(k) PROVE Apart(s)
  <2>1. \A j \in Keys : Pushed(j)' => Pushed(j)
    BY <1>5 DEF FL!Local, PullTypes, Pushed, FL!Own, FL!Absent
  <2> QED BY <1>5, <2>1 DEF FL!Local, FL!hub, Apart
<1> QED BY <1>1, <1>2, <1>3, <1>4, <1>5 DEF FL!Next

\* Every step keeps what the hub shows true.
LEMMA AppliedStep ==
    ASSUME NEW s \in Replicas, SpareInv, ReadInv, Only(s), Only(s)', AppliedInv(s), [FL!Next]_(FL!vars) PROVE AppliedInv(s)'
<1>0. PullTypes /\ StateTypes
  BY DEF SpareInv, ReadInv
<1>1. CASE Apart(s)
  BY <1>1 DEF Apart, AppliedInv, RolloutInv, ShownInv, NoneApplied, FL!Writing, FL!At, Under, Shown
<1>2. ASSUME Becomes(s, FL!Idle), UNCHANGED <<state, rollout>> PROVE AppliedInv(s)'
  <2>1. (\A pc : ~FL!At(s, pc)') /\ ~FL!Writing(s)' /\ ~Under(s)'
    BY <1>2, StageNone DEF Under, Becomes
  <2> QED BY <1>2, <2>1 DEF AppliedInv, RolloutInv, ShownInv, Shown
\* A pull that goes on where nothing is shown as applied.
<1>3. ASSUME NEW x, NEW pc \in {"got", "apply", "drop", "persist"}, Goes(s, x, pc), NoneApplied', RolloutInv', FL!At(s, pull[s].pc),
             pull[s].pc # "report"
      PROVE  AppliedInv(s)'
  <2>1. pull'[s] = x /\ x.state = "failed" /\ \A q : FL!At(s, q)' <=> pc = q
    BY <1>3, StageIs DEF Goes, AppliedInv, ShownInv, FL!At, Under
  <2>2. ~FL!At(s, "read")' /\ ~FL!At(s, "report")'
    BY <2>1
  <2> QED BY <1>3, <2>1, <2>2 DEF AppliedInv, ShownInv, NoneApplied, Shown
<1>4. CASE FL!Ask(s)
  <2>1. PICK x : /\ Becomes(s, x) /\ Whole(x) /\ x.pc = "read" /\ x.state = "failed"
                 /\ ~x.bump => \E o \in rollout : o.detail # {}
    BY <1>0, <1>4, Asked
  <2>2. pull'[s] = x /\ ~FL!Writing(s)' /\ \A q : FL!At(s, q)' <=> q = "read"
    BY <2>1, StageIs
  <2>3. UNCHANGED <<rollout, state, on>>
    BY <1>4 DEF FL!Ask, FL!hub
  <2>4. ~x.bump => NoneApplied
    <3>1. SUFFICES ASSUME NEW o \in rollout, o.detail # {} PROVE NoneApplied
      BY <2>1, Zenon
    <3>2. o.state = "pending" /\ \A p \in rollout : p = o
      BY <3>1 DEF AppliedInv, RolloutInv
    <3> QED BY <3>2 DEF NoneApplied
  <2>5. (FL!At(s, "read") /\ ~pull[s].bump => NoneApplied)'
    <3>1. ~pull'[s].bump => NoneApplied
      BY <2>2, <2>4, Zenon
    <3>2. NoneApplied => NoneApplied'
      BY <2>3 DEF NoneApplied
    <3> QED BY <3>1, <3>2, Zenon
  <2>6. ~FL!At(s, "report")' /\ ~FL!At(s, "got")'
    BY <2>2
  <2>7. RolloutInv' /\ Shown'
    BY <2>3 DEF AppliedInv, RolloutInv, Shown
  <2> QED BY <2>1, <2>2, <2>5, <2>6, <2>7 DEF AppliedInv, ShownInv
<1>5. CASE FL!Sign(s)
  <2>1. FL!At(s, "read") /\ pull[s].pc = "read" /\ UNCHANGED <<state, on>>
    BY <1>5 DEF FL!Sign, FL!At
  <2>2. CASE Becomes(s, FL!Idle) /\ UNCHANGED <<cluster, rollout>>
    BY <1>2, <2>1, <2>2
  <2>3. ASSUME NEW x, Goes(s, x, "got"), ~pull[s].bump, UNCHANGED rollout PROVE AppliedInv(s)'
    <3>1. NoneApplied
      BY <2>1, <2>3 DEF AppliedInv, ShownInv
    <3>2. NoneApplied' /\ RolloutInv'
      BY <2>3, <3>1 DEF AppliedInv, RolloutInv, NoneApplied
    <3> QED BY <1>3, <2>1, <2>3, <3>2
  <2>4. ASSUME NEW x, Goes(s, x, "got"), NEW d, rollout' = {[version |-> x.version, detail |-> d, state |-> "pending"]} PROVE AppliedInv(s)'
    <3>1. NoneApplied' /\ RolloutInv'
      BY <2>4 DEF RolloutInv, NoneApplied
    <3> QED BY <1>3, <2>1, <2>4, <3>1
  <2> QED BY <1>0, <1>5, <2>2, <2>3, <2>4, SignsIt
<1>6. ASSUME NEW x, NEW pc \in {"apply", "drop", "persist"}, GoesOn(s, x, pc), FL!At(s, "got") \/ FL!Writing(s), UNCHANGED rollout
      PROVE  AppliedInv(s)'
  <2>1. NoneApplied' /\ RolloutInv'
    BY <1>6 DEF AppliedInv, RolloutInv, ShownInv, NoneApplied
  <2>2. FL!At(s, pull[s].pc) /\ pull[s].pc # "report"
    BY <1>6 DEF FL!At, FL!Writing
  <2> QED BY <1>3, <1>6, <2>1, <2>2 DEF GoesOn
<1>7. CASE FL!Check(s)
  <2>1. FL!At(s, "got") /\ UNCHANGED <<rollout, state>>
    BY <1>7 DEF FL!Check, FL!hub
  <2> QED BY <1>0, <1>2, <1>6, <1>7, <2>1, Checked
<1>8. CASE FL!Apply(s) \/ FL!Reconcile(s) \/ FL!Drop(s)
  <2>1. UNCHANGED rollout /\ FL!Writing(s)
    BY <1>8 DEF FL!Apply, FL!Reconcile, FL!Drop, FL!hub, FL!Writing
  <2>2. PICK pc \in {"apply", "drop", "persist"} : \E x : GoesOn(s, x, pc)
    BY <1>0, <1>8, LeadsOn DEF Keeps
  <2> QED BY <1>6, <2>1, <2>2
<1>9. ASSUME NEW x, GoesOn(s, x, "report"), FL!Writing(s), UNCHANGED <<rollout, on>>,
             x.state = "failed" \/ (s \in on => state'["cluster"].last = x.version)
      PROVE  AppliedInv(s)'
  <2>1. pull'[s] = x /\ ~FL!Writing(s)' /\ \A q : FL!At(s, q)' <=> q = "report"
    BY <1>9, StageIs DEF GoesOn, Goes
  <2>2. ~FL!At(s, "read")' /\ ~FL!At(s, "got")' /\ x.pc = "report"
    BY <1>9, <2>1 DEF GoesOn, Goes
  <2>3. NoneApplied
    BY <1>9 DEF AppliedInv, ShownInv
  <2>4. RolloutInv' /\ Shown'
    BY <1>9, <2>3 DEF AppliedInv, RolloutInv, Shown, NoneApplied
  <2> QED BY <1>9, <2>1, <2>2, <2>4 DEF AppliedInv, ShownInv
<1>10. CASE FL!ApplyFails(s)
  <2>1. PICK pc \in {"apply", "drop"} : FL!At(s, pc)
    BY <1>10 DEF FL!ApplyFails
  <2>2. PICK x : GoesOn(s, x, "report") /\ x.state = pull[s].state
    BY <1>0, <1>10, <2>1, NextStage DEF FL!ApplyFails, Keeps
  <2>3. x.state = "failed" /\ FL!Writing(s) /\ UNCHANGED <<rollout, on>>
    BY <1>10, <2>1, <2>2 DEF AppliedInv, ShownInv, FL!At, Under, FL!Writing, FL!ApplyFails, FL!hub
  <2> QED BY <1>9, <2>2, <2>3
<1>11. CASE FL!Persist(s)
  <2>1. PICK x : GoesOn(s, x, "report") /\ x.version = pull[s].version
    BY <1>0, <1>11, Persisted DEF GoesOn
  <2>2. FL!Writing(s) /\ UNCHANGED <<rollout, on>> /\ (s \in on => state'["cluster"].last = pull[s].version)
    BY <1>0, <1>11 DEF FL!Persist, FL!hub, FL!Id, StateTypes, Ids, FL!Writing
  <2> QED BY <1>9, <2>1, <2>2
<1>12. CASE FL!Refuse(s) \/ FL!PersistFails(s) \/ FL!Restart(s)
  BY <1>0, <1>2, <1>12, LeadsOn DEF FL!Refuse, FL!PersistFails, FL!Restart, FL!hub
<1>13. CASE FL!Report(s)
  <2>1. Becomes(s, FL!Idle) /\ UNCHANGED state /\ FL!At(s, "report")
    BY <1>0, <1>13, LeadsOn DEF FL!Report
  <2>2. CASE UNCHANGED rollout
    BY <1>2, <2>1, <2>2
  <2>3. CASE s \in on /\ rollout' = FL!Reported(s)
    <3>1. \A o \in rollout' : o.detail = {} /\ (o.state = "applied" => pull[s].state # "failed" /\ o.version = pull[s].version)
      BY <2>3 DEF FL!Reported
    <3>2. \A o, p \in rollout' : o = p
      BY <2>3 DEF FL!Reported, AppliedInv, RolloutInv
    <3>3. Shown'
      BY <2>1, <2>3, <3>1 DEF Shown, AppliedInv, ShownInv
    <3>4. RolloutInv'
      BY <3>1, <3>2 DEF RolloutInv
    <3>5. (\A pc : ~FL!At(s, pc)') /\ ~FL!Writing(s)' /\ ~Under(s)'
      BY <2>1, StageNone DEF Under, Becomes
    <3> QED BY <3>3, <3>4, <3>5 DEF AppliedInv, ShownInv
  <2> QED BY <1>13, <2>2, <2>3 DEF FL!Report
<1>14. ASSUME NEW r \in Replicas, FL!Join(r) \/ FL!Leave(r) PROVE AppliedInv(s)'
  <2>1. state'["cluster"].last = 0 /\ UNCHANGED <<pull, rollout>>
    BY <1>0, <1>14 DEF StateTypes, Ids, FL!Join, FL!Leave, FL!hub
  <2> QED BY <2>1 DEF AppliedInv, RolloutInv, ShownInv, NoneApplied, FL!Writing, FL!At, Under, Shown
<1> QED BY <1>0, <1>1, <1>4, <1>5, <1>7, <1>8, <1>10, <1>11, <1>12, <1>13, <1>14, Acting DEF FL!Pull

\* What has gone wrong stays so.
LEMMA MishapStep == [FL!Next]_(FL!vars) => mishaps \subseteq mishaps'
<1> SUFFICES ASSUME [FL!Next]_(FL!vars) PROVE mishaps \subseteq mishaps'
  OBVIOUS
<1>1. ASSUME NEW r \in Replicas, FL!Pull(r) PROVE mishaps \subseteq mishaps'
  BY <1>1 DEF FL!Pull, FL!Ask, FL!Sign, FL!Check, FL!Refuse, FL!Apply, FL!Reconcile, FL!Drop, FL!ApplyFails, FL!Persist, FL!PersistFails, FL!Report
<1>2. ASSUME NEW r \in Replicas, FL!ClaimToken(r) \/ FL!Join(r) \/ FL!Leave(r) \/ FL!Stops(r) \/ FL!Restart(r)
      PROVE  mishaps \subseteq mishaps'
  BY <1>2 DEF FL!ClaimToken, FL!Join, FL!Leave, FL!Stops, FL!Restart
<1>3. CASE \/ \E n \in FL!Names : FL!Author(n) \/ FL!Retract(n)
           \/ FL!Mint \/ FL!ClaimLost \/ FL!Remove \/ FL!Heartbeat \/ UNCHANGED FL!vars \/ \E k \in Keys : FL!Local(k)
  BY <1>3 DEF FL!Author, FL!Retract, FL!Mint, FL!ClaimLost, FL!Remove, FL!Heartbeat, FL!vars, FL!Local
<1> QED BY <1>1, <1>2, <1>3 DEF FL!Next

\* Every step keeps the pushed policies on record, unless it tears a pull.
LEMMA RecordStep ==
    ASSUME NEW s \in Replicas, SpareInv, ReadInv, ReadInv', Only(s), Only(s)', RecordInv(s), "torn" \notin mishaps', [FL!Next]_(FL!vars)
    PROVE  RecordInv(s)'
<1>0. PullTypes /\ StateTypes
  BY DEF SpareInv, ReadInv
<1>r. /\ FL!Recorded = state["cluster"].manifest \cup state["none"].manifest
      /\ FL!Recorded' = state'["cluster"].manifest \cup state'["none"].manifest
  <2>1. DOMAIN state = Ids /\ DOMAIN state' = Ids
    BY DEF ReadInv, StateTypes
  <2> QED BY <2>1 DEF FL!Recorded, Ids
<1>1. ASSUME Apart(s) PROVE RecordInv(s)'
  <2>1. (FL!Writing(s)' <=> FL!Writing(s)) /\ \A pc : FL!At(s, pc)' <=> FL!At(s, pc)
    BY <1>1 DEF Apart, FL!Writing, FL!At
  <2> QED BY <1>1, <1>r, <2>1 DEF Apart, RecordInv
<1>2. ASSUME ~FL!Writing(s), ~FL!Writing(s)', UNCHANGED <<store, state>> PROVE RecordInv(s)'
  <2>1. ~FL!At(s, "apply")' /\ ~FL!At(s, "drop")' /\ ~FL!At(s, "persist")'
    BY <1>2 DEF FL!Writing
  <2> QED BY <1>2, <1>r, <2>1 DEF RecordInv, Pushed
<1>3. CASE FL!Ask(s) \/ FL!Sign(s) \/ FL!Refuse(s) \/ FL!Report(s)
  <2>1. ~FL!Writing(s)'
    BY <1>0, <1>3, LeadsOn, StageIs, StageNone DEF Goes
  <2>2. ~FL!Writing(s) /\ UNCHANGED <<store, state>>
    BY <1>3 DEF FL!Ask, FL!Sign, FL!Refuse, FL!Report, FL!Writing, FL!At
  <2> QED BY <1>2, <2>1, <2>2
<1>4. CASE FL!Check(s)
  <2>1. ~FL!Writing(s) /\ UNCHANGED <<store, state, on>>
    BY <1>4 DEF FL!Check, FL!Writing, FL!At
  <2>2. CASE Becomes(s, FL!Idle)
    BY <1>2, <2>1, <2>2, StageNone
  <2>3. ASSUME s \in on, NEW x, GoesOn(s, x, "apply"), x.todo = DOMAIN pull[s].bundle \ Reserved PROVE RecordInv(s)'
    <3>1. pull'[s] = x /\ x.bundle = pull[s].bundle /\ \A q : FL!At(s, q)' <=> q = "apply"
      BY <2>3, StageIs DEF GoesOn, Goes
    <3>2. FL!Writing(s)' /\ ~FL!At(s, "drop")' /\ ~FL!At(s, "persist")'
      BY <3>1 DEF FL!Writing
    <3> QED BY <1>r, <2>1, <2>3, <3>1, <3>2 DEF RecordInv, Pushed
  <2> QED BY <1>0, <1>4, <2>2, <2>3, Checked
<1>5. CASE FL!Apply(s)
  <2>1. PICK k \in pull[s].todo : /\ store' = [store EXCEPT ![k] = [text |-> pull[s].bundle[k], by |-> pull[s].version]]
                                      /\ pull' = [pull EXCEPT ![s].todo = @ \ {k}]
    BY <1>5 DEF FL!Apply
  <2>2. FL!At(s, "apply") /\ UNCHANGED <<state, on>> /\ FL!Writing(s)
    BY <1>5 DEF FL!Apply, FL!Writing
  <2>3. PICK x : Keeps(s, x, "apply") /\ x.todo = pull[s].todo \ {k}
    BY <1>0, <2>1, <2>2, DoneWith
  <2>4. pull'[s] = x /\ x.bundle = pull[s].bundle /\ \A q : FL!At(s, q)' <=> q = "apply"
    BY <2>3, StageIs DEF Keeps, GoesOn, Goes
  <2>5. FL!Writing(s)' /\ ~FL!At(s, "drop")' /\ ~FL!At(s, "persist")'
    BY <2>4 DEF FL!Writing
  <2>6. k \notin Reserved /\ \A j \in Keys : Pushed(j)' => Pushed(j) \/ j = k
    BY <1>0, <2>1, <2>2 DEF SpareInv, PullTypes, Pushed
  <2> QED BY <1>r, <2>1, <2>2, <2>3, <2>4, <2>5, <2>6 DEF RecordInv
<1>6. CASE FL!Reconcile(s)
  <2>1. FL!At(s, "apply") /\ FL!Writing(s) /\ UNCHANGED <<store, state, on>>
    BY <1>6 DEF FL!Reconcile, FL!Writing
  <2>2. PICK x : GoesOn(s, x, "drop") /\ x.todo = FL!Dropped(s)
    BY <1>0, <1>6, Reconciled DEF Keeps
  <2>3. pull'[s] = x /\ x.bundle = pull[s].bundle /\ \A q : FL!At(s, q)' <=> q = "drop"
    BY <2>2, StageIs DEF GoesOn, Goes
  <2>4. FL!Writing(s)' /\ ~FL!At(s, "apply")' /\ ~FL!At(s, "persist")'
    BY <2>3 DEF FL!Writing
  <2>5. \A k \in Keys : Pushed(k) => k \in DOMAIN pull[s].bundle \/ k \in FL!Dropped(s) \/ k \in state["none"].manifest
    BY <1>r, <2>1 DEF RecordInv, FL!Dropped, FL!Id
  <2>6. \A k \in Keys : Pushed(k)' <=> Pushed(k)
    BY <2>1 DEF Pushed
  <2> QED BY <1>r, <2>1, <2>2, <2>3, <2>4, <2>5, <2>6 DEF RecordInv
<1>7. CASE FL!Drop(s)
  <2>1. FL!At(s, "drop") /\ FL!Writing(s) /\ UNCHANGED <<state, on>>
    BY <1>7 DEF FL!Drop, FL!Writing
  <2>2. CASE pull[s].todo = {}
    <3>1. pull' = [pull EXCEPT ![s].pc = "persist"] /\ UNCHANGED store
      BY <1>7, <2>2 DEF FL!Drop
    <3>2. PICK x : GoesOn(s, x, "persist")
      BY <1>0, <2>1, <3>1, NextStage DEF Keeps
    <3>3. pull'[s] = x /\ x.bundle = pull[s].bundle /\ \A q : FL!At(s, q)' <=> q = "persist"
      BY <3>2, StageIs DEF GoesOn, Goes
    <3>4. FL!Writing(s)' /\ ~FL!At(s, "apply")' /\ ~FL!At(s, "drop")'
      BY <3>3 DEF FL!Writing
    <3>5. \A k \in Keys : Pushed(k)' <=> Pushed(k)
      BY <3>1 DEF Pushed
    <3> QED BY <1>r, <2>1, <2>2, <3>3, <3>4, <3>5 DEF RecordInv
  <2>3. CASE pull[s].todo # {}
    <3>1. PICK k \in pull[s].todo : store' = [store EXCEPT ![k] = FL!Absent] /\ pull' = [pull EXCEPT ![s].todo = @ \ {k}]
      BY <1>7, <2>3 DEF FL!Drop
    <3>2. PICK x : Keeps(s, x, "drop") /\ x.todo = pull[s].todo \ {k}
      BY <1>0, <2>1, <3>1, DoneWith
    <3>3. pull'[s] = x /\ x.bundle = pull[s].bundle /\ \A q : FL!At(s, q)' <=> q = "drop"
      BY <3>2, StageIs DEF Keeps, GoesOn, Goes
    <3>4. FL!Writing(s)' /\ ~FL!At(s, "apply")' /\ ~FL!At(s, "persist")'
      BY <3>3 DEF FL!Writing
    <3>5. \A j \in Keys : Pushed(j)' => Pushed(j) /\ j # k
      BY <1>0, <3>1 DEF PullTypes, Pushed, FL!Absent
    <3> QED BY <1>r, <2>1, <3>2, <3>3, <3>4, <3>5 DEF RecordInv
  <2> QED BY <2>2, <2>3
<1>8. CASE FL!Persist(s)
  <2>1. FL!At(s, "persist") /\ FL!Writing(s) /\ UNCHANGED <<store, on>>
    BY <1>8 DEF FL!Persist, FL!Writing
  <2>2. ~FL!Writing(s)'
    BY <1>0, <1>8, LeadsOn, StageIs DEF GoesOn, Goes
  <2>3. ~FL!At(s, "apply")' /\ ~FL!At(s, "drop")' /\ ~FL!At(s, "persist")'
    BY <2>2 DEF FL!Writing
  <2>4. \A k \in Keys : (Pushed(k)' <=> Pushed(k)) /\ (Pushed(k) => k \notin Reserved)
    BY <2>1 DEF Pushed, RecordInv
  <2>5. \A k \in Keys : Pushed(k) => k \in FL!Recorded'
    <3>1. CASE s \in on
      <4>1. state'["cluster"].manifest = DOMAIN pull[s].bundle \ Reserved /\ state'["none"] = state["none"]
        BY <1>0, <1>8, <3>1 DEF FL!Persist, FL!Id, StateTypes, Ids
      <4> QED BY <1>r, <2>1, <2>4, <4>1 DEF RecordInv
    <3>2. CASE s \notin on
      <4>1. state'["none"].manifest = DOMAIN pull[s].bundle \ Reserved
        BY <1>0, <1>8, <3>2 DEF FL!Persist, FL!Id, StateTypes, Ids
      <4>2. FL!Recorded = {}
        BY <2>1, <3>2 DEF RecordInv
      <4> QED BY <1>r, <2>1, <2>4, <4>1, <4>2 DEF RecordInv
    <3> QED BY <3>1, <3>2
  <2> QED BY <2>2, <2>3, <2>4, <2>5 DEF RecordInv
<1>9. ASSUME NEW r \in Replicas, FL!Join(r) PROVE RecordInv(s)'
  <2>1. /\ state'["cluster"].manifest = state["cluster"].manifest /\ state'["none"].manifest = state["none"].manifest
        /\ UNCHANGED <<store, pull>> /\ (s \in on => s \in on')
    BY <1>0, <1>9 DEF FL!Join, StateTypes, Ids
  <2>2. (FL!Writing(s)' <=> FL!Writing(s)) /\ \A pc : FL!At(s, pc)' <=> FL!At(s, pc)
    BY <2>1 DEF FL!Writing, FL!At
  <2> QED BY <1>r, <2>1, <2>2 DEF RecordInv, Pushed
<1>10. ASSUME NEW r \in Replicas, FL!Leave(r) PROVE RecordInv(s)'
  <2>1. /\ state'["cluster"].manifest = {} /\ state'["none"].manifest = {} /\ UNCHANGED pull
        /\ store' = [k \in Keys |-> IF k \in FL!Recorded THEN FL!Absent ELSE store[k]]
    BY <1>0, <1>10 DEF FL!Leave, StateTypes, Ids
  <2>2. (FL!Writing(s)' <=> FL!Writing(s)) /\ \A pc : FL!At(s, pc)' <=> FL!At(s, pc)
    BY <2>1 DEF FL!Writing, FL!At
  <2>3. \A k \in Keys : Pushed(k)' => Pushed(k) /\ k \notin FL!Recorded
    BY <2>1 DEF Pushed, FL!Absent
  <2>4. FL!At(s, "drop") \/ FL!At(s, "persist") \/ FL!At(s, "apply") => FL!Writing(s)
    BY DEF FL!Writing
  <2> QED BY <1>r, <2>1, <2>2, <2>3, <2>4 DEF RecordInv
<1>11. CASE FL!ApplyFails(s) \/ FL!PersistFails(s)
  BY <1>11 DEF FL!ApplyFails, FL!PersistFails
<1>12. CASE FL!Restart(s)
  <2>1. ~FL!Writing(s) /\ UNCHANGED <<store, state>>
    BY <1>12 DEF FL!Restart
  <2>2. ~FL!Writing(s)'
    BY <1>0, <1>12, LeadsOn, StageNone
  <2> QED BY <1>2, <2>1, <2>2
<1> QED BY <1>0, <1>1, <1>3, <1>4, <1>5, <1>6, <1>7, <1>8, <1>9, <1>10, <1>11, <1>12, Acting DEF FL!Pull

\* Between pulls it does not matter whose comes next.
LEMMA Switch ==
    ASSUME NEW s \in Replicas, NEW q \in Replicas, SpokeInv(q), ~Under(q), ~Under(s) PROVE SpokeInv(s)
<1>1. (\A pc : ~FL!At(s, pc) /\ ~FL!At(q, pc)) /\ ~FL!Writing(s) /\ ~FL!Writing(q)
  BY DEF FL!At, FL!Writing, Under
<1>2. Only(s)
  BY DEF SpokeInv, Only
<1>3. AppliedInv(s)
  BY <1>1 DEF SpokeInv, AppliedInv, ShownInv
<1>4. RecordInv(q) => RecordInv(s)
  BY <1>1 DEF RecordInv
<1> QED BY <1>2, <1>3, <1>4 DEF SpokeInv

\* Only asking begins a pull.
LEMMA NoneBegins ==
    ASSUME PullTypes, [FL!Next]_(FL!vars), \A r \in Replicas : ~FL!Ask(r) PROVE \A r \in Replicas : Under(r)' => Under(r)
<1>1. ASSUME NEW r \in Replicas, FL!Pull(r) \/ FL!Restart(r) PROVE \A q \in Replicas : Under(q)' => Under(q)
  <2>1. Under(r) \/ FL!Restart(r)
    BY <1>1 DEF FL!Pull, FL!Sign, FL!Check, FL!Refuse, FL!Apply, FL!Reconcile, FL!Drop, FL!ApplyFails, FL!Persist, FL!PersistFails,
                FL!Report, FL!At, Under
  <2>2. \E x : Becomes(r, x) /\ (FL!Restart(r) => x = FL!Idle)
    <3>1. CASE FL!Restart(r)
      BY <3>1, LeadsOn
    <3>2. CASE ~FL!Restart(r) /\ ~FL!Check(r)
      BY <1>1, <3>2, LeadsOn DEF FL!Pull, Keeps, GoesOn, Goes
    <3>3. CASE ~FL!Restart(r) /\ FL!Check(r)
      BY <3>3, Checked DEF GoesOn, Goes
    <3> QED BY <3>1, <3>2, <3>3
  <2> QED BY <2>1, <2>2 DEF Becomes, Under
<1>2. CASE UNCHANGED pull
  BY <1>2 DEF Under
<1>3. ASSUME NEW r \in Replicas, FL!ClaimToken(r) \/ FL!Join(r) \/ FL!Leave(r) \/ FL!Stops(r) PROVE UNCHANGED pull
  BY <1>3 DEF FL!ClaimToken, FL!Join, FL!Leave, FL!Stops
<1>4. CASE \/ \E n \in FL!Names : FL!Author(n) \/ FL!Retract(n)
           \/ FL!Mint \/ FL!ClaimLost \/ FL!Remove \/ FL!Heartbeat \/ UNCHANGED FL!vars \/ \E k \in Keys : FL!Local(k)
  BY <1>2, <1>4 DEF FL!Author, FL!Retract, FL!Mint, FL!ClaimLost, FL!Remove, FL!Heartbeat, FL!vars, FL!Local
<1> QED BY <1>1, <1>2, <1>3, <1>4 DEF FL!Next

\* Until two pulls overlap, every step is about one replica's.
LEMMA AloneStep ==
    ASSUME SpareInv, ReadInv, ReadInv', AloneInv, [FL!Next]_(FL!vars) PROVE AloneInv'
<1> SUFFICES ASSUME "crossed" \notin mishaps' PROVE \E s \in Replicas : SpokeInv(s)'
  BY DEF AloneInv
<1>0. PullTypes /\ mishaps \subseteq mishaps'
  BY MishapStep DEF SpareInv
<1>1. PICK q \in Replicas : SpokeInv(q)
  BY <1>0 DEF AloneInv
<1>2. ASSUME NEW s \in Replicas, SpokeInv(s), Only(s)' PROVE SpokeInv(s)'
  <2>1. AppliedInv(s)'
    BY <1>2, AppliedStep DEF SpokeInv
  <2>2. "torn" \notin mishaps' => RecordInv(s)'
    BY <1>0, <1>2, RecordStep DEF SpokeInv
  <2> QED BY <1>2, <2>1, <2>2 DEF SpokeInv
<1>3. ASSUME NEW s \in Replicas, FL!Ask(s) PROVE SpokeInv(s)'
  <2>1. Only(s) /\ ~Under(s)
    BY <1>3 DEF FL!Ask, Only, Under
  <2>2. SpokeInv(s)
    BY <1>1, <2>1, Switch DEF Only
  <2>3. PICK x : Becomes(s, x)
    BY <1>0, <1>3, LeadsOn
  <2>4. Only(s)'
    BY <2>1, <2>3 DEF Only, Becomes, Under
  <2> QED BY <1>2, <2>2, <2>4
<1>4. CASE \A r \in Replicas : ~FL!Ask(r)
  <2>1. Only(q)'
    BY <1>0, <1>1, <1>4, NoneBegins DEF SpokeInv, Only
  <2> QED BY <1>1, <1>2, <2>1
<1> QED BY <1>3, <1>4

\* A spoke starts with policies of its own.
LEMMA FleetInit == ASSUME Replicas # {} PROVE FL!Init => FleetInv
<1> SUFFICES ASSUME FL!Init PROVE FleetInv
  OBVIOUS
<1>1. rollout = {} /\ \A s \in Replicas : pull[s] = FL!Idle /\ \A pc : ~FL!At(s, pc)
  BY DEF FL!Init, FL!At
<1>2. \A s \in Replicas : ~FL!Writing(s) /\ ~Under(s) /\ Only(s)
  BY <1>1 DEF FL!Writing, Under, Only
<1>3. StateTypes
  BY DEF FL!Init, StateTypes, Ids
<1>4. ReadInv
  BY <1>2, <1>3 DEF ReadInv
<1>5. \A k \in Keys : ~Pushed(k)
  BY DEF FL!Init, Pushed, FL!Own, FL!Absent
<1>6. ASSUME NEW s \in Replicas PROVE SpokeInv(s)
  <2>1. AppliedInv(s)
    BY <1>1, <1>2 DEF AppliedInv, RolloutInv, ShownInv, Shown
  <2>2. RecordInv(s)
    BY <1>1, <1>2, <1>5 DEF RecordInv
  <2> QED BY <1>2, <2>1, <2>2 DEF SpokeInv
<1> QED BY <1>4, <1>6, SpareInit DEF FleetInv, AloneInv

\* Every step keeps the invariant.
LEMMA FleetStep == FleetInv /\ [FL!Next]_(FL!vars) => FleetInv'
  BY SpareStep, ReadStep, AloneStep DEF FleetInv

(* For any number of replicas, each with a puller of its own: until two of *)
(* them pull at once the hub shows as applied only what the spoke has      *)
(* recorded, and until then, and until a pull ends between its writes and  *)
(* its record, every pushed policy is recorded or belongs to the pull      *)
(* under way: whatever policies, versions, joins, leaves, refused bundles, *)
(* lost reports and restarts there are (report_rollout, pull_once).        *)
THEOREM SpokeIsTrue == ASSUME Replicas # {} PROVE FL!Spec => [](FL!AppliedIsTrue /\ FL!PushesAreOnRecord)
<1>1. FleetInv => FL!AppliedIsTrue /\ FL!PushesAreOnRecord
  <2> SUFFICES ASSUME FleetInv, "crossed" \notin mishaps
               PROVE  Shown /\ ("torn" \notin mishaps => FL!PushesAreOnRecord)
    BY DEF FL!PushesAreOnRecord, FL!AppliedIsTrue, Shown
  <2>1. PICK s \in Replicas : SpokeInv(s)
    BY DEF FleetInv, AloneInv
  <2> QED BY <2>1 DEF SpokeInv, AppliedInv, RecordInv, Pushed, FL!PushesAreOnRecord
<1> QED BY <1>1, FleetInit, FleetStep, PTL DEF FL!Spec

(* For any number of replicas, pulling at once or not, the version that is *)
(* recorded falls only by a join or a leave, or when a pull records what   *)
(* it compared with a record that another has raised since: the comparison *)
(* and the record of pull_once are not one step ("never downgraded").      *)
THEOREM VersionsOnlyRise == FL!Spec => FL!NeverDowngraded
<1>1. SpareInv /\ ReadInv /\ [FL!Next]_(FL!vars) => [FL!NotDowngraded]_(FL!vars)
  <2> SUFFICES ASSUME SpareInv, ReadInv, FL!Next PROVE FL!NotDowngraded
    BY DEF FL!vars
  <2>0. StateTypes /\ PullTypes
    BY DEF ReadInv, SpareInv
  <2>1. CASE UNCHANGED state
    BY <2>0, <2>1 DEF FL!NotDowngraded, StateTypes
  <2>2. ASSUME NEW r \in Replicas, FL!Persist(r) PROVE FL!NotDowngraded
    <3>1. FL!Writing(r) /\ pull[r].version \in Nat
      BY <2>0, <2>2 DEF FL!Writing, FL!Persist, PullTypes, Under, FL!At
    <3>2. pull[r].last \in Nat /\ pull[r].version > pull[r].last
      BY <3>1 DEF ReadInv
    <3>3. DOMAIN state = Ids /\ \A i \in Ids : state[i].last \in Nat /\ state'[i].last = IF i = FL!Id(r) THEN pull[r].version ELSE state[i].last
      BY <2>0, <2>2 DEF StateTypes, FL!Persist
    <3>4. \A i \in Ids : state'[i].last >= state[i].last \/ state[i].last > pull[r].last
      BY <3>1, <3>2, <3>3
    <3> QED BY <2>2, <3>3, <3>4 DEF FL!NotDowngraded
  <2>3. CASE \E r \in Replicas : FL!Join(r) \/ FL!Leave(r)
    BY <2>3 DEF FL!NotDowngraded
  <2>4. ASSUME NEW r \in Replicas,
               \/ FL!Ask(r) \/ FL!Sign(r) \/ FL!Check(r) \/ FL!Refuse(r) \/ FL!Apply(r) \/ FL!Reconcile(r) \/ FL!Drop(r) \/ FL!ApplyFails(r)
               \/ FL!PersistFails(r) \/ FL!Report(r) \/ FL!ClaimToken(r) \/ FL!Stops(r) \/ FL!Restart(r)
        PROVE  FL!NotDowngraded
    BY <2>1, <2>4 DEF FL!Ask, FL!Sign, FL!Check, FL!Refuse, FL!Apply, FL!Reconcile, FL!Drop, FL!ApplyFails, FL!PersistFails, FL!Report,
                      FL!ClaimToken, FL!Stops, FL!Restart
  <2>5. CASE \/ \E n \in FL!Names : FL!Author(n) \/ FL!Retract(n)
             \/ FL!Mint \/ FL!ClaimLost \/ FL!Remove \/ FL!Heartbeat \/ \E k \in Keys : FL!Local(k)
    BY <2>1, <2>5 DEF FL!Author, FL!Retract, FL!Mint, FL!ClaimLost, FL!Remove, FL!Heartbeat, FL!Local
  <2> QED BY <2>2, <2>3, <2>4, <2>5 DEF FL!Next, FL!Pull
<1>2. FL!Init => ReadInv
  BY DEF FL!Init, ReadInv, StateTypes, Ids, FL!Writing, FL!At
<1> QED BY <1>1, <1>2, SpareInit, SpareStep, ReadStep, PTL DEF FL!Spec, FL!NeverDowngraded
=============================================================================
