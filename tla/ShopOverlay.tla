----------------------------- MODULE ShopOverlay -----------------------------
(***************************************************************************)
(* The free shop.  At every start, before it opens the save, the server    *)
(* adds the products of its policy to the master data it has loaded: to    *)
(* the rows it sells by (shops, reward_groups) and to the tables it        *)
(* publishes (game_data).  The patcher may have added them to the file; a  *)
(* file with other rows under their numbers stops the start.               *)
(***************************************************************************)
EXTENDS Integers, Sequences, FiniteSets, FiniteSetsExt

CONSTANTS
  Manifest,     \* product (its id and reward group) -> its rewards
  Other,        \* ids and reward groups of the original game
  Grant,        \* rewards
  Number        \* bound: the numbers rewards have within their group

Product == DOMAIN Manifest
Id == Product \cup Other

ASSUME OverlayAssumption ==
  /\ Product # {} /\ Product \cap Other = {} /\ IsFiniteSet(Id)
  /\ Manifest \in [Product -> Seq(Grant)] /\ Number \subseteq Nat

(* Rows of Shop say at which terms a product is sold; the policy's are     *)
(* "free".  Rows of Reward_group are numbered within their group.          *)
ShopRow(i) == [id |-> i, terms |-> "free"]
RewardRows(i) == {[group |-> i, no |-> k, grant |-> Manifest[i][k]] : k \in DOMAIN Manifest[i]}

(* load_catalog: rows and tables are read from the same file.              *)
Load(shops, rewards) ==
  [shops |-> shops, rewards |-> rewards,
   shopTable |-> {s.id : s \in shops},
   rewardTable |-> {<<w.group, w.no>> : w \in rewards}]

(* No master data: the start fails.                                        *)
Refused == [shops |-> {}, rewards |-> {}, shopTable |-> {}, rewardTable |-> {}]

OfGroup(rewards, i) == {w \in rewards : w.group = i}

(* Compared in the order of their numbers, which need not be the policy's. *)
SameInOrder(rows, s) ==
  /\ Cardinality(rows) = Len(s)
  /\ \A w \in rows : w.grant = s[1 + Cardinality({v \in rows : v.no < w.no})]

Existing(m) ==
  (\E s \in m.shops : s.id \in Product) \/ (\E w \in m.rewards : w.group \in Product)

Complete(m) ==
  /\ Cardinality({s \in m.shops : s.id \in Product}) = Cardinality(Product)
  /\ \A i \in Product :
       /\ ShopRow(i) \in m.shops /\ i \in m.shopTable
       /\ SameInOrder(OfGroup(m.rewards, i), Manifest[i])
       /\ Cardinality({w \in m.rewardTable : w[1] = i}) = Len(Manifest[i])

Vacant(m) ==
  \A i \in Product :
    /\ \A s \in m.shops : s.id # i
    /\ i \notin m.shopTable
    /\ OfGroup(m.rewards, i) = {} /\ \A w \in m.rewardTable : w[1] # i

ApplyMemorialShopPolicy(m) ==
  IF Existing(m) THEN IF Complete(m) THEN m ELSE Refused
  ELSE IF ~ Vacant(m) THEN Refused
  ELSE LET rows == UNION {RewardRows(i) : i \in Product} IN
       [shops |-> m.shops \cup {ShopRow(i) : i \in Product},
        rewards |-> m.rewards \cup rows,
        shopTable |-> m.shopTable \cup Product,
        rewardTable |-> m.rewardTable \cup {<<w.group, w.no>> : w \in rows}]

-----------------------------------------------------------------------------
(* The files a start may find: at most one shop row per id, and at most    *)
(* one reward under a number.                                              *)
ShopRows(terms) == {[id |-> i, terms |-> terms[i]] : i \in {j \in Id : terms[j] # "none"}}
Files ==
  LET Places == Id \X Number IN
  {[shops |-> ShopRows(terms),
    rewards |-> {[group |-> p[1], no |-> p[2], grant |-> held[p]] : p \in used}] :
     terms \in [Id -> {"none", "free", "sold"}], used \in SUBSET Places, held \in [Places -> Grant]}

(* Whatever the file holds, a server that starts sells every product of    *)
(* the policy once, free and with its rewards, and shows all of it; it     *)
(* leaves the game's own rows alone; a file the patcher has treated is     *)
(* taken as it is, and an untreated one is never refused                   *)
(* (apply_memorial_shop_policy).                                           *)
FreeShopIsWhole ==
  \A f \in Files :
    LET loaded == Load(f.shops, f.rewards)
        m == ApplyMemorialShopPolicy(loaded)
    IN
    /\ m = Refused => Existing(loaded)
    /\ m # Refused =>
         /\ \A i \in Product :
              /\ {s \in m.shops : s.id = i} = {ShopRow(i)} /\ i \in m.shopTable
              /\ SameInOrder(OfGroup(m.rewards, i), Manifest[i])
         /\ m.shopTable = {s.id : s \in m.shops}
         /\ m.rewardTable = {<<w.group, w.no>> : w \in m.rewards}
         /\ {s \in m.shops : s.id \in Other} = {s \in f.shops : s.id \in Other}
         /\ \A i \in Other : OfGroup(m.rewards, i) = OfGroup(f.rewards, i)
         /\ ApplyMemorialShopPolicy(m) = m
         /\ ApplyMemorialShopPolicy(Load(m.shops, m.rewards)) = m
=============================================================================
