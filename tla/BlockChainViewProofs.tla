------------------------ MODULE BlockChainViewProofs ------------------------
(* Facts about the block tree and its transactions, for every tree that    *)
(* meets the assumptions of Blocks; what views and branches do; and that   *)
(* the steps of AddNewBlock that build the view, verify the block and      *)
(* store it keep the invariant.                                            *)
EXTENDS BlockChainInv, WellFoundedInduction, TLAPS

(* A nonempty set of naturals has a least element.                         *)
LEMMA LeastNat ==
  ASSUME NEW S, S \subseteq Nat, S # {}
  PROVE  \E n \in S : \A m \in S : n <= m
<1> DEFINE R == OpToRel(<, Nat)
<1>1. IsWellFoundedOn(R, Nat)
  BY Zenon, NatLessThanWellFounded
<1>2. PICK n \in S : \A m \in S : <<m, n>> \notin R
  BY Zenon, <1>1, WFMin
<1>3. ASSUME NEW m \in S  PROVE n <= m
  <2>1. m \in Nat /\ n \in Nat
    BY Zenon, <1>2
  <2>2. ~(m < n)
    BY Zenon, <1>2, <2>1 DEF OpToRel
  <2> QED  BY <2>1, <2>2
<1> QED  BY Zenon, <1>2, <1>3

LEMMA ChainFacts ==
  /\ \A b \in Block : b \in Chain[b] /\ Chain[b] \subseteq Block /\ Genesis \in Block
  /\ \A b \in Block : \A x \in Chain[b] : Chain[x] \subseteq Chain[b]
  /\ \A b \in Block \ {Genesis} : /\ Parent[b] \in Block /\ Parent[b] \in Chain[b]
                                   /\ Chain[b] = Chain[Parent[b]] \cup {b}
                                   /\ b \notin Chain[Parent[b]]
BY BlockTree

(* Induction along the parents.                                            *)
LEMMA TreeInduction ==
  ASSUME NEW S, Genesis \in S, \A b \in Block \ {Genesis} : Parent[b] \in S => b \in S
  PROVE  Block \subseteq S
<1> DEFINE N == {ChainTrust[b] : b \in Block \ S}
<1> SUFFICES ASSUME NEW z \in Block \ S  PROVE FALSE
  BY Zenon
<1>1. N \subseteq Nat /\ N # {}
  BY BlockTrust
<1>2. PICK n \in N : \A m \in N : n <= m
  BY Zenon, <1>1, LeastNat
<1>3. PICK b \in Block \ S : n = ChainTrust[b]
  BY Zenon, <1>2
<1>4. b # Genesis /\ Parent[b] \in Block \ S
  BY Zenon, <1>3, ChainFacts
<1>5. ChainTrust[b] <= ChainTrust[Parent[b]]
  <2>1. ChainTrust[Parent[b]] \in N
    BY Zenon, <1>4
  <2> HIDE DEF N
  <2> QED  BY Zenon, <1>2, <1>3, <2>1
<1>6. ChainTrust[Parent[b]] < ChainTrust[b]
  BY Zenon, <1>4, BlockTrust
<1>7. ChainTrust[b] \in Nat /\ ChainTrust[Parent[b]] \in Nat
  BY ZenonT(40), <1>4, BlockTrust
<1> QED  BY <1>5, <1>6, <1>7

(* A chain begins with the genesis block, and its blocks are less heavy    *)
(* than its last.                                                          *)
LEMMA ChainBegins ==
  /\ \A b \in Block : Genesis \in Chain[b]
  /\ \A b \in Block : \A x \in Chain[b] : x # b => ChainTrust[x] < ChainTrust[b]
<1> DEFINE S == {b \in Block : Genesis \in Chain[b]}
           T == {b \in Block : \A x \in Chain[b] : x # b => ChainTrust[x] < ChainTrust[b]}
<1>1. Block \subseteq S
  <2>1. Genesis \in S /\ \A b \in Block \ {Genesis} : Parent[b] \in S => b \in S
    BY Zenon, BlockTree, ChainFacts
  <2> QED  BY Zenon, <2>1, TreeInduction
<1>2. Block \subseteq T
  <2>1. Genesis \in T
    BY Zenon, BlockTree
  <2>2. ASSUME NEW b \in Block \ {Genesis}, Parent[b] \in T  PROVE b \in T
    <3>1. ASSUME NEW x \in Chain[b], x # b  PROVE ChainTrust[x] < ChainTrust[b]
      <4>1. x \in Chain[Parent[b]] /\ Parent[b] \in Block /\ x \in Block
        BY <3>1, ChainFacts
      <4>2. x = Parent[b] \/ ChainTrust[x] < ChainTrust[Parent[b]]
        BY Zenon, <2>2, <4>1
      <4> QED  BY <4>1, <4>2, BlockTrust
    <3> QED  BY Zenon, <3>1
  <2> QED  BY Zenon, <2>1, <2>2, TreeInduction
<1> QED  BY Zenon, <1>1, <1>2

(* The blocks of a chain are ordered, and each but the last has a child.   *)
LEMMA ChainOrdered ==
  /\ \A b \in Block : \A x, y \in Chain[b] : x \in Chain[y] \/ y \in Chain[x]
  /\ \A b \in Block : \A x \in Chain[b] :
       x # b => \E y \in Chain[b] : y # Genesis /\ Parent[y] = x
  /\ \A x, y \in Block : x \in Chain[y] /\ y \in Chain[x] => x = y
<1> DEFINE S == {b \in Block : \A x, y \in Chain[b] : x \in Chain[y] \/ y \in Chain[x]}
           T == {b \in Block : \A x \in Chain[b] :
                   x # b => \E y \in Chain[b] : y # Genesis /\ Parent[y] = x}
<1>1. Block \subseteq S
  <2>1. Genesis \in S
    BY Zenon, BlockTree
  <2>2. ASSUME NEW b \in Block \ {Genesis}, Parent[b] \in S  PROVE b \in S
    <3>1. Chain[b] = Chain[Parent[b]] \cup {b}
      BY Zenon, ChainFacts
    <3> QED  BY Zenon, <2>2, <3>1
  <2> QED  BY Zenon, <2>1, <2>2, TreeInduction
<1>2. Block \subseteq T
  <2>1. Genesis \in T
    BY Zenon, BlockTree
  <2>2. ASSUME NEW b \in Block \ {Genesis}, Parent[b] \in T  PROVE b \in T
    <3>1. Chain[b] = Chain[Parent[b]] \cup {b}
      BY Zenon, ChainFacts
    <3> QED  BY Zenon, <2>2, <3>1
  <2> QED  BY Zenon, <2>1, <2>2, TreeInduction
<1>3. ASSUME NEW x \in Block, NEW y \in Block, x \in Chain[y], y \in Chain[x]  PROVE x = y
  BY <1>3, ChainBegins, BlockTrust
<1> QED  BY Zenon, <1>1, <1>2, <1>3

(* What follows a block of a chain, on that chain and no other.            *)
LEMMA ChildFacts ==
  \A b \in Block : \A y \in Block \ {Genesis} :
    /\ y \in Chain[b] => \A z \in Chain[b] : z \in Chain[Parent[y]] \/ y \in Chain[z]
    /\ y \in Chain[b] => \A z \in Chain[b] \ {Genesis} : Parent[z] = Parent[y] => z = y
    /\ y \notin Chain[Parent[y]] /\ Parent[y] \in Chain[y] /\ Parent[y] # y
<1> SUFFICES ASSUME NEW b \in Block, NEW y \in Block \ {Genesis}
             PROVE  /\ y \in Chain[b] => \A z \in Chain[b] : z \in Chain[Parent[y]] \/ y \in Chain[z]
                    /\ y \in Chain[b] => \A z \in Chain[b] \ {Genesis} : Parent[z] = Parent[y] => z = y
                    /\ y \notin Chain[Parent[y]] /\ Parent[y] \in Chain[y] /\ Parent[y] # y
  BY Zenon
<1> DEFINE x == Parent[y]
<1>1. /\ Chain[y] = Chain[x] \cup {y} /\ y \notin Chain[x] /\ x \in Chain[x]
      /\ \A z \in Chain[b] : z \in Block /\ z \in Chain[z]
  BY Zenon, ChainFacts
<1>2. ASSUME NEW z \in Chain[b], y \in Chain[b]  PROVE z \in Chain[x] \/ y \in Chain[z]
  BY Zenon, <1>1, <1>2, ChainOrdered
<1>3. ASSUME NEW z \in Chain[b], y \in Chain[b], z # Genesis, Parent[z] = x  PROVE z = y
  <2>1. Chain[z] = Chain[x] \cup {z} /\ z \notin Chain[x]
    BY Zenon, <1>1, <1>3, ChainFacts
  <2> QED  BY Zenon, <1>1, <1>2, <1>3, <2>1
<1> QED  BY Zenon, <1>1, <1>2, <1>3

LEMMA TxFacts ==
  /\ \A b \in Block : Txs[b] \subseteq Tx /\ Created[b] \subseteq Out /\ Spent[b] \subseteq Out
  /\ \A b \in Block : \A t \in Txs[b] : \E j \in DOMAIN Vtx[b] : t = Vtx[b][j]
  /\ \A b \in Block : \A j \in DOMAIN Vtx[b] : Vtx[b][j] \in Txs[b]
  /\ \A b \in Block : \A o : o \in Created[b] <=> \E t \in Txs[b] : o \in Outs[t]
  /\ \A b \in Block : \A o : o \in Spent[b] <=> \E t \in Txs[b] : o \in Ins[t]
<1>1. \A b \in Block : Vtx[b] \in Seq(Tx) /\ Txs[b] = {Vtx[b][j] : j \in DOMAIN Vtx[b]}
  BY Zenon, BlockContent DEF Txs
<1>2. \A s \in Seq(Tx) : \A j \in DOMAIN s : s[j] \in Tx
  OBVIOUS
<1>3. ASSUME NEW b \in Block, NEW t \in Txs[b]  PROVE t \in Tx
  <2>1. PICK j \in DOMAIN Vtx[b] : t = Vtx[b][j]
    BY Zenon, <1>1
  <2> QED  BY Zenon, <1>1, <1>2, <2>1
<1>4. \A b \in Block : /\ Created[b] = UNION {Outs[t] : t \in Txs[b]}
                       /\ Spent[b] = UNION {Ins[t] : t \in Txs[b]}
  BY Zenon DEF Created, Spent
<1>5. \A t \in Tx : Outs[t] \subseteq Out /\ Ins[t] \subseteq Out
  BY Zenon, BlockContent
<1>6. ASSUME NEW b \in Block  PROVE Created[b] \subseteq Out /\ Spent[b] \subseteq Out
  <2>1. \A t \in Txs[b] : Outs[t] \subseteq Out /\ Ins[t] \subseteq Out
    BY Zenon, <1>3, <1>5
  <2> QED  BY <1>4, <2>1
<1> QED  BY <1>1, <1>3, <1>4, <1>6

(* Membership in the chain-wide sets, spelled out.                         *)
LEMMA UtxoFacts ==
  ASSUME NEW b \in Block
  PROVE  /\ \A o : o \in ChainCreated[b] <=> \E x \in Chain[b] : o \in Created[x]
         /\ \A o : o \in ChainSpent[b] <=> \E x \in Chain[b] : o \in Spent[x]
         /\ \A o : o \in Utxo[b] <=> o \in ChainCreated[b] /\ o \notin ChainSpent[b]
         /\ \A t : t \in TxsOf(Chain[b]) <=> \E x \in Chain[b] : t \in Txs[x]
         /\ Utxo[b] \subseteq Out
<1>1. ChainCreated[b] = UNION {Created[x] : x \in Chain[b]}
  BY Zenon DEF ChainCreated
<1>2. ChainSpent[b] = UNION {Spent[x] : x \in Chain[b]}
  BY Zenon DEF ChainSpent
<1>3. Utxo[b] = ChainCreated[b] \ ChainSpent[b]
  BY Zenon DEF Utxo
<1>4. ChainCreated[b] \subseteq Out
  BY <1>1, TxFacts, ChainFacts
<1> QED  BY <1>1, <1>2, <1>3, <1>4 DEF TxsOf

(* What a sound chain gains and loses with its last block.                 *)
LEMMA SoundStep ==
  ASSUME NEW b \in Sound, b # Genesis
  PROVE  /\ b \in Block /\ Parent[b] \in Sound
         /\ \A o : o \in Created[b] => o \notin ChainCreated[Parent[b]]
         /\ \A o : o \in Spent[b] => o \notin ChainSpent[Parent[b]]
         /\ \A o : o \in Utxo[b] <=> (o \in Utxo[Parent[b]] \/ o \in Created[b]) /\ o \notin Spent[b]
         /\ \A o : o \in Utxo[Parent[b]] <=> (o \in Utxo[b] \/ o \in Spent[b]) /\ o \notin Created[b]
<1> DEFINE p == Parent[b]
<1>1. /\ b \in Block /\ p \in Block /\ Chain[b] = Chain[p] \cup {b} /\ b \notin Chain[p]
      /\ Chain[p] \subseteq Block /\ p \in Chain[b]
      /\ \A x \in Chain[b] : ChainSpent[x] \subseteq ChainCreated[x]
      /\ \A x, y \in Chain[b] : x # y => Txs[x] \cap Txs[y] = {}
      /\ \A t, u \in TxsOf(Chain[b]) : t # u => Ins[t] \cap Ins[u] = {}
  BY Zenon, ChainFacts DEF Sound
<1>2. /\ \A o : o \in ChainCreated[b] <=> o \in ChainCreated[p] \/ o \in Created[b]
      /\ \A o : o \in ChainSpent[b] <=> o \in ChainSpent[p] \/ o \in Spent[b]
      /\ \A t : t \in TxsOf(Chain[b]) <=> t \in TxsOf(Chain[p]) \/ t \in Txs[b]
      /\ \A t \in TxsOf(Chain[p]) : t \notin Txs[b]
  <2>1. /\ \A o : o \in ChainCreated[b] <=> \E x \in Chain[b] : o \in Created[x]
        /\ \A o : o \in ChainSpent[b] <=> \E x \in Chain[b] : o \in Spent[x]
        /\ \A t : t \in TxsOf(Chain[b]) <=> \E x \in Chain[b] : t \in Txs[x]
    BY Zenon, <1>1, UtxoFacts
  <2>2. /\ \A o : o \in ChainCreated[p] <=> \E x \in Chain[p] : o \in Created[x]
        /\ \A o : o \in ChainSpent[p] <=> \E x \in Chain[p] : o \in Spent[x]
        /\ \A t : t \in TxsOf(Chain[p]) <=> \E x \in Chain[p] : t \in Txs[x]
    BY Zenon, <1>1, UtxoFacts
  <2>3. /\ \A o : o \in ChainCreated[b] <=> o \in ChainCreated[p] \/ o \in Created[b]
        /\ \A o : o \in ChainSpent[b] <=> o \in ChainSpent[p] \/ o \in Spent[b]
    BY Zenon, <1>1, <2>1, <2>2
  <2>4. \A t : t \in TxsOf(Chain[b]) <=> t \in TxsOf(Chain[p]) \/ t \in Txs[b]
    BY Zenon, <1>1, <2>1, <2>2
  <2>5. \A t \in TxsOf(Chain[p]) : t \notin Txs[b]
    BY <1>1, <2>2
  <2> QED  BY Zenon, <2>3, <2>4, <2>5
<1>3. \A o : o \in Created[b] => o \notin ChainCreated[p]
  <2> SUFFICES ASSUME NEW o, o \in Created[b], o \in ChainCreated[p]  PROVE FALSE
    BY Zenon
  <2>1. PICK t \in Txs[b] : o \in Outs[t]
    BY Zenon, <1>1, TxFacts
  <2>2. PICK x \in Chain[p] : o \in Created[x]
    BY Zenon, <1>1, UtxoFacts
  <2>3. PICK u \in Txs[x] : o \in Outs[u]
    BY Zenon, <1>1, <2>2, TxFacts
  <2>4. t = u
    BY Zenon, <1>1, <2>1, <2>3, TxFacts, BlockContent
  <2> QED  BY Zenon, <1>1, <2>1, <2>3, <2>4
<1>4. \A o : o \in Spent[b] => o \notin ChainSpent[p]
  <2> SUFFICES ASSUME NEW o, o \in Spent[b], o \in ChainSpent[p]  PROVE FALSE
    BY Zenon
  <2>1. PICK t \in Txs[b] : o \in Ins[t]
    BY Zenon, <1>1, TxFacts
  <2>2. PICK x \in Chain[p] : o \in Spent[x]
    BY Zenon, <1>1, UtxoFacts
  <2>3. PICK u \in Txs[x] : o \in Ins[u]
    BY Zenon, <1>1, <2>2, TxFacts
  <2>4. u \in TxsOf(Chain[p])
    BY Zenon, <1>1, <2>3, UtxoFacts
  <2>5. t # u /\ t \in TxsOf(Chain[b]) /\ u \in TxsOf(Chain[b])
    BY Zenon, <1>2, <2>1, <2>4
  <2> QED  BY Zenon, <1>1, <2>1, <2>3, <2>5
<1>5. ChainSpent[p] \subseteq ChainCreated[p]
  BY Zenon, <1>1
<1>6. p \in Sound
  BY Zenon, <1>1, <1>2, <1>5 DEF Sound
<1>7. /\ \A o : o \in Utxo[b] <=> o \in ChainCreated[b] /\ o \notin ChainSpent[b]
      /\ \A o : o \in Utxo[p] <=> o \in ChainCreated[p] /\ o \notin ChainSpent[p]
  BY Zenon, <1>1, UtxoFacts
<1> QED  BY Zenon, <1>1, <1>2, <1>3, <1>4, <1>5, <1>6, <1>7

(* The transaction checks of AddNewBlock make a sound chain a longer sound *)
(* chain.  A repeated transaction would need, for one of its inputs, the   *)
(* output of an earlier repeated one.                                      *)
LEMMA SoundExtends ==
  ASSUME NEW b \in Block, b # Genesis, Parent[b] \in Sound,
         \A j \in DOMAIN Vtx[b] :
           Ins[Vtx[b][j]] \subseteq
             (Utxo[Parent[b]] \cup UNION {Outs[Vtx[b][i]] : i \in 1..(j - 1)})
               \ UNION {Ins[Vtx[b][i]] : i \in 1..(j - 1)}
  PROVE  b \in Sound
<1> DEFINE p == Parent[b]
<1>1. /\ p \in Block /\ Chain[b] = Chain[p] \cup {b} /\ b \notin Chain[p]
      /\ Chain[p] \subseteq Block /\ p \in Chain[p]
      /\ \A x \in Chain[p] : ChainSpent[x] \subseteq ChainCreated[x]
      /\ \A x, y \in Chain[p] : x # y => Txs[x] \cap Txs[y] = {}
      /\ \A t, u \in TxsOf(Chain[p]) : t # u => Ins[t] \cap Ins[u] = {}
  BY Zenon, ChainFacts DEF Sound
<1>2. /\ \A o : o \in ChainCreated[p] <=> \E x \in Chain[p] : o \in Created[x]
      /\ \A o : o \in ChainSpent[p] <=> \E x \in Chain[p] : o \in Spent[x]
      /\ \A t : t \in TxsOf(Chain[p]) <=> \E x \in Chain[p] : t \in Txs[x]
      /\ \A o : o \in Utxo[p] <=> o \in ChainCreated[p] /\ o \notin ChainSpent[p]
  BY Zenon, <1>1, UtxoFacts
<1>3. /\ \A o : o \in ChainCreated[b] <=> o \in ChainCreated[p] \/ o \in Created[b]
      /\ \A o : o \in ChainSpent[b] <=> o \in ChainSpent[p] \/ o \in Spent[b]
  <2>1. /\ \A o : o \in ChainCreated[b] <=> \E x \in Chain[b] : o \in Created[x]
        /\ \A o : o \in ChainSpent[b] <=> \E x \in Chain[b] : o \in Spent[x]
    BY Zenon, UtxoFacts
  <2> QED  BY <1>1, <1>2, <2>1
<1>4. \A t : t \in TxsOf(Chain[b]) <=> t \in TxsOf(Chain[p]) \/ t \in Txs[b]
  <2>1. \A t : t \in TxsOf(Chain[b]) <=> \E x \in Chain[b] : t \in Txs[x]
    BY Zenon, UtxoFacts
  <2>2. \A t : t \in TxsOf(Chain[p]) <=> \E x \in Chain[p] : t \in Txs[x]
    BY Zenon, <1>2
  <2>3. Chain[b] = Chain[p] \cup {b}
    BY Zenon, <1>1
  <2> QED  BY Zenon, <2>1, <2>2, <2>3
<1>5. DOMAIN Vtx[b] \subseteq Nat /\ \A j \in DOMAIN Vtx[b] : 1..(j - 1) \subseteq DOMAIN Vtx[b]
  <2>1. Vtx[b] \in Seq(Tx)
    BY Zenon, BlockContent
  <2> QED  BY <2>1
<1>6. \A t \in Txs[b] : \E j \in DOMAIN Vtx[b] : t = Vtx[b][j]
  BY Zenon, TxFacts
<1>7. \A j \in DOMAIN Vtx[b] : Vtx[b][j] \in Txs[b]
  BY Zenon, TxFacts
(* An output created in the chain before b is created by a transaction of  *)
(* it only.                                                                *)
<1>8. ASSUME NEW o, o \in ChainSpent[p], NEW t \in Txs[b], o \in Outs[t]
      PROVE  t \in TxsOf(Chain[p])
  <2>1. o \in ChainCreated[p]
    BY Zenon, <1>1, <1>8
  <2>2. PICK x \in Chain[p] : o \in Created[x]
    BY Zenon, <1>2, <2>1
  <2>3. PICK u \in Txs[x] : o \in Outs[u]
    BY Zenon, <1>1, <2>2, TxFacts
  <2>4. u \in Tx /\ t \in Tx
    BY Zenon, <1>1, <2>3, TxFacts
  <2>5. t = u
    BY Zenon, <1>8, <2>3, <2>4, BlockContent
  <2> QED  BY Zenon, <1>2, <2>3, <2>5
<1>9. ASSUME NEW j \in DOMAIN Vtx[b], NEW o \in Ins[Vtx[b][j]]
      PROVE  /\ o \in Utxo[p] \/ \E i \in 1..(j - 1) : o \in Outs[Vtx[b][i]]
             /\ \A i \in 1..(j - 1) : o \notin Ins[Vtx[b][i]]
  OBVIOUS
<1>10. ASSUME NEW j \in DOMAIN Vtx[b], NEW o \in Ins[Vtx[b][j]], o \in ChainSpent[p]
       PROVE  \E i \in 1..(j - 1) : Vtx[b][i] \in TxsOf(Chain[p])
  <2>1. PICK i \in 1..(j - 1) : o \in Outs[Vtx[b][i]]
    BY Zenon, <1>2, <1>9, <1>10
  <2>2. Vtx[b][i] \in Txs[b]
    BY Zenon, <1>5, <1>7
  <2> QED  BY Zenon, <1>8, <1>10, <2>1, <2>2
<1>11. \A t \in Txs[b] : t \notin TxsOf(Chain[p])
  <2> DEFINE J == {j \in DOMAIN Vtx[b] : Vtx[b][j] \in TxsOf(Chain[p])}
  <2> SUFFICES ASSUME J # {}  PROVE FALSE
    BY <1>6
  <2>1. PICK j \in J : \A i \in J : j <= i
    BY Zenon, <1>5, LeastNat
  <2>2. PICK x \in Chain[p] : Vtx[b][j] \in Txs[x]
    BY Zenon, <1>2
  <2>3. Ins[Vtx[b][j]] # {}
    BY <1>1, <1>7, <2>2, BlockContent
  <2>4. PICK o : o \in Ins[Vtx[b][j]]
    BY Zenon, <2>3
  <2>5. o \in Spent[x] /\ o \in ChainSpent[p]
    BY Zenon, <1>1, <1>2, <2>2, <2>4, TxFacts
  <2>6. PICK i \in 1..(j - 1) : Vtx[b][i] \in TxsOf(Chain[p])
    BY Zenon, <1>10, <2>4, <2>5
  <2>7. i \in J /\ i < j
    BY <1>5, <2>6
  <2> QED  BY <1>5, <2>1, <2>7
<1>12. ChainSpent[b] \subseteq ChainCreated[b]
  <2> SUFFICES ASSUME NEW o \in Spent[b]  PROVE o \in ChainCreated[b]
    BY Zenon, <1>1, <1>3
  <2>1. PICK t \in Txs[b] : o \in Ins[t]
    BY Zenon, TxFacts
  <2>2. PICK j \in DOMAIN Vtx[b] : t = Vtx[b][j]
    BY Zenon, <1>6
  <2>3. CASE o \in Utxo[p]
    BY Zenon, <1>2, <1>3, <2>3
  <2>4. CASE \E i \in 1..(j - 1) : o \in Outs[Vtx[b][i]]
    BY Zenon, <1>3, <1>5, <1>7, <2>4, TxFacts
  <2> QED  BY Zenon, <1>9, <2>1, <2>2, <2>3, <2>4
<1>13. ASSUME NEW t \in Txs[b], NEW u \in TxsOf(Chain[p]), NEW o, o \in Ins[t], o \in Ins[u]
       PROVE  FALSE
  <2>1. PICK x \in Chain[p] : u \in Txs[x]
    BY Zenon, <1>2
  <2>2. o \in ChainSpent[p]
    BY Zenon, <1>1, <1>2, <1>13, <2>1, TxFacts
  <2>3. PICK j \in DOMAIN Vtx[b] : t = Vtx[b][j]
    BY Zenon, <1>6
  <2>4. PICK i \in 1..(j - 1) : Vtx[b][i] \in TxsOf(Chain[p])
    BY Zenon, <1>10, <1>13, <2>2, <2>3
  <2> QED  BY Zenon, <1>5, <1>7, <1>11, <2>4
<1>14. ASSUME NEW t \in Txs[b], NEW u \in Txs[b], t # u, NEW o, o \in Ins[t], o \in Ins[u]
       PROVE  FALSE
  <2>1. PICK j \in DOMAIN Vtx[b] : t = Vtx[b][j]
    BY Zenon, <1>6
  <2>2. PICK i \in DOMAIN Vtx[b] : u = Vtx[b][i]
    BY Zenon, <1>6
  <2>3. i \in 1..(j - 1) \/ j \in 1..(i - 1)
    <3>1. Vtx[b] \in Seq(Tx)
      BY Zenon, BlockContent
    <3> QED  BY <1>14, <2>1, <2>2, <3>1
  <2> QED  BY Zenon, <1>9, <1>14, <2>1, <2>2, <2>3
<1>15. \A x \in Chain[b] : ChainSpent[x] \subseteq ChainCreated[x]
  BY Zenon, <1>1, <1>12
<1>16. \A x, y \in Chain[b] : x # y => Txs[x] \cap Txs[y] = {}
  BY <1>1, <1>2, <1>11
<1>17. \A t, u \in TxsOf(Chain[b]) : t # u => Ins[t] \cap Ins[u] = {}
  BY Zenon, <1>1, <1>4, <1>13, <1>14
<1> QED  BY Zenon, <1>15, <1>16, <1>17 DEF Sound

-----------------------------------------------------------------------------
(* What adding or removing a block does to the view.                       *)

LEMMA ViewAddEffect ==
  ASSUME TypeOK, NEW x \in Sound, x # Genesis, Agrees(ViewUnspent, nOpt, unspent, Parent[x]), ViewAdd(x),
         unspent' = unspent
  PROVE  /\ Agrees(ViewUnspent', nOpt', unspent', x)
         /\ mark' \in [Out -> {"none", "enabled", "spent"}] /\ nOpt' \in [Out -> Int]
<1>1. /\ \A o : o \in Utxo[x] <=> (o \in Utxo[Parent[x]] \/ o \in Created[x]) /\ o \notin Spent[x]
      /\ \A o : o \in Utxo[Parent[x]] <=> (o \in Utxo[x] \/ o \in Spent[x]) /\ o \notin Created[x]
  BY Zenon, SoundStep
<1>2. ASSUME NEW o \in Out
      PROVE  /\ o \in ViewUnspent' <=> o \in Utxo[x]
             /\ nOpt'[o] = Ind(o \in Utxo[x]) - Ind(o \in unspent')
             /\ nOpt'[o] \in Int /\ mark'[o] \in {"none", "enabled", "spent"}
  <2>1. /\ nOpt[o] \in Int /\ mark[o] \in {"none", "enabled", "spent"}
        /\ o \in ViewUnspent <=> o \in Utxo[Parent[x]]
        /\ nOpt[o] = Ind(o \in Utxo[Parent[x]]) - Ind(o \in unspent)
    BY Zenon DEF TypeOK, Agrees
  <2>2. /\ mark'[o] = CASE o \in Spent[x] -> "spent"
                        [] o \in Created[x] \ Spent[x] -> "enabled" [] OTHER -> mark[o]
        /\ nOpt'[o] = nOpt[o] + Ind(o \in Created[x]) - Ind(o \in Spent[x])
    BY Zenon DEF ViewAdd
  <2>3. o \in ViewUnspent' <=> o \in Utxo[x]
    BY Zenon, <1>1, <2>1, <2>2 DEF ViewUnspent
  <2>4. nOpt'[o] = Ind(o \in Utxo[x]) - Ind(o \in unspent') /\ nOpt'[o] \in Int
    BY <1>1, <2>1, <2>2 DEF Ind
  <2>5. mark'[o] \in {"none", "enabled", "spent"}
    BY Zenon, <2>1, <2>2
  <2> QED  BY Zenon, <2>3, <2>4, <2>5
<1> QED  BY Zenon, <1>2 DEF Agrees, ViewAdd

LEMMA ViewRemoveEffect ==
  ASSUME TypeOK, NEW x \in Sound, x # Genesis, Agrees(ViewUnspent, nOpt, unspent, x), ViewRemove(x),
         unspent' = unspent
  PROVE  /\ Agrees(ViewUnspent', nOpt', unspent', Parent[x])
         /\ mark' \in [Out -> {"none", "enabled", "spent"}] /\ nOpt' \in [Out -> Int]
<1>1. /\ \A o : o \in Utxo[x] <=> (o \in Utxo[Parent[x]] \/ o \in Created[x]) /\ o \notin Spent[x]
      /\ \A o : o \in Utxo[Parent[x]] <=> (o \in Utxo[x] \/ o \in Spent[x]) /\ o \notin Created[x]
  BY Zenon, SoundStep
<1>2. ASSUME NEW o \in Out
      PROVE  /\ o \in ViewUnspent' <=> o \in Utxo[Parent[x]]
             /\ nOpt'[o] = Ind(o \in Utxo[Parent[x]]) - Ind(o \in unspent')
             /\ nOpt'[o] \in Int /\ mark'[o] \in {"none", "enabled", "spent"}
  <2>1. /\ nOpt[o] \in Int /\ mark[o] \in {"none", "enabled", "spent"}
        /\ o \in ViewUnspent <=> o \in Utxo[x]
        /\ nOpt[o] = Ind(o \in Utxo[x]) - Ind(o \in unspent)
    BY Zenon DEF TypeOK, Agrees
  <2>2. /\ mark'[o] = CASE o \in Created[x] -> "spent"
                        [] o \in Spent[x] \ Created[x] -> "enabled" [] OTHER -> mark[o]
        /\ nOpt'[o] = nOpt[o] + Ind(o \in Spent[x]) - Ind(o \in Created[x])
    BY Zenon DEF ViewRemove
  <2>3. o \in ViewUnspent' <=> o \in Utxo[Parent[x]]
    BY Zenon, <1>1, <2>1, <2>2 DEF ViewUnspent
  <2>4. nOpt'[o] = Ind(o \in Utxo[Parent[x]]) - Ind(o \in unspent') /\ nOpt'[o] \in Int
    BY <1>1, <2>1, <2>2 DEF Ind
  <2>5. mark'[o] \in {"none", "enabled", "spent"}
    BY Zenon, <2>1, <2>2
  <2> QED  BY Zenon, <2>3, <2>4, <2>5
<1> QED  BY Zenon, <1>2 DEF Agrees, ViewRemove

-----------------------------------------------------------------------------
(* Frame facts: which steps leave which part of the invariant alone.       *)
USE DEF files, forkVars, branchVars, viewVars, linkVars, faultVars

LEMMA NoneFact == None \notin Thread /\ Genesis \in Block
BY Zenon, BlockTree

LEMMA Alone ==
  ASSUME TypeOK, LockInv, NEW t \in Thread, pc[t] \notin {"idle", "ready"}
  PROVE  /\ owner = t /\ mode = "up" /\ blk[t] # Genesis
         /\ blk[t] \in Block /\ Parent[blk[t]] \in index
         /\ \A u \in Thread : u # t => pc[u] \in {"idle", "ready"}
BY Zenon DEF TypeOK, LockInv

LEMMA FilesKept ==
  ASSUME FilesInv, UNCHANGED <<stored, index, dblast>>
  PROVE  FilesInv'
<1>1. StoredBlocks' = StoredBlocks
  BY Zenon DEF StoredBlocks
<1>2. \A j : IsHeaviest(j)' <=> IsHeaviest(j)
  BY Zenon DEF IsHeaviest
<1>3. DOMAIN stored' = DOMAIN stored
  BY Zenon
<1> QED  BY Zenon, <1>1, <1>2, <1>3 DEF FilesInv

LEMMA Outside ==
  ASSUME \A u \in Thread : pc'[u] \in {"idle", "ready"}
  PROVE  ViewInv' /\ BranchInv'
BY Zenon DEF ViewInv, ViewOf, BranchInv, BranchOf, ViewPcs, AddedPcs, AdoptPcs

LEMMA Inside ==
  ASSUME NEW t \in Thread, \A u \in Thread : u # t => pc'[u] \in {"idle", "ready"},
         ViewOf(t)', BranchOf(t)'
  PROVE  ViewInv' /\ BranchInv'
<1>1. ASSUME NEW u \in Thread  PROVE ViewOf(u)'
  BY Zenon, <1>1 DEF ViewOf, ViewPcs
<1>2. ASSUME NEW u \in Thread  PROVE BranchOf(u)'
  BY Zenon, <1>2 DEF BranchOf, AddedPcs, AdoptPcs
<1> QED  BY Zenon, <1>1, <1>2 DEF ViewInv, BranchInv

LEMMA ViewKept ==
  ASSUME NEW t \in Thread, ViewOf(t), pc[t] \in ViewPcs, UNCHANGED <<viewVars, last, unspent>>
  PROVE  ViewOf(t)'
<1>1. ViewUnspent' = ViewUnspent
  BY Zenon DEF ViewUnspent
<1> QED  BY Zenon, <1>1 DEF ViewOf

LEMMA UpKept ==
  ASSUME TypeOK, UpInv, mode = "up", NEW t \in Thread, NEW q \in Pcs, index \subseteq index',
         UNCHANGED <<mode, last, unspent, dblast, txIndex, exact, blk>>,
         pc' = [pc EXCEPT ![t] = q],
         pc[t] \notin {"txindex", "unspent"}, q \notin {"txindex", "unspent"}
  PROVE  UpInv'
<1>1. \A b : TxExact(b)' <=> TxExact(b)
  BY Zenon DEF TxExact, TxIndexed
<1>2. \A u \in Thread : /\ pc'[u] \in {"txindex", "unspent"} <=> pc[u] \in {"txindex", "unspent"}
                        /\ pc'[u] = "unspent" <=> pc[u] = "unspent"
  BY Zenon DEF TypeOK
<1> QED  BY Zenon, <1>1, <1>2 DEF UpInv

LEMMA TrustKept ==
  ASSUME TypeOK, TrustInv, mode = "up", NEW t \in Thread, NEW q \in Pcs,
         UNCHANGED <<mode, index, last, broken, blk>>, pc' = [pc EXCEPT ![t] = q],
         pc[t] \in AdoptPcs => q \in AdoptPcs
  PROVE  TrustInv'
<1>1. \A u \in Thread : pc[u] \in AdoptPcs => pc'[u] \in AdoptPcs
  BY Zenon DEF TypeOK
<1> QED  BY Zenon, <1>1 DEF TrustInv

LEMMA RepairDone == ASSUME mode' = "up"  PROVE RepairInv'
BY Zenon DEF RepairInv, Repairing

(* The heaviest block of the file exists and is one.                       *)
LEMMA HeaviestFact ==
  ASSUME TypeOK, FilesInv
  PROVE  /\ Heaviest \in StoredBlocks /\ Heaviest \in Block /\ StoredBlocks \subseteq Block
         /\ \A b \in StoredBlocks : ChainTrust[b] <= ChainTrust[Heaviest]
<1> DEFINE j == CHOOSE i \in DOMAIN stored : IsHeaviest(i)
<1>1. j \in DOMAIN stored /\ IsHeaviest(j)
  BY Zenon DEF FilesInv
<1>2. Heaviest = stored[j]
  BY Zenon DEF Heaviest
<1>3. \A i \in DOMAIN stored : stored[i] \in Block
  BY DEF TypeOK
<1> HIDE DEF j
<1>4. \A i \in DOMAIN stored : ChainTrust[stored[i]] <= ChainTrust[stored[j]]
  BY <1>1, <1>3, BlockTrust DEF IsHeaviest
<1> QED  BY Zenon, <1>1, <1>2, <1>3, <1>4 DEF StoredBlocks

(* One round of GetBranch: path grows by the block idx leaves.             *)
LEMMA GetBranchStep ==
  ASSUME TypeOK, GetBranch, NEW target \in Block, NEW top \in Block,
         Leads(path, target, idx), ref \in Chain[top]
  PROVE  /\ ref' \in Chain[top] /\ ref' \in Block
         /\ idx' \in Block /\ path' \in Seq(Block) /\ Leads(path', target, idx')
<1>1. ref \in Block /\ idx \in Block /\ path \in Seq(Block) /\ idx # ref
  BY Zenon DEF TypeOK, GetBranch
<1>2. ref' \in Chain[top] /\ ref' \in Block
  <2>1. CASE Time[ref] >= Time[idx]
    <3>1. ref # Genesis
      BY <1>1, <2>1, BlockTimes
    <3> QED  BY Zenon, <1>1, <2>1, <3>1, ChainFacts DEF GetBranch
  <2>2. CASE ~(Time[ref] >= Time[idx])
    BY Zenon, <1>1, <2>2 DEF GetBranch
  <2> QED  BY Zenon, <2>1, <2>2
<1>3. CASE Time[idx] >= Time[ref]
  <2>1. idx # Genesis
    BY <1>1, <1>3, BlockTimes
  <2>2. idx' = Parent[idx] /\ path' = Append(path, idx)
    BY Zenon, <1>3 DEF GetBranch
  <2>3. Parent[idx] \in Block /\ Chain[idx] = Chain[Parent[idx]] \cup {idx}
    BY Zenon, <1>1, <2>1, ChainFacts
  <2>4. /\ Len(path') = Len(path) + 1 /\ path'[Len(path')] = idx /\ path' # <<>>
        /\ path' \in Seq(Block) /\ DOMAIN path' = 1..(Len(path) + 1)
        /\ \A j \in 1..Len(path) : path'[j] = path[j]
        /\ Len(path) \in Nat /\ DOMAIN path = 1..Len(path)
    BY <1>1, <2>2
  <2>5. {path'[j] : j \in DOMAIN path'} = {path[j] : j \in DOMAIN path} \cup {idx}
    BY <2>4
  <2>6. Chain[target] = Chain[Parent[idx]] \cup {path'[j] : j \in DOMAIN path'}
    BY Zenon, <2>3, <2>5 DEF Leads
  <2>7. path'[1] = target
    <3>1. CASE path = <<>>
      BY <1>1, <2>2, <3>1 DEF Leads
    <3>2. CASE path # <<>>
      BY <1>1, <2>4, <3>2 DEF Leads
    <3> QED  BY Zenon, <3>1, <3>2
  <2>8. \A j \in DOMAIN path' : path'[j] # Genesis
    BY <2>1, <2>4 DEF Leads
  <2>9. ASSUME NEW j \in 1..(Len(path') - 1)  PROVE Parent[path'[j]] = path'[j + 1]
    <3>1. j \in 1..Len(path) /\ j + 1 \in 1..(Len(path) + 1)
      BY <2>4
    <3>2. CASE j = Len(path)
      <4>1. path # <<>>
        BY <1>1, <3>1, <3>2
      <4> QED  BY Zenon, <2>4, <3>1, <3>2, <4>1 DEF Leads
    <3>3. CASE j # Len(path)
      <4>1. j \in 1..(Len(path) - 1) /\ j + 1 \in 1..Len(path)
        <5>1. Len(path) \in Nat
          BY Zenon, <2>4
        <5> QED  BY <3>1, <3>3, <5>1
      <4> QED  BY <2>4, <4>1 DEF Leads
    <3> QED  BY Zenon, <3>2, <3>3
  <2>10. Leads(path', target, Parent[idx])
    BY Zenon, <2>4, <2>6, <2>7, <2>8, <2>9 DEF Leads
  <2> QED  BY Zenon, <1>2, <2>2, <2>3, <2>4, <2>10
<1>4. CASE ~(Time[idx] >= Time[ref])
  BY Zenon, <1>1, <1>2, <1>4 DEF GetBranch
<1> QED  BY Zenon, <1>3, <1>4

(* The second loop of GetBlockView takes the last block of the path.       *)
LEMMA LeadsPop ==
  ASSUME NEW s \in Seq(Block), NEW target \in Block, NEW base \in Block,
         Leads(s, target, base), s # <<>>
  PROVE  LET x == s[Len(s)]
             r == SubSeq(s, 1, Len(s) - 1)
         IN  /\ x \in Block \ {Genesis} /\ Parent[x] = base /\ x \in Chain[target]
             /\ r \in Seq(Block) /\ Leads(r, target, x)
<1> DEFINE n == Len(s)
           x == s[n]
           r == SubSeq(s, 1, n - 1)
<1>1. n \in Nat \ {0} /\ DOMAIN s = 1..n
  OBVIOUS
<1>2. /\ r \in Seq(Block) /\ Len(r) = n - 1 /\ DOMAIN r = 1..(n - 1)
      /\ \A j \in 1..(n - 1) : r[j] = s[j]
  BY <1>1
<1>3. x \in Block \ {Genesis} /\ Parent[x] = base /\ x \in Chain[target]
  BY <1>1 DEF Leads
<1> HIDE DEF x, r
<1>4. {s[j] : j \in DOMAIN s} = {r[j] : j \in DOMAIN r} \cup {x}
  BY <1>1, <1>2 DEF x
<1>5. Chain[target] = Chain[x] \cup {r[j] : j \in DOMAIN r}
  BY Zenon, <1>3, <1>4, ChainFacts DEF Leads
<1>6. r = <<>> => x = target
  BY <1>1, <1>2 DEF Leads, x
<1>7. r # <<>> => r[1] = target /\ Parent[r[Len(r)]] = x
  <2> SUFFICES ASSUME r # <<>>  PROVE r[1] = target /\ Parent[r[Len(r)]] = x
    BY Zenon
  <2>1. n - 1 \in 1..(n - 1)
    BY <1>1, <1>2
  <2> QED  BY <1>1, <1>2, <2>1 DEF Leads, x
<1>8. \A j \in DOMAIN r : r[j] # Genesis
  BY <1>1, <1>2 DEF Leads
<1>9. ASSUME NEW j \in 1..(Len(r) - 1)  PROVE Parent[r[j]] = r[j + 1]
  <2>1. j \in 1..(n - 1) /\ j + 1 \in 1..(n - 1)
    BY <1>1, <1>2
  <2> QED  BY Zenon, <1>2, <2>1 DEF Leads
<1>10. Leads(r, target, x)
  BY Zenon, <1>5, <1>6, <1>7, <1>8, <1>9 DEF Leads
<1> QED  BY Zenon, <1>2, <1>3, <1>10 DEF x, r

-----------------------------------------------------------------------------
(* The steps.                                                              *)

LEMMA OfferInv ==
  ASSUME Inv, NEW t \in Thread, NEW b \in Block, Offer(t, b)
  PROVE  Inv'
<1> USE DEF Inv
<1>1. TypeOK'
  BY Zenon, BlockTree DEF TypeOK, Pcs, Modes, Offer, At, Goto
<1>2. FilesInv'
  BY ZenonT(40), FilesKept DEF Offer, At, Goto
<1>3. LockInv'
  BY Zenon DEF TypeOK, LockInv, Offer, At, Goto
<1>4. UpInv'
  BY ZenonT(40) DEF TypeOK, UpInv, TxExact, TxIndexed, Offer, At, Goto
<1>5. ViewInv' /\ BranchInv'
  <2>1. ASSUME NEW u \in Thread  PROVE ViewOf(u)' /\ BranchOf(u)'
    <3>1. CASE u = t
      BY Zenon, <3>1 DEF TypeOK, Offer, At, Goto, ViewOf, BranchOf, ViewPcs, AddedPcs, AdoptPcs
    <3>2. CASE u # t
      <4>1. pc'[u] = pc[u] /\ blk'[u] = blk[u]
        BY ZenonT(40), <3>2 DEF TypeOK, Offer, At, Goto
      <4>2. ViewOf(u)'
        BY ZenonT(40), <4>1, ViewKept DEF ViewInv, ViewOf, Offer, At, Goto
      <4>3. BranchOf(u)'
        BY <4>1 DEF BranchInv, BranchOf, StoredBlocks, Offer, At, Goto
      <4> QED  BY Zenon, <4>2, <4>3
    <3> QED  BY Zenon, <3>1, <3>2
  <2> QED  BY Zenon, <2>1 DEF ViewInv, BranchInv
<1>6. TrustInv'
  BY Zenon DEF TypeOK, TrustInv, AdoptPcs, Offer, At, Goto
<1>7. RepairInv'
  BY Zenon, RepairDone DEF Offer, At, Goto
<1> QED  BY Zenon, <1>1, <1>2, <1>3, <1>4, <1>5, <1>6, <1>7

LEMMA LockViewInv ==
  ASSUME Inv, NEW t \in Thread, LockView(t)
  PROVE  Inv'
<1> USE DEF Inv
<1>0. /\ \A u \in Thread : pc[u] \in {"idle", "ready"}
      /\ last \in index /\ last \in Sound /\ unspent = Utxo[last] /\ last \in Block
      /\ blk[t] \in Block /\ Parent[blk[t]] \in Block
  BY BlockTree DEF TypeOK, LockInv, UpInv, FilesInv, LockView, NoMarks, NoOpts, At, Goto
<1>1. TypeOK'
  BY <1>0 DEF TypeOK, Pcs, LockView, NoMarks, NoOpts, At, Goto
<1>2. FilesInv'
  BY Zenon, FilesKept DEF LockView, NoMarks, NoOpts, At, Goto
<1>3. LockInv'
  BY Zenon, <1>0, NoneFact DEF TypeOK, LockInv, LockView, NoMarks, NoOpts, At, Goto
<1>4. UpInv'
  BY Zenon, UpKept DEF LockView, NoMarks, NoOpts, At, Goto, Pcs
<1>5. ViewInv' /\ BranchInv'
  <2>1. ViewOf(t)'
    <3>0. mark' = NoMarks /\ nOpt' = NoOpts /\ unspent' = unspent
      BY Zenon DEF LockView, files, forkVars
    <3>1. Agrees(ViewUnspent', nOpt', unspent', last)
      BY <1>0, <3>0 DEF Agrees, ViewUnspent, Ind, NoMarks, NoOpts
    <3> QED  BY ZenonT(40), <1>0, <3>1 DEF ViewOf, LockView, NoMarks, NoOpts, At, Goto
  <2>2. BranchOf(t)'
    <3>1. Leads(<<>>, Parent[blk[t]], Parent[blk[t]])
      BY DEF Leads
    <3>2. pc'[t] = "branch" /\ blk' = blk
      BY Zenon DEF TypeOK, LockView, At, Goto
    <3>3. path' = <<>> /\ idx' = Parent[blk[t]] /\ ref' = last /\ cur' = last /\ last' = last /\ add' = {}
      BY Zenon DEF LockView, forkVars
    <3>4. last \in Chain[last]
      BY Zenon, <1>0, ChainFacts
    <3> QED  BY Zenon, <3>1, <3>2, <3>3, <3>4 DEF BranchOf, AddedPcs, AdoptPcs
  <2>3. \A u \in Thread : u # t => pc'[u] \in {"idle", "ready"}
    BY Zenon, <1>0 DEF TypeOK, LockView, NoMarks, NoOpts, At, Goto
  <2> QED  BY Zenon, <2>1, <2>2, <2>3, Inside
<1>6. TrustInv'
  BY ZenonT(40), TrustKept DEF LockView, NoMarks, NoOpts, At, Goto, Pcs, AdoptPcs
<1>7. RepairInv'
  BY ZenonT(40), RepairDone DEF LockView, NoMarks, NoOpts, At, Goto
<1> QED  BY Zenon, <1>1, <1>2, <1>3, <1>4, <1>5, <1>6, <1>7

LEMMA ViewBranchInv ==
  ASSUME Inv, NEW t \in Thread, ViewBranch(t)
  PROVE  Inv'
<1> USE DEF Inv
<1>0. /\ owner = t /\ mode = "up" /\ blk[t] # Genesis
      /\ blk[t] \in Block /\ Parent[blk[t]] \in index
      /\ \A u \in Thread : u # t => pc[u] \in {"idle", "ready"}
  BY ZenonT(40), Alone DEF ViewBranch, At
<1>a. Leads(path, Parent[blk[t]], idx) /\ ref \in Chain[cur] /\ cur \in Chain[last] /\ add = {}
      /\ cur = last
  BY ZenonT(40) DEF BranchInv, BranchOf, GetBranch, ViewBranch, At, Goto
<1>b. /\ ref' \in Chain[last] /\ ref' \in Block /\ idx' \in Block /\ path' \in Seq(Block)
      /\ Leads(path', Parent[blk[t]], idx')
  <2>1. Parent[blk[t]] \in Block
    BY ZenonT(40), <1>0 DEF TypeOK
  <2> QED  BY ZenonT(40), <1>a, <2>1, GetBranchStep DEF TypeOK, ViewBranch, At, Goto
<1>1. TypeOK'
  BY Zenon, <1>b DEF TypeOK, ViewBranch, At, Goto
<1>2. FilesInv'
  BY Zenon, FilesKept DEF ViewBranch, At, Goto
<1>3. LockInv'
  BY ZenonT(40) DEF TypeOK, LockInv, ViewBranch, At, Goto
<1>4. UpInv'
  BY Zenon, <1>0 DEF TypeOK, UpInv, TxExact, TxIndexed, ViewBranch, At, Goto
<1>5. ViewInv' /\ BranchInv'
  <2>1. ViewOf(t)'
    BY Zenon, ViewKept DEF ViewInv, ViewPcs, ViewBranch, At, Goto
  <2>2. BranchOf(t)'
    BY Zenon, <1>a, <1>b DEF BranchOf, AddedPcs, AdoptPcs, ViewBranch, At, Goto
  <2>3. \A u \in Thread : u # t => pc'[u] \in {"idle", "ready"}
    BY Zenon, <1>0 DEF TypeOK, ViewBranch, At, Goto
  <2> QED  BY Zenon, <2>1, <2>2, <2>3, Inside
<1>6. TrustInv'
  BY Zenon, <1>0 DEF TypeOK, TrustInv, ViewBranch, At, Goto
<1>7. RepairInv'
  BY Zenon, RepairDone DEF ViewBranch, At, Goto
<1> QED  BY Zenon, <1>1, <1>2, <1>3, <1>4, <1>5, <1>6, <1>7

LEMMA RemoveBlockInv ==
  ASSUME Inv, NEW t \in Thread, RemoveBlock(t)
  PROVE  Inv'
<1> USE DEF Inv
<1>0. /\ owner = t /\ mode = "up" /\ blk[t] # Genesis
      /\ blk[t] \in Block /\ Parent[blk[t]] \in index
      /\ \A u \in Thread : u # t => pc[u] \in {"idle", "ready"}
  BY Zenon, Alone DEF RemoveBlock, At
<1>a. /\ Leads(path, Parent[blk[t]], idx) /\ ref \in Chain[cur] /\ cur \in Chain[last] /\ add = {}
      /\ idx = ref
  BY Zenon DEF BranchInv, BranchOf, RemoveBlock, At, Goto
<1>b. /\ cur \in Sound /\ Agrees(ViewUnspent, nOpt, unspent, cur) /\ rem \subseteq Chain[last]
      /\ \A x \in Chain[cur] : x \in add \/ (x \in Chain[last] /\ x \notin rem)
      /\ \A x \in Chain[last] : x \in rem \/ x \in Chain[cur]
  BY ZenonT(40) DEF ViewInv, ViewOf, ViewPcs, RemoveBlock, At, Goto
<1>c. cur \in Block /\ last \in Block /\ cur # Genesis
  BY Zenon, <1>a, BlockTree DEF TypeOK, RemoveBlock, At, Goto
<1>d. /\ Parent[cur] \in Block /\ Parent[cur] \in Chain[cur] /\ cur \notin Chain[Parent[cur]]
      /\ Chain[cur] = Chain[Parent[cur]] \cup {cur} /\ Chain[Parent[cur]] \subseteq Chain[cur]
      /\ Chain[cur] \subseteq Chain[last]
  BY ZenonT(40), <1>a, <1>c, ChainFacts
<1>e. /\ Parent[cur] \in Sound
      /\ mark' \in [Out -> {"none", "enabled", "spent"}] /\ nOpt' \in [Out -> Int]
      /\ Agrees(ViewUnspent', nOpt', unspent', Parent[cur])
  BY ZenonT(40), <1>b, <1>c, SoundStep, ViewRemoveEffect DEF RemoveBlock, At, Goto
<1>1. TypeOK'
  BY Zenon, <1>c, <1>d, <1>e DEF TypeOK, RemoveBlock, At, Goto
<1>2. FilesInv'
  BY Zenon, FilesKept DEF RemoveBlock, At, Goto
<1>3. LockInv'
  BY ZenonT(40) DEF TypeOK, LockInv, RemoveBlock, At, Goto
<1>4. UpInv'
  BY ZenonT(40), <1>0 DEF TypeOK, UpInv, TxExact, TxIndexed, RemoveBlock, At, Goto
<1>5. ViewInv' /\ BranchInv'
  <2>1. ViewOf(t)'
    <3>1. cur' = Parent[cur] /\ rem' = rem \cup {cur} /\ add' = add /\ last' = last /\ pc' = pc
      BY Zenon DEF RemoveBlock, At, Goto
    <3>2. \A x \in Chain[cur'] : x \in add' \/ (x \in Chain[last'] /\ x \notin rem')
      BY Zenon, <1>a, <1>b, <1>d, <3>1
    <3>3. \A x \in Chain[last'] : x \in rem' \/ x \in Chain[cur']
      BY ZenonT(40), <1>b, <1>d, <3>1
    <3>4. cur' \in Sound /\ Agrees(ViewUnspent', nOpt', unspent', cur') /\ rem' \subseteq Chain[last'] /\ add' \subseteq Chain[cur']
      BY ZenonT(40), <1>a, <1>b, <1>e, <3>1
    <3> QED  BY Zenon, <3>2, <3>3, <3>4 DEF ViewOf
  <2>2. BranchOf(t)'
    BY ZenonT(40), <1>a, <1>d DEF BranchOf, AddedPcs, AdoptPcs, RemoveBlock, At, Goto
  <2>3. \A u \in Thread : u # t => pc'[u] \in {"idle", "ready"}
    BY ZenonT(40), <1>0 DEF TypeOK, RemoveBlock, At, Goto
  <2> QED  BY Zenon, <2>1, <2>2, <2>3, Inside
<1>6. TrustInv'
  BY Zenon, <1>0 DEF TypeOK, TrustInv, RemoveBlock, At, Goto
<1>7. RepairInv'
  BY Zenon, RepairDone DEF RemoveBlock, At, Goto
<1> QED  BY Zenon, <1>1, <1>2, <1>3, <1>4, <1>5, <1>6, <1>7

LEMMA StartAddInv ==
  ASSUME Inv, NEW t \in Thread, StartAdd(t)
  PROVE  Inv'
<1> USE DEF Inv
<1>0. /\ owner = t /\ mode = "up" /\ blk[t] # Genesis
      /\ blk[t] \in Block /\ Parent[blk[t]] \in index
      /\ \A u \in Thread : u # t => pc[u] \in {"idle", "ready"}
  BY Zenon, Alone DEF StartAdd, At
<1>1. TypeOK'
  BY Zenon, BlockTree DEF TypeOK, Pcs, Modes, StartAdd, At, Goto
<1>2. FilesInv'
  BY Zenon, FilesKept DEF StartAdd, At, Goto
<1>3. LockInv'
  BY Zenon DEF TypeOK, LockInv, StartAdd, At, Goto
<1>4. UpInv'
  BY Zenon, UpKept DEF StartAdd, At, Goto, Pcs
<1>5. ViewInv' /\ BranchInv'
  <2>1. ViewOf(t)'
    BY Zenon, ViewKept DEF ViewInv, ViewPcs, StartAdd, At, Goto
  <2>2. BranchOf(t)'
    BY Zenon DEF TypeOK, BranchInv, BranchOf, AddedPcs, AdoptPcs, StoredBlocks, StartAdd, At, Goto
  <2>3. \A u \in Thread : u # t => pc'[u] \in {"idle", "ready"}
    BY Zenon, <1>0 DEF TypeOK, StartAdd, At, Goto
  <2> QED  BY Zenon, <2>1, <2>2, <2>3, Inside
<1>6. TrustInv'
  BY Zenon, TrustKept DEF StartAdd, At, Goto, Pcs, AdoptPcs
<1>7. RepairInv'
  BY Zenon, RepairDone DEF StartAdd, At, Goto
<1> QED  BY Zenon, <1>1, <1>2, <1>3, <1>4, <1>5, <1>6, <1>7

LEMMA AddBlockInv ==
  ASSUME Inv, NEW t \in Thread, AddBlock(t)
  PROVE  Inv'
<1> USE DEF Inv
<1>0. /\ owner = t /\ mode = "up" /\ blk[t] # Genesis
      /\ blk[t] \in Block /\ Parent[blk[t]] \in index
      /\ \A u \in Thread : u # t => pc[u] \in {"idle", "ready"}
  BY Zenon, Alone DEF AddBlock, At
<1> DEFINE x == path[Len(path)]
<1>a. Leads(path, Parent[blk[t]], cur) /\ Parent[blk[t]] \in Block /\ cur \in Block /\ path \in Seq(Block)
  BY ZenonT(40), <1>0 DEF TypeOK, BranchInv, BranchOf, AddBlock, At, Goto
<1>b. /\ cur \in Sound /\ Agrees(ViewUnspent, nOpt, unspent, cur) /\ rem \subseteq Chain[last] /\ add \subseteq Chain[cur]
      /\ \A y \in Chain[cur] : y \in add \/ (y \in Chain[last] /\ y \notin rem)
      /\ \A y \in Chain[last] : y \in rem \/ y \in Chain[cur]
  BY ZenonT(40) DEF ViewInv, ViewOf, ViewPcs, AddBlock, At, Goto
<1>c. /\ x \in Block \ {Genesis} /\ Parent[x] = cur /\ x \in Chain[Parent[blk[t]]]
      /\ Leads(path', Parent[blk[t]], x) /\ path' \in Seq(Block)
  BY Zenon, <1>a, LeadsPop DEF AddBlock, At, Goto
<1>d. x \in Sound
  BY Zenon, <1>0, <1>c DEF FilesInv
<1>e. mark' \in [Out -> {"none", "enabled", "spent"}] /\ nOpt' \in [Out -> Int] /\ Agrees(ViewUnspent', nOpt', unspent', x)
  BY ZenonT(40), <1>b, <1>c, <1>d, ViewAddEffect DEF AddBlock, At, Goto
<1>f. Chain[x] = Chain[cur] \cup {x}
  BY Zenon, <1>c, ChainFacts
<1>g. /\ cur' = x /\ add' = add \cup {x} /\ rem' = rem /\ last' = last /\ pc' = pc /\ blk' = blk
      /\ pc[t] = "add"
  BY Zenon DEF AddBlock, At, Goto
<1> HIDE DEF x
<1>1. TypeOK'
  BY Zenon, <1>c, <1>e, <1>g DEF TypeOK, AddBlock, At, Goto
<1>2. FilesInv'
  BY Zenon, FilesKept DEF AddBlock, At, Goto
<1>3. LockInv'
  BY ZenonT(40) DEF TypeOK, LockInv, AddBlock, At, Goto
<1>4. UpInv'
  BY Zenon, <1>0 DEF TypeOK, UpInv, TxExact, TxIndexed, AddBlock, At, Goto
<1>5. ViewInv' /\ BranchInv'
  <2>1. ViewOf(t)'
    BY ZenonT(40), <1>b, <1>d, <1>e, <1>f, <1>g DEF ViewOf
  <2>2. BranchOf(t)'
    BY Zenon, <1>c, <1>g DEF BranchOf, AddedPcs, AdoptPcs
  <2>3. \A u \in Thread : u # t => pc'[u] \in {"idle", "ready"}
    BY ZenonT(40), <1>0 DEF TypeOK, AddBlock, At, Goto
  <2> QED  BY Zenon, <2>1, <2>2, <2>3, Inside
<1>6. TrustInv'
  BY Zenon, <1>0 DEF TypeOK, TrustInv, AddBlock, At, Goto
<1>7. RepairInv'
  BY Zenon, RepairDone DEF AddBlock, At, Goto
<1> QED  BY Zenon, <1>1, <1>2, <1>3, <1>4, <1>5, <1>6, <1>7

LEMMA VerifyTxsInv ==
  ASSUME Inv, NEW t \in Thread, VerifyTxs(t)
  PROVE  Inv'
<1> USE DEF Inv
<1>0. /\ owner = t /\ mode = "up" /\ blk[t] # Genesis
      /\ blk[t] \in Block /\ Parent[blk[t]] \in index
      /\ \A u \in Thread : u # t => pc[u] \in {"idle", "ready"}
  BY Zenon, Alone DEF VerifyTxs, At
<1> DEFINE x == blk[t]
<1>a. cur = Parent[x] /\ cur \in Block /\ x \in Block \ {Genesis}
  BY ZenonT(40), <1>0 DEF TypeOK, BranchInv, BranchOf, Leads, VerifyTxs, At, Goto
<1>b. /\ cur \in Sound /\ Agrees(ViewUnspent, nOpt, unspent, cur) /\ rem \subseteq Chain[last] /\ add \subseteq Chain[cur]
      /\ \A y \in Chain[cur] : y \in add \/ (y \in Chain[last] /\ y \notin rem)
      /\ \A y \in Chain[last] : y \in rem \/ y \in Chain[cur]
  BY ZenonT(40) DEF ViewInv, ViewOf, ViewPcs, VerifyTxs, At, Goto
<1>c. ViewUnspent = Utxo[cur]
  BY Zenon, <1>a, <1>b, UtxoFacts DEF Agrees, ViewUnspent
<1>d. x \in Sound
  BY ZenonT(40), <1>a, <1>b, <1>c, SoundExtends DEF TxsValid, VerifyTxs, At, Goto
<1>e. mark' \in [Out -> {"none", "enabled", "spent"}] /\ nOpt' \in [Out -> Int] /\ Agrees(ViewUnspent', nOpt', unspent', x)
  BY ZenonT(40), <1>a, <1>b, <1>d, ViewAddEffect DEF VerifyTxs, At, Goto
<1>f. Chain[x] = Chain[cur] \cup {x}
  BY ZenonT(40), <1>a, ChainFacts
<1>g. /\ cur' = x /\ add' = add \cup {x} /\ rem' = rem /\ last' = last /\ blk' = blk
      /\ pc'[t] = "write"
  BY Zenon DEF TypeOK, VerifyTxs, At, Goto
<1>1. TypeOK'
  BY Zenon, <1>a, <1>e, <1>g DEF TypeOK, Pcs, VerifyTxs, At, Goto
<1>2. FilesInv'
  BY Zenon, FilesKept DEF VerifyTxs, At, Goto
<1>3. LockInv'
  BY Zenon DEF TypeOK, LockInv, VerifyTxs, At, Goto
<1>4. UpInv'
  BY Zenon, UpKept DEF VerifyTxs, At, Goto, Pcs
<1>5. ViewInv' /\ BranchInv'
  <2>1. ViewOf(t)'
    BY ZenonT(40), <1>b, <1>d, <1>e, <1>f, <1>g DEF ViewOf
  <2>2. BranchOf(t)'
    BY ZenonT(40), <1>g DEF BranchOf, AddedPcs, AdoptPcs
  <2>3. \A u \in Thread : u # t => pc'[u] \in {"idle", "ready"}
    BY Zenon, <1>0 DEF TypeOK, VerifyTxs, At, Goto
  <2> QED  BY Zenon, <2>1, <2>2, <2>3, Inside
<1>6. TrustInv'
  BY Zenon, TrustKept DEF VerifyTxs, At, Goto, Pcs, AdoptPcs
<1>7. RepairInv'
  BY Zenon, RepairDone DEF VerifyTxs, At, Goto
<1> QED  BY Zenon, <1>1, <1>2, <1>3, <1>4, <1>5, <1>6, <1>7

LEMMA RejectTxsInv ==
  ASSUME Inv, NEW t \in Thread, RejectTxs(t)
  PROVE  Inv'
<1> USE DEF Inv
<1>0. /\ owner = t /\ mode = "up" /\ blk[t] # Genesis
      /\ blk[t] \in Block /\ Parent[blk[t]] \in index
      /\ \A u \in Thread : u # t => pc[u] \in {"idle", "ready"}
  BY ZenonT(40), Alone DEF RejectTxs, At
<1>1. TypeOK'
  BY NoneFact DEF TypeOK, Pcs, RejectTxs, Release, DropView, NoMarks, NoOpts, At, Goto
<1>2. FilesInv'
  BY Zenon, FilesKept DEF RejectTxs, Release, DropView, NoMarks, NoOpts, At, Goto
<1>3. LockInv'
  BY Zenon, <1>0, NoneFact DEF TypeOK, LockInv, RejectTxs, Release, DropView, NoMarks, NoOpts, At, Goto
<1>4. UpInv'
  BY Zenon, UpKept DEF RejectTxs, Release, DropView, NoMarks, NoOpts, At, Goto, Pcs
<1>5. ViewInv' /\ BranchInv'
  <2>1. pc' = [pc EXCEPT ![t] = "idle"]
    BY ZenonT(40) DEF RejectTxs, Release, Goto
  <2>2. \A u \in Thread : pc'[u] \in {"idle", "ready"}
    BY Zenon, <1>0, <2>1 DEF TypeOK
  <2> QED  BY Zenon, <2>2, Outside
<1>6. TrustInv'
  BY Zenon, TrustKept DEF RejectTxs, Release, DropView, NoMarks, NoOpts, At, Goto, Pcs, AdoptPcs
<1>7. RepairInv'
  BY Zenon, RepairDone DEF RejectTxs, Release, DropView, NoMarks, NoOpts, At, Goto
<1> QED  BY Zenon, <1>1, <1>2, <1>3, <1>4, <1>5, <1>6, <1>7

LEMMA WriteBlockInv ==
  ASSUME Inv, NEW t \in Thread, WriteBlock(t)
  PROVE  Inv'
<1> USE DEF Inv
<1>0. /\ owner = t /\ mode = "up" /\ blk[t] # Genesis
      /\ blk[t] \in Block /\ Parent[blk[t]] \in index
      /\ \A u \in Thread : u # t => pc[u] \in {"idle", "ready"}
  BY Zenon, Alone DEF WriteBlock, At
<1>a. blk[t] \in Sound
  BY ZenonT(40) DEF ViewInv, ViewOf, BranchInv, BranchOf, ViewPcs, AddedPcs, WriteBlock, At, Goto
<1>b. /\ stored \in Seq(Block) /\ stored' = Append(stored, blk[t]) /\ stored' \in Seq(Block)
      /\ Len(stored) \in Nat /\ DOMAIN stored = 1..Len(stored) /\ DOMAIN stored' = 1..(Len(stored) + 1)
      /\ stored'[Len(stored) + 1] = blk[t] /\ \A j \in DOMAIN stored : stored'[j] = stored[j]
  BY <1>0 DEF TypeOK, WriteBlock, At, Goto
<1>c. StoredBlocks' = StoredBlocks \cup {blk[t]}
  BY <1>b DEF StoredBlocks
<1>1. TypeOK'
  BY ZenonT(40), <1>b DEF TypeOK, Pcs, WriteBlock, At, Goto
<1>2. FilesInv'
  <2>1. Chain[blk[t]] \subseteq StoredBlocks'
    BY <1>0, <1>c, ChainFacts DEF FilesInv
  <2>2. \E j \in DOMAIN stored' : IsHeaviest(j)'
    <3>1. PICK j \in DOMAIN stored : IsHeaviest(j)
      BY Zenon DEF FilesInv
    <3>2. /\ \A i \in DOMAIN stored : ChainTrust[stored[i]] \in Nat
          /\ ChainTrust[blk[t]] \in Nat
      BY <1>0, <1>b, BlockTrust
    <3>3. CASE ChainTrust[blk[t]] > ChainTrust[stored[j]]
      <4>1. \A i \in DOMAIN stored : ChainTrust[stored[i]] < ChainTrust[blk[t]]
        BY <3>1, <3>2, <3>3 DEF IsHeaviest
      <4>2. PICK n \in DOMAIN stored' : n = Len(stored) + 1
        <5>1. Len(stored) \in Nat /\ DOMAIN stored' = 1..(Len(stored) + 1)
          BY Zenon, <1>b
        <5> QED  BY <5>1
      <4>3. IsHeaviest(n)'
        <5> SUFFICES ASSUME NEW i \in DOMAIN stored'
                     PROVE  \/ ChainTrust[stored'[i]] < ChainTrust[blk[t]]
                            \/ i = n
          BY <1>b, <4>2 DEF IsHeaviest
        <5> QED  BY <1>b, <4>1, <4>2
      <4> QED  BY Zenon, <4>3
    <3>4. CASE ~(ChainTrust[blk[t]] > ChainTrust[stored[j]])
      <4>1. IsHeaviest(j)'
        <5> SUFFICES ASSUME NEW i \in DOMAIN stored'
                     PROVE  \/ ChainTrust[stored'[i]] < ChainTrust[stored[j]]
                            \/ ChainTrust[stored'[i]] = ChainTrust[stored[j]] /\ j <= i
          BY Zenon, <1>b DEF IsHeaviest
        <5>1. CASE i \in DOMAIN stored
          BY Zenon, <1>b, <3>1, <5>1 DEF IsHeaviest
        <5>2. CASE i = Len(stored) + 1
          BY SMTT(30), <1>b, <3>1, <3>2, <3>4, <5>2
        <5> QED  BY SMTT(30), <1>b, <5>1, <5>2
      <4> QED  BY <1>b, <4>1
    <3> QED  BY Zenon, <3>3, <3>4
  <2> QED  BY ZenonT(40), <1>a, <1>c, <2>1, <2>2 DEF FilesInv, WriteBlock, At, Goto
<1>3. LockInv'
  BY ZenonT(40) DEF TypeOK, LockInv, WriteBlock, At, Goto
<1>4. UpInv'
  BY Zenon, UpKept DEF WriteBlock, At, Goto, Pcs
<1>5. ViewInv' /\ BranchInv'
  <2>1. ViewOf(t)'
    BY Zenon, ViewKept DEF ViewInv, ViewPcs, WriteBlock, At, Goto
  <2>2. BranchOf(t)'
    BY ZenonT(40), <1>c DEF TypeOK, BranchInv, BranchOf, AddedPcs, AdoptPcs, WriteBlock, At, Goto
  <2>3. \A u \in Thread : u # t => pc'[u] \in {"idle", "ready"}
    BY Zenon, <1>0 DEF TypeOK, WriteBlock, At, Goto
  <2> QED  BY Zenon, <2>1, <2>2, <2>3, Inside
<1>6. TrustInv'
  BY Zenon, TrustKept DEF WriteBlock, At, Goto, Pcs, AdoptPcs
<1>7. RepairInv'
  BY Zenon, RepairDone DEF WriteBlock, At, Goto
<1> QED  BY Zenon, <1>1, <1>2, <1>3, <1>4, <1>5, <1>6, <1>7

LEMMA AlreadyKnownInv ==
  ASSUME Inv, NEW t \in Thread, AlreadyKnown(t)
  PROVE  Inv'
<1> USE DEF Inv
<1>0. /\ owner = t /\ mode = "up" /\ blk[t] # Genesis
      /\ blk[t] \in Block /\ Parent[blk[t]] \in index
      /\ \A u \in Thread : u # t => pc[u] \in {"idle", "ready"}
  BY ZenonT(40), Alone DEF AlreadyKnown, At
<1>1. TypeOK'
  BY NoneFact DEF TypeOK, Pcs, AlreadyKnown, Release, DropView, NoMarks, NoOpts, At, Goto
<1>2. FilesInv'
  BY Zenon, FilesKept DEF AlreadyKnown, Release, DropView, NoMarks, NoOpts, At, Goto
<1>3. LockInv'
  BY Zenon, <1>0, NoneFact DEF TypeOK, LockInv, AlreadyKnown, Release, DropView, NoMarks, NoOpts, At, Goto
<1>4. UpInv'
  BY ZenonT(40), UpKept DEF AlreadyKnown, Release, DropView, NoMarks, NoOpts, At, Goto, Pcs
<1>5. ViewInv' /\ BranchInv'
  <2>1. \A u \in Thread : pc'[u] \in {"idle", "ready"}
    BY Zenon, <1>0 DEF TypeOK, AlreadyKnown, Release, DropView, NoMarks, NoOpts, At, Goto
  <2> QED  BY Zenon, <2>1, Outside
<1>6. TrustInv'
  BY Zenon, TrustKept DEF AlreadyKnown, Release, DropView, NoMarks, NoOpts, At, Goto, Pcs, AdoptPcs
<1>7. RepairInv'
  BY Zenon, RepairDone DEF AlreadyKnown, Release, DropView, NoMarks, NoOpts, At, Goto
<1> QED  BY Zenon, <1>1, <1>2, <1>3, <1>4, <1>5, <1>6, <1>7

LEMMA AddIndexInv ==
  ASSUME Inv, NEW t \in Thread, AddIndex(t)
  PROVE  Inv'
<1> USE DEF Inv
<1>0. /\ owner = t /\ mode = "up" /\ blk[t] # Genesis
      /\ blk[t] \in Block /\ Parent[blk[t]] \in index
      /\ \A u \in Thread : u # t => pc[u] \in {"idle", "ready"}
  BY ZenonT(40), Alone DEF AddIndex, At
<1>a. blk[t] \in StoredBlocks /\ StoredBlocks' = StoredBlocks /\ index' = index \cup {blk[t]}
  BY ZenonT(40) DEF BranchInv, BranchOf, StoredBlocks, AddIndex, At, Goto
<1>1. TypeOK'
  BY Zenon, <1>0 DEF TypeOK, Pcs, AddIndex, At, Goto
<1>2. FilesInv'
  <2>1. Chain[blk[t]] \subseteq index'
    BY <1>0, <1>a, ChainFacts DEF FilesInv
  <2>2. \A j : IsHeaviest(j)' <=> IsHeaviest(j)
    BY ZenonT(40) DEF IsHeaviest, AddIndex, At, Goto
  <2>3. stored' = stored /\ dblast' = dblast
    BY ZenonT(40) DEF AddIndex, At, Goto
  <2> QED  BY ZenonT(40), <1>a, <2>1, <2>2, <2>3 DEF FilesInv
<1>3. LockInv'
  BY ZenonT(40) DEF TypeOK, LockInv, AddIndex, At, Goto
<1>4. UpInv'
  BY Zenon, UpKept DEF AddIndex, At, Goto, Pcs
<1>5. ViewInv' /\ BranchInv'
  <2>1. ViewOf(t)'
    BY Zenon, ViewKept DEF ViewInv, ViewPcs, AddIndex, At, Goto
  <2>2. BranchOf(t)'
    BY Zenon DEF TypeOK, BranchInv, BranchOf, AddedPcs, AdoptPcs, StoredBlocks, AddIndex, At, Goto
  <2>3. \A u \in Thread : u # t => pc'[u] \in {"idle", "ready"}
    BY Zenon, <1>0 DEF TypeOK, AddIndex, At, Goto
  <2> QED  BY Zenon, <2>1, <2>2, <2>3, Inside
<1>6. TrustInv'
  <2>1. /\ mode' = mode /\ index' = index \cup {blk[t]} /\ last' = last /\ broken' = broken
        /\ blk' = blk
    BY ZenonT(40) DEF AddIndex
  <2>2. pc[t] \notin AdoptPcs /\ pc'[t] \in AdoptPcs /\ \A u \in Thread : u # t => pc'[u] = pc[u]
    BY Zenon DEF TypeOK, AdoptPcs, AddIndex, At, Goto
  <2> QED  BY Zenon, <1>0, <2>1, <2>2 DEF TrustInv
<1>7. RepairInv'
  BY ZenonT(40), RepairDone DEF AddIndex, At, Goto
<1> QED  BY Zenon, <1>1, <1>2, <1>3, <1>4, <1>5, <1>6, <1>7

LEMMA AddIndexFailsInv ==
  ASSUME Inv, NEW t \in Thread, AddIndexFails(t)
  PROVE  Inv'
<1> USE DEF Inv
<1>0. /\ owner = t /\ mode = "up" /\ blk[t] # Genesis
      /\ blk[t] \in Block /\ Parent[blk[t]] \in index
      /\ \A u \in Thread : u # t => pc[u] \in {"idle", "ready"}
  BY ZenonT(40), Alone DEF AddIndexFails, At
<1>1. TypeOK'
  BY NoneFact DEF TypeOK, Pcs, AddIndexFails, Release, DropView, NoMarks, NoOpts, At, Goto
<1>2. FilesInv'
  BY Zenon, FilesKept DEF AddIndexFails, Release, DropView, NoMarks, NoOpts, At, Goto
<1>3. LockInv'
  BY Zenon, <1>0, NoneFact DEF TypeOK, LockInv, AddIndexFails, Release, DropView, NoMarks, NoOpts, At, Goto
<1>4. UpInv'
  BY ZenonT(40), UpKept DEF AddIndexFails, Release, DropView, NoMarks, NoOpts, At, Goto, Pcs
<1>5. ViewInv' /\ BranchInv'
  <2>1. \A u \in Thread : pc'[u] \in {"idle", "ready"}
    BY Zenon, <1>0 DEF TypeOK, AddIndexFails, Release, DropView, NoMarks, NoOpts, At, Goto
  <2> QED  BY Zenon, <2>1, Outside
<1>6. TrustInv'
  BY Zenon, TrustKept DEF AddIndexFails, Release, DropView, NoMarks, NoOpts, At, Goto, Pcs, AdoptPcs
<1>7. RepairInv'
  BY Zenon, RepairDone DEF AddIndexFails, Release, DropView, NoMarks, NoOpts, At, Goto
<1> QED  BY Zenon, <1>1, <1>2, <1>3, <1>4, <1>5, <1>6, <1>7
=============================================================================
