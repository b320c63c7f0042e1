------------------------------ MODULE NodeChain ------------------------------
(***************************************************************************)
(* The EVM node as the listener sees it over JSON-RPC: one canonical chain *)
(* of blocks that grows at its end and is now and then replaced by another *)
(* chain (a reorganisation).  The node is not part of the repository; this *)
(* is what the calls HeaderByNumber, FilterLogs, eth_getBlockByNumber and  *)
(* BlockNumber of the listener read.                                       *)
(*                                                                         *)
(* A block stands for its hash: Parent and Number are functions of it, as  *)
(* a hash commits to the block's header.                                   *)
(***************************************************************************)
EXTENDS Naturals

CONSTANTS
  Block,      \* block hashes of every branch
  Genesis,    \* the only block with number 0
  Parent,     \* Parent[b] is the hash in b's ParentHash field
  Number,     \* Number[b] is b's height
  Tx,         \* transactions; each stands for the one event row it gives
  Natives,    \* Natives[b]: transactions of b that are native transfers
  Logs,       \* Logs[b]: transactions of b with a relevant contract log
  MaxHeight,  \* bound: no chain is longer
  MaxReorgs,  \* bound: how often the canonical chain is replaced
  Chains      \* the canonical chains the node can have

\* The blocks form a tree rooted in Genesis.
ASSUME BlockAssumption ==
  /\ MaxHeight \in Nat
  /\ Genesis \in Block
  /\ Parent \in [Block -> Block]
  /\ Number \in [Block -> Nat]
  /\ \A b \in Block : Number[b] = 0 <=> b = Genesis
  /\ \A b \in Block : b # Genesis => Number[b] = Number[Parent[b]] + 1

\* A canonical chain holds one block per height, each the child of the one below.
ASSUME ChainAssumption ==
  \A c \in Chains : \E h \in 0..MaxHeight :
     /\ c \in [0..h -> Block]
     /\ \A n \in 0..h : Number[c[n]] = n
     /\ \A n \in 1..h : Parent[c[n]] = c[n-1]

ASSUME EventAssumption ==
  /\ Natives \in [Block -> SUBSET Tx]
  /\ Logs \in [Block -> SUBSET Tx]

\* A chain executes a transaction once.
ASSUME MinedOnceAssumption ==
  \A c \in Chains : \A m, n \in DOMAIN c :
    m # n => (Natives[c[m]] \cup Logs[c[m]]) \cap (Natives[c[n]] \cup Logs[c[n]]) = {}

VARIABLES
  canon,      \* the canonical chain, a function from heights to blocks
  reorgs      \* how many reorganisations have happened

chainVars == <<canon, reorgs>>

\* eth_blockNumber: the height of the newest canonical block.
HeadHeight(c) == CHOOSE h \in 0..MaxHeight : DOMAIN c = 0..h

\* eth_getTransactionReceipt finds a transaction only on the canonical chain.
Mined(t) == \E n \in DOMAIN canon : t \in Natives[canon[n]] \cup Logs[canon[n]]

\* eth_getBlockByNumber and eth_getLogs for a height: nothing above the head.
NativesAt(n) == IF n \in DOMAIN canon THEN Natives[canon[n]] ELSE {}
LogsAt(n) == IF n \in DOMAIN canon THEN Logs[canon[n]] ELSE {}

ChainInit ==
  /\ canon \in {c \in Chains : DOMAIN c = 0..1}
  /\ reorgs = 0

\* A block is mined on top of the canonical chain.
Grow ==
  /\ \E c \in Chains :
       /\ DOMAIN c = 0..(HeadHeight(canon) + 1)
       /\ \A n \in DOMAIN canon : c[n] = canon[n]
       /\ canon' = c
  /\ UNCHANGED reorgs

\* The node switches to another branch, which may be longer or shorter.  Once
\* the chain has its bounded height it is left alone, so that the last change a
\* run sees is always a block no one has scanned.
Reorg ==
  /\ reorgs < MaxReorgs
  /\ HeadHeight(canon) < MaxHeight
  /\ \E c \in Chains :
       /\ \E n \in DOMAIN canon \cap DOMAIN c : c[n] # canon[n]
       /\ canon' = c
  /\ reorgs' = reorgs + 1

ChainNext == Grow \/ Reorg
==============================================================================
