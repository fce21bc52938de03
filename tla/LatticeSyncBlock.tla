-------------------------- MODULE LatticeSyncBlock --------------------------
(***************************************************************************)
(* findLatticeSyncBlock of syncer.Consensus: the search, backwards along   *)
(* the compaction chain, for the block from which the lattice (and with it *)
(* the total ordering) is seeded.                                          *)
(*                                                                         *)
(* A block of the compaction chain is named by its Finalization.Height,    *)
(* 1 for the block whose Finalization.ParentHash is the zero hash, so the  *)
(* block found under Finalization.ParentHash of block b is block b - 1.    *)
(* Each step of the module is one iteration, or one exit, of a loop of     *)
(* the function.                                                           *)
(***************************************************************************)
EXTENDS Naturals, FiniteSets, FiniteSetsExt

CONSTANTS
    MaxBlocks,        \* bound: blocks of the compaction chain
    MaxRound,         \* bound: highest Position.Round of a block
    Configs,          \* values of (K, NumChains, PhiRatio), what isConfigChanged reads
    ConfigRoundShift  \* core.ConfigRoundShift: rounds of configs fetched ahead

ASSUME /\ MaxBlocks \in Nat \ {0}
       /\ MaxRound \in Nat
       /\ ConfigRoundShift \in Nat \ {0}

VARIABLES
    chain,    \* the compaction chain: height -> [hash, round, ...]
    configs,  \* con.configs: round -> Configs
    db        \* con.db: the heights of the blocks it holds

VARIABLES
    pc,                     \* the loop findLatticeSyncBlock is in
    round,
    lastBlock,
    curBlock,
    deliverSetFirstBlock,
    deliverSetLastBlock,
    result                  \* what findLatticeSyncBlock returned

env    == <<chain, configs, db>>
locals == <<round, lastBlock, curBlock, deliverSetFirstBlock, deliverSetLastBlock>>
vars   == <<env, pc, locals, result>>

Heights == 1..MaxBlocks
Rounds  == 0..MaxRound
NoBlock == 0

Pending                == [kind |-> "pending", block |-> NoBlock]
Found(b)               == [kind |-> "found", block |-> b]
NotFound               == [kind |-> "nil", block |-> NoBlock]      \* nil, nil
ErrGenesisBlockReached == [kind |-> "genesis", block |-> NoBlock]
ErrBlockDoesNotExist   == [kind |-> "dbGet", block |-> NoBlock]    \* err of con.db.Get

-----------------------------------------------------------------------------
isConfigChanged(prev, cur) == prev # cur

IsGenesis(b) == b = 1

\* con.db.Get(b.Finalization.ParentHash) returns an error
ParentMissing_Never(b) == FALSE
ParentMissing(b) == b - 1 \notin db

\* !prevBlock.Hash.Less(curBlock.Hash): a deliver set ends at prev
IsCut_Inverted(prev, cur) == chain[prev].hash < chain[cur].hash
IsCut(prev, cur) == ~(chain[prev].hash < chain[cur].hash)

InRound(b) == chain[b].round = round

RoundIsStable(r) ==
    /\ r = 0 \/ ~isConfigChanged(configs[r - 1], configs[r])
    /\ ~isConfigChanged(configs[r], configs[r + 1])

Return(r) ==
    /\ result' = r
    /\ pc' = "done"
    /\ UNCHANGED locals

-----------------------------------------------------------------------------
\* A call: findLatticeSyncBlock(blocks), blocks[len(blocks)-1] being `last`.
Call(last) ==
    /\ pc' = "findRound"
    /\ lastBlock' = last
    /\ result' = Pending
    /\ UNCHANGED <<round, curBlock, deliverSetFirstBlock, deliverSetLastBlock>>

\* The head of the outer loop and the loop that walks `round` down to a round
\* whose config equals those of the rounds before and after it.
FindStableRound ==
    /\ pc = "findRound"
    /\ LET stable == {r \in 0..chain[lastBlock].round : RoundIsStable(r)} IN
         \/ /\ stable # {}
            /\ round' = Max(stable)
            /\ pc' = "findOldest"
            /\ UNCHANGED <<lastBlock, curBlock, deliverSetFirstBlock,
                           deliverSetLastBlock, result>>
         \/ /\ stable = {}
            /\ Return(NotFound)

\* The loop that moves lastBlock back to a block of `round`.
FindBlockOfRound ==
    /\ pc = "findOldest"
    /\ \/ /\ InRound(lastBlock)
          /\ curBlock' = lastBlock
          /\ pc' = "lastCut"
          /\ UNCHANGED <<round, lastBlock, deliverSetFirstBlock,
                         deliverSetLastBlock, result>>
       \/ /\ ~InRound(lastBlock)
          /\ \/ IsGenesis(lastBlock) /\ Return(ErrGenesisBlockReached)
             \/ /\ ~IsGenesis(lastBlock)
                /\ ParentMissing(lastBlock)
                /\ Return(ErrBlockDoesNotExist)
             \/ /\ ~ParentMissing(lastBlock)
                /\ lastBlock' = lastBlock - 1
                /\ UNCHANGED <<pc, round, curBlock, deliverSetFirstBlock,
                               deliverSetLastBlock, result>>

\* The first walk by hash: back to the last block of the deliver set before
\* the one lastBlock is in.
FindDeliverSetLastBlock_Stuck ==
    /\ pc = "lastCut"
    /\ ~IsGenesis(curBlock)
    /\ UNCHANGED vars
FindDeliverSetLastBlock ==
    /\ pc = "lastCut"
    /\ \/ IsGenesis(curBlock) /\ Return(ErrGenesisBlockReached)
       \/ /\ ~IsGenesis(curBlock)
          /\ ParentMissing(curBlock)
          /\ Return(ErrBlockDoesNotExist)
       \/ /\ ~ParentMissing(curBlock)
          /\ curBlock' = curBlock - 1
          /\ IF IsCut(curBlock - 1, curBlock)
               THEN deliverSetLastBlock' = curBlock - 1 /\ pc' = "firstCut"
               ELSE UNCHANGED <<deliverSetLastBlock, pc>>
          /\ UNCHANGED <<round, lastBlock, deliverSetFirstBlock, result>>

\* The second walk by hash: back to the first block of that deliver set.
FindDeliverSetFirstBlock ==
    /\ pc = "firstCut"
    /\ \/ /\ ~IsGenesis(curBlock)
          /\ ParentMissing(curBlock)
          /\ Return(ErrBlockDoesNotExist)
       \/ /\ ~ParentMissing(curBlock)
          /\ ~IsCut(curBlock - 1, curBlock)
          /\ curBlock' = curBlock - 1
          /\ UNCHANGED <<pc, round, lastBlock, deliverSetFirstBlock,
                         deliverSetLastBlock, result>>
       \/ /\ IsGenesis(curBlock) \/ (~ParentMissing(curBlock) /\ IsCut(curBlock - 1, curBlock))
          /\ deliverSetFirstBlock' = curBlock
          /\ curBlock' = deliverSetLastBlock
          /\ pc' = "checkRound"
          /\ UNCHANGED <<round, lastBlock, deliverSetLastBlock, result>>

\* The loop that checks the rounds of the deliver set, and the end of the
\* outer loop: return the first block, give up at round 0, or go round again.
CheckDeliverSetRound_Unchecked ==
    /\ pc = "checkRound"
    /\ Return(Found(deliverSetFirstBlock))
CheckDeliverSetRound ==
    /\ pc = "checkRound"
    /\ \/ /\ ~InRound(curBlock)
          /\ \/ round = 0 /\ Return(NotFound)
             \/ /\ round # 0
                /\ round' = round - 1
                /\ pc' = "findRound"
                /\ UNCHANGED <<lastBlock, curBlock, deliverSetFirstBlock,
                               deliverSetLastBlock, result>>
       \/ /\ InRound(curBlock)
          /\ \/ ParentMissing(curBlock) /\ Return(ErrBlockDoesNotExist)
             \/ /\ ~ParentMissing(curBlock)
                /\ curBlock - 1 = deliverSetFirstBlock
                /\ Return(Found(deliverSetFirstBlock))
             \/ /\ ~ParentMissing(curBlock)
                /\ curBlock - 1 # deliverSetFirstBlock
                /\ curBlock' = curBlock - 1
                /\ UNCHANGED <<pc, round, lastBlock, deliverSetFirstBlock,
                               deliverSetLastBlock, result>>

\* The steps of findLatticeSyncBlock.
Search ==
    \/ FindStableRound
    \/ FindBlockOfRound
    \/ FindDeliverSetLastBlock
    \/ FindDeliverSetFirstBlock
    \/ CheckDeliverSetRound

-----------------------------------------------------------------------------
(***************************************************************************)
(* The function on its own: any compaction chain of distinct hashes, any   *)
(* configs, a db that holds the chain from some height on (from 1 when the *)
(* syncer was fed from the first block), and one call on the newest block. *)
(***************************************************************************)
Newest == Max(db)

Init ==
    /\ \E n \in Heights :
         /\ chain \in [1..n -> [hash : Heights, round : Rounds]]
         /\ \A i, j \in 1..n : i # j => chain[i].hash # chain[j].hash
         /\ \E lo \in 1..n : db = lo..n
    /\ chain[1].round = 0
    /\ configs \in [0..MaxRound + ConfigRoundShift -> Configs]
    /\ pc = "findRound"
    /\ lastBlock = Newest
    /\ round = 0
    /\ curBlock = NoBlock
    /\ deliverSetFirstBlock = NoBlock
    /\ deliverSetLastBlock = NoBlock
    /\ result = Pending

Next == Search /\ UNCHANGED env

Spec == Init /\ [][Next]_vars /\ WF_vars(Next)

-----------------------------------------------------------------------------
TypeOK ==
    /\ DOMAIN chain \subseteq Heights
    /\ \A b \in DOMAIN chain : chain[b].hash \in Heights /\ chain[b].round \in Rounds
    /\ db \subseteq DOMAIN chain
    /\ pc \in {"findRound", "findOldest", "lastCut", "firstCut", "checkRound", "done"}
    /\ round \in Rounds
    /\ lastBlock \in db
    /\ curBlock \in db \cup {NoBlock}
    /\ deliverSetFirstBlock \in db \cup {NoBlock}
    /\ deliverSetLastBlock \in db \cup {NoBlock}
    /\ result.kind \in {"pending", "found", "nil", "genesis", "dbGet"}
    /\ result.block \in db \cup {NoBlock}
    /\ (pc = "done") = (result # Pending)

\* The first block of the deliver set block b is in: total ordering emits a
\* deliver set sorted by hash, so a set starts where the hash does not grow.
DeliverSetStart(b) ==
    Max({1} \cup {c \in 2..b : chain[c - 1].hash >= chain[c].hash})

\* The round the search settles on, the newest block of that round, and the
\* block the comments of findLatticeSyncBlock promise.
StableRound   == Max({r \in 0..chain[Newest].round : RoundIsStable(r)})
NewestOfRound == Max({b \in 1..Newest : chain[b].round = StableRound})
SyncBlock     == DeliverSetStart(DeliverSetStart(NewestOfRound) - 1)

\* The block findLatticeSyncBlock returns is the first block of the deliver
\* set before the one that holds the newest block of the stable round: what
\* its four loops find is what "find the deliver set by hash for two times"
\* describes, whatever the hashes, the rounds and the configs are.
FoundIsSyncBlock ==
    result.kind = "found" =>
        /\ DeliverSetStart(NewestOfRound) > 1
        /\ result.block = SyncBlock

\* When a block is returned, the blocks after it of its deliver set are all of
\* the round the search settled on, and the configs of that round, the round
\* before and the round after are the same ("check if all blocks from
\* deliverSetFirstBlock to deliverSetLastBlock are in the same round").
DeliverSetTailInStableRound ==
    result.kind = "found" =>
        /\ RoundIsStable(round)
        /\ \A b \in result.block + 1..DeliverSetStart(NewestOfRound) - 1 :
             chain[b].round = round

\* The three walks along the chain end: from anywhere in the function, the
\* head of its outer loop or a return is reached again (the loops of
\* findLatticeSyncBlock have no bound but the genesis block).
WalksEnd == []<>(pc \in {"findRound", "done"})

\* findLatticeSyncBlock returns: "if ok return, if round == 0 return,
\* round--" is written to end the outer loop at round 0 at the latest.
Terminates == <>(pc = "done")

\* With the whole chain in the db, con.db.Get never fails during the search:
\* every walk stops at the genesis block or before it.
NoGetErrorOnStoredChain ==
    db = DOMAIN chain => result # ErrBlockDoesNotExist

=============================================================================
