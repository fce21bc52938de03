------------------------------- MODULE Syncer -------------------------------
(***************************************************************************)
(* syncer.Consensus: SyncBlocks, called by one goroutine with consecutive  *)
(* pieces of the compaction chain, beside the goroutine of startAgreement  *)
(* that moves the blocks confirmed by the agreements into con.blocks.      *)
(*                                                                         *)
(* The world of a behaviour is a compaction chain of MaxBlocks blocks and  *)
(* the configs of governance. A block is named by its Finalization.Height; *)
(* the blocks the agreements confirm are blocks of the same chain, which   *)
(* the caller has put already or will put later. The search for the        *)
(* block the lattice starts from is the module LatticeSyncBlock, whose     *)
(* steps are steps of this module.                                         *)
(***************************************************************************)
EXTENDS Integers, Sequences, FiniteSets, FiniteSetsExt, SequencesExt

CONSTANTS
    MaxBlocks,         \* bound: blocks of the compaction chain
    MaxRound,          \* bound: highest Position.Round of a block
    ConfigRoundShift,  \* core.ConfigRoundShift
    Governances,       \* the histories of configs: round -> [numChains, ordering]
    FirstHeights,      \* the heights the caller may start to feed from
    MaxChunk,          \* bound: blocks of one call of SyncBlocks
    Confirmable,       \* the heights of the blocks the agreements may confirm
    EmptyHeights,      \* the heights of the blocks the agreements confirm as empty
    ChanCap,           \* capacity of receiveChan (1000 in NewConsensus)
    PutMayFail         \* fault model: con.db.Put can return an error

VARIABLES
    chain,    \* height -> [hash, round, chainID, height] (Position.Height)
    gov       \* con.gov.Configuration

VARIABLES
    configs, db,
    pc, round, lastBlock, curBlock, deliverSetFirstBlock, deliverSetLastBlock,
    result

VARIABLES
    lattice,            \* con.lattice and the blocks it was given
    latticeLastRound,
    blocks,             \* con.blocks: chainID -> blocks held, kept sorted
    agreementRoundCut,
    isSynced,
    receiveChan,
    closed,             \* stopAgreement has closed receiveChan and pullChan
    built,              \* the empty blocks buildEmptyBlock has filled
    modules,            \* the goroutines running: "agreement", "network", "receive"
    sent,               \* blocks the agreements have confirmed
    args,               \* blocks and latest of the call of SyncBlocks that
                        \* runs, or of the one that failed on con.db.Put
    compactionTips,     \* local of checkIfSynced
    ret,                \* what the last call of SyncBlocks returned
    confirmedBlocks     \* what NewConsensusFromSyncer was given

world  == <<chain, gov>>
search == <<round, lastBlock, curBlock, deliverSetFirstBlock, deliverSetLastBlock,
            result>>
shared == <<blocks, agreementRoundCut, built>>
chans  == <<receiveChan, closed, modules, sent>>
store  == <<configs, db, lattice, latticeLastRound>>
call   == <<args, compactionTips, ret, confirmedBlocks>>
vars   == <<world, store, pc, search, shared, isSynced, chans, call>>

Configs == UNION {{g[r] : r \in DOMAIN g} : g \in Governances}

LSB == INSTANCE LatticeSyncBlock

Heights == 1..MaxBlocks
Rounds  == 0..MaxRound

NoLattice     == [exists |-> FALSE, round |-> 0, processed |-> <<>>]
NewLattice(r) == [exists |-> TRUE, round |-> r, processed |-> <<>>]

FromTo(lo, hi) == [i \in 1..(hi - lo + 1) |-> lo + i - 1]

\* lattice.ProcessFinalizedBlock for each block of bs: the lattice admits the
\* blocks it has not admitted yet ("idempotent re-admission is a no-op").
ProcessFinalizedBlocks(bs) ==
    [lattice EXCEPT !.processed =
        @ \o SelectSeq(bs, LAMBDA b : b \notin ToSet(lattice.processed))]

-----------------------------------------------------------------------------
(* Positions, con.blocks *)

\* types.Position.Older, for two blocks of one chain
Older(a, b) ==
    \/ chain[a].round < chain[b].round
    \/ chain[a].round = chain[b].round /\ chain[a].height < chain[b].height

\* bs[0] of a list that sort.Sort keeps in the order of positions
Oldest(bs) == CHOOSE b \in bs : \A o \in bs : ~Older(o, b)

NonEmptyChains(bl) == {c \in DOMAIN bl : bl[c] # {}}
TipRounds(bl)      == {chain[Oldest(bl[c])].round : c \in NonEmptyChains(bl)}

isEmptyBlock(b) == b \in EmptyHeights

-----------------------------------------------------------------------------
(* setupConfigs and resizeByNumChains *)

MaxRoundOf(bs) == Max({chain[b].round : b \in bs} \cup {0})

NewRounds(bs) ==
    0..(MaxRoundOf(bs) + ConfigRoundShift) \ DOMAIN configs

ConfigsLoaded_FromRoundBefore(bs) ==
    [r \in DOMAIN configs \cup NewRounds(bs) |-> gov[IF r = 0 THEN 0 ELSE r - 1]]
ConfigsLoaded(bs) == [r \in DOMAIN configs \cup NewRounds(bs) |-> gov[r]]

resizeByNumChains(numChains) ==
    [c \in DOMAIN blocks \cup 0..(numChains - 1) |->
        IF c \in DOMAIN blocks THEN blocks[c] ELSE {}]

setupConfigs(bs) ==
    /\ configs' = ConfigsLoaded(bs)
    /\ blocks' = resizeByNumChains(
                    Max({gov[r].numChains : r \in NewRounds(bs)} \cup {0}))
    /\ latticeLastRound' =
          IF lattice.exists /\ latticeLastRound < MaxRoundOf(bs)
              THEN MaxRoundOf(bs) ELSE latticeLastRound

-----------------------------------------------------------------------------
(* SyncBlocks, up to the search *)

NoArgs == [lo |-> 1, hi |-> 0, latest |-> FALSE]

\* SyncBlocks returns r; its parameters end with the call.
Returns(r) ==
    /\ ret' = r
    /\ pc' = "idle"
    /\ args' = NoArgs

\* A panic of the goroutine of SyncBlocks ends the process.
Panics(cause) ==
    /\ ret' = cause
    /\ pc' = "crashed"
    /\ modules' = {}
    /\ UNCHANGED args

\* The caller: the next blocks of the chain, in order and once.
NextHeights ==
    IF db = {} THEN FirstHeights ELSE {Max(db) + 1} \cap Heights

\* The last call failed on con.db.Put: the caller makes it again.
Retrying == ret = "ErrPut"

SyncBlocksAlreadySynced ==
    /\ pc = "idle"
    /\ isSynced
    /\ Returns("ErrAlreadySynced")
    /\ UNCHANGED <<world, store, search, shared, isSynced, chans,
                   compactionTips, confirmedBlocks>>

\* len(blocks) == 0, or blocks not consecutive in height
SyncBlocksRejected ==
    /\ pc = "idle"
    /\ ~isSynced
    /\ \E e \in {"nil", "ErrInvalidBlockOrder"} : Returns(e)
    /\ UNCHANGED <<world, store, search, shared, isSynced, chans,
                   compactionTips, confirmedBlocks>>

\* con.db.Put fails on block `at`: the blocks before it are put and given to
\* the lattice, the error is returned.
SyncBlocksPutFails(lo, hi, at) ==
    /\ PutMayFail
    /\ pc = "idle"
    /\ ~isSynced
    /\ setupConfigs(lo..hi)
    /\ db' = db \cup lo..(at - 1)
    /\ lattice' = IF lattice.exists
                    THEN ProcessFinalizedBlocks(FromTo(lo, at - 1))
                    ELSE lattice
    /\ args' = [lo |-> lo, hi |-> hi, latest |-> FALSE]
    /\ ret' = "ErrPut"
    /\ pc' = "idle"
    /\ UNCHANGED <<world, search, agreementRoundCut, built, isSynced, chans,
                   compactionTips, confirmedBlocks>>

\* Every block is put, where blockdb.ErrBlockExists is no error, and given to
\* the lattice if there is one; then the search, or the check of the overlap.
SyncBlocks(lo, hi, latest) ==
    /\ pc = "idle"
    /\ ~isSynced
    /\ setupConfigs(lo..hi)
    /\ db' = db \cup lo..hi
    /\ lattice' = IF lattice.exists
                    THEN ProcessFinalizedBlocks(FromTo(lo, hi))
                    ELSE lattice
    /\ \/ /\ latest /\ ~lattice.exists
          /\ LSB!Call(hi)
          /\ args' = [lo |-> lo, hi |-> hi, latest |-> latest]
          /\ UNCHANGED ret
       \/ /\ latest /\ lattice.exists
          /\ pc' = "overlap"
          /\ args' = [lo |-> lo, hi |-> hi, latest |-> latest]
          /\ UNCHANGED <<search, ret>>
       \/ /\ ~latest
          /\ Returns("nil")
          /\ UNCHANGED search
    /\ UNCHANGED <<world, agreementRoundCut, built, isSynced, chans,
                   compactionTips, confirmedBlocks>>

-----------------------------------------------------------------------------
(* findLatticeSyncBlock and what SyncBlocks does with its result *)

FindLatticeSyncBlock ==
    /\ \/ LSB!FindStableRound
       \/ LSB!FindBlockOfRound
       \/ LSB!FindDeliverSetLastBlock
       \/ LSB!FindDeliverSetFirstBlock
       \/ LSB!CheckDeliverSetRound
    /\ UNCHANGED <<world, store, shared, isSynced, chans, call>>

\* findLatticeSyncBlock has returned to SyncBlocks: its locals end.
SearchReturned ==
    /\ round' = 0
    /\ lastBlock' = LSB!NoBlock
    /\ curBlock' = LSB!NoBlock
    /\ deliverSetFirstBlock' = LSB!NoBlock
    /\ deliverSetLastBlock' = LSB!NoBlock
    /\ result' = LSB!Pending

SyncBlockError ==
    /\ pc = "done"
    /\ result \in {LSB!ErrGenesisBlockReached, LSB!ErrBlockDoesNotExist}
    /\ SearchReturned
    /\ Returns(IF result = LSB!ErrGenesisBlockReached
                 THEN "ErrGenesisBlockReached" ELSE "ErrBlockDoesNotExist")
    /\ UNCHANGED <<world, store, shared, isSynced, chans,
                   compactionTips, confirmedBlocks>>

SyncBlockNotFound ==
    /\ pc = "done"
    /\ result = LSB!NotFound
    /\ SearchReturned
    /\ pc' = "overlap"
    /\ UNCHANGED <<world, store, shared, isSynced, chans, call>>

\* blocksToProcess: from syncBlock to the last block of the call
BlocksToProcess_AfterSyncBlock(syncBlock, last) == FromTo(syncBlock + 1, last)
BlocksToProcess(syncBlock, last) == FromTo(syncBlock, last)

\* initConsensusObj(syncBlock), then the blocks from syncBlock on are given
\* to the new lattice.
SyncBlockFound ==
    /\ pc = "done"
    /\ result.kind = "found"
    /\ latticeLastRound' = chain[result.block].round
    /\ lattice' = [NewLattice(chain[result.block].round) EXCEPT
                      !.processed = BlocksToProcess(result.block, args.hi)]
    /\ modules' = {"agreement", "network", "receive"}
    /\ SearchReturned
    /\ pc' = "overlap"
    /\ UNCHANGED <<world, configs, db, shared, isSynced, receiveChan,
                   closed, sent, call>>

-----------------------------------------------------------------------------
(* ensureAgreementOverlapRound *)

\* "Clean empty blocks on tips of chains"
CleanTips(bl) ==
    [c \in DOMAIN bl |->
        {b \in bl[c] : \E o \in bl[c] : ~isEmptyBlock(o) /\ ~Older(b, o)}]

\* the empty blocks that follow the block one height below them
Buildable(bl) ==
    {b \in UNION {bl[c] : c \in DOMAIN bl} :
        /\ isEmptyBlock(b)
        /\ \E p \in bl[chain[b].chainID] : chain[p].height = chain[b].height - 1}

\* "Make all tips in same round"
RECURSIVE AlignTips(_)
AlignTips(bl) ==
    IF Cardinality(TipRounds(bl)) <= 1
        THEN bl
        ELSE AlignTips([c \in DOMAIN bl |->
                {b \in bl[c] : chain[b].round >= Max(TipRounds(bl))}])

\* buildEmptyBlock fills the empty blocks bs from their parents; the config of
\* their rounds is read for it.
buildEmptyBlock(bs) == built \cup bs

ConfigRoundsRead_OfRoundAfter(cleaned, aligned) ==
    {chain[b].round : b \in Buildable(cleaned)}
        \cup {r + 1 : r \in TipRounds(aligned)}

\* The rounds con.configs is indexed with: by buildEmptyBlock for the round
\* of an empty block, and for the round of the tips.
ConfigRoundsRead(cleaned, aligned) ==
    {chain[b].round : b \in Buildable(cleaned)} \cup TipRounds(aligned)

EnsureAgreementOverlapRound ==
    /\ pc = "overlap"
    /\ \/ /\ agreementRoundCut > 0
          /\ pc' = "tips"
          /\ UNCHANGED <<shared, modules, ret, args>>
       \/ /\ agreementRoundCut = 0
          /\ LET cleaned == CleanTips(blocks)
                 aligned == AlignTips(cleaned)
                 tips    == TipRounds(aligned)
                 rounds  == ConfigRoundsRead(cleaned, aligned)
             IN  \/ /\ rounds \subseteq DOMAIN configs
                    /\ blocks' = aligned
                    /\ built' = buildEmptyBlock(Buildable(cleaned))
                    /\ \/ /\ \E r \in tips :
                               /\ Cardinality(NonEmptyChains(aligned))
                                      = configs[r].numChains
                               /\ agreementRoundCut' = r
                          /\ pc' = "tips"
                          /\ UNCHANGED <<modules, ret, args>>
                       \/ /\ \A r \in tips :
                               Cardinality(NonEmptyChains(aligned))
                                   # configs[r].numChains
                          /\ Returns("nil")
                          /\ UNCHANGED <<agreementRoundCut, modules>>
                 \/ /\ ~(rounds \subseteq DOMAIN configs)
                    /\ Panics("PanicConfigs")
                    /\ UNCHANGED shared
    /\ UNCHANGED <<world, store, search, isSynced, receiveChan, closed, sent,
                   compactionTips, confirmedBlocks>>

-----------------------------------------------------------------------------
(* checkIfSynced *)

NumChainsOfTips == configs[chain[Oldest(blocks[0])].round].numChains

TipsFound(from) ==
    {chain[b].chainID : b \in from..args.hi} \cap 0..(NumChainsOfTips - 1)
        = 0..(NumChainsOfTips - 1)

\* The blocks the loop over the compaction chain looks at: down from the last
\* block of the call to the block that completes the tips, or to the oldest
\* block of the db.
LastVisited ==
    Max({Min(db)} \cup {b \in db : b <= args.hi /\ TipsFound(b)})

IsGenesis_Never(b) == FALSE

\* b.Finalization.ParentHash is the zero hash.
IsGenesis(b) == b = 1

\* The first part, before the lock is taken.
CheckIfSyncedTips ==
    /\ pc = "tips"
    /\ \/ /\ \E b \in LastVisited..args.hi :
                chain[b].chainID >= NumChainsOfTips
          /\ Panics("PanicCompactionTips")
          /\ UNCHANGED compactionTips
       \/ /\ \A b \in LastVisited..args.hi :
                chain[b].chainID < NumChainsOfTips
          /\ \/ /\ IsGenesis(LastVisited)
                /\ Returns("nil")
                /\ UNCHANGED <<compactionTips, modules>>
             \/ /\ ~IsGenesis(LastVisited)
                /\ LastVisited - 1 \notin db
                /\ Panics("PanicGet")
                /\ UNCHANGED compactionTips
             \/ /\ LastVisited - 1 \in db
                /\ compactionTips' =
                      [c \in 0..(NumChainsOfTips - 1) |->
                          Max({b \in LastVisited..args.hi : chain[b].chainID = c})]
                /\ pc' = "compare"
                /\ UNCHANGED <<modules, ret, args>>
    /\ UNCHANGED <<world, store, search, shared, isSynced, receiveChan, closed,
                   sent, confirmedBlocks>>

Overlaps_Swapped(c) ==
    /\ blocks[c] # {}
    /\ ~Older(Oldest(blocks[c]), compactionTips[c])
Overlaps(c) ==
    /\ blocks[c] # {}
    /\ ~Older(compactionTips[c], Oldest(blocks[c]))

\* The second part, under the read lock.
CheckIfSyncedOverlap ==
    /\ pc = "compare"
    /\ \/ /\ \A c \in DOMAIN compactionTips : Overlaps(c)
          /\ isSynced' = TRUE
          /\ pc' = "stop"
          /\ UNCHANGED <<ret, args>>
       \/ /\ \E c \in DOMAIN compactionTips : ~Overlaps(c)
          /\ Returns("nil")
          /\ UNCHANGED isSynced
    /\ UNCHANGED <<world, store, search, shared, chans, compactionTips,
                   confirmedBlocks>>

-----------------------------------------------------------------------------
(* The hand-over.  The two waits are steps here: what the goroutines do   *)
(* while SyncBlocks waits for them, and that the waits return, is module   *)
(* SyncerModules.                                                          *)

\* con.ctxCancel() and con.moduleWaitGroup.Wait()
StopModules ==
    /\ pc = "stop"
    /\ modules' = modules \ {"network"}
    /\ pc' = "stopAgreement"
    /\ UNCHANGED <<world, store, search, shared, isSynced, receiveChan, closed,
                   sent, call>>

\* stopAgreement: the agreements end, then the channels are closed
StopAgreement ==
    /\ pc = "stopAgreement"
    /\ modules' = modules \ {"agreement"}
    /\ closed' = TRUE
    /\ pc' = "flush"
    /\ UNCHANGED <<world, store, search, shared, isSynced, receiveChan, sent,
                   call>>

\* "flush all blocks in con.blocks into core.Consensus"
Flush ==
    /\ pc = "flush"
    /\ confirmedBlocks' = UNION {blocks[c] : c \in DOMAIN blocks}
    /\ Returns("synced")
    /\ UNCHANGED <<world, store, search, shared, isSynced, chans,
                   compactionTips>>

-----------------------------------------------------------------------------
(* The goroutines beside SyncBlocks *)

\* An agreement confirms a block of its chain and sends it on receiveChan.
AgreementConfirms(b) ==
    /\ "agreement" \in modules
    /\ b \in Confirmable \ sent
    /\ chain[b].chainID \in DOMAIN blocks
    /\ Len(receiveChan) < ChanCap
    /\ receiveChan' = Append(receiveChan, b)
    /\ sent' = sent \cup {b}
    /\ UNCHANGED <<world, store, pc, search, shared, isSynced, closed, modules,
                   call>>

Kept_Unfiltered(b) == TRUE
Kept(b) == ~(chain[b].round < agreementRoundCut)

\* The goroutine of startAgreement takes a block from receiveChan.
ReceiveBlock ==
    /\ "receive" \in modules
    /\ receiveChan # <<>>
    /\ LET b == Head(receiveChan) IN
         blocks' = IF Kept(b)
                     THEN [blocks EXCEPT ![chain[b].chainID] = @ \cup {b}]
                     ELSE blocks
    /\ receiveChan' = Tail(receiveChan)
    /\ UNCHANGED <<world, store, pc, search, agreementRoundCut, built, isSynced,
                   closed, modules, sent, call>>

\* It returns when its select takes a closed channel: receiveChan once that
\* is empty, or pullChan, whatever receiveChan still holds.
ReceiveLoopEnds ==
    /\ "receive" \in modules
    /\ closed
    /\ modules' = modules \ {"receive"}
    /\ UNCHANGED <<world, store, pc, search, shared, isSynced, receiveChan,
                   closed, sent, call>>

-----------------------------------------------------------------------------
HashOf(cuts, b) == (MaxBlocks + 1) * Cardinality({c \in cuts : c > b}) + b

\* NewConsensus, and a world: a chain whose rounds do not decrease, whose
\* blocks are on chains their round has, with a hash for every way the chain
\* can fall into deliver sets.
Init ==
    /\ gov \in Governances
    /\ \E ids \in [Heights -> 0..1], rs \in [Heights -> Rounds],
          cuts \in SUBSET (2..MaxBlocks) :
         /\ rs[1] = 0
         /\ \A i, j \in Heights : i < j => rs[i] <= rs[j]
         /\ \A i \in Heights : ids[i] < gov[rs[i]].numChains
         /\ chain = [b \in Heights |->
                [hash    |-> HashOf(cuts, b),
                 round   |-> rs[b],
                 chainID |-> ids[b],
                 height  |-> Cardinality({p \in 1..(b - 1) : ids[p] = ids[b]})]]
    /\ configs = [r \in {0} |-> gov[0]]
    /\ db = {}
    /\ pc = "idle"
    /\ round = 0
    /\ lastBlock = LSB!NoBlock
    /\ curBlock = LSB!NoBlock
    /\ deliverSetFirstBlock = LSB!NoBlock
    /\ deliverSetLastBlock = LSB!NoBlock
    /\ result = LSB!Pending
    /\ lattice = NoLattice
    /\ latticeLastRound = 0
    /\ blocks = [c \in {} |-> {}]
    /\ agreementRoundCut = 0
    /\ isSynced = FALSE
    /\ receiveChan = <<>>
    /\ closed = FALSE
    /\ built = {}
    /\ modules = {}
    /\ sent = {}
    /\ args = NoArgs
    /\ compactionTips = [c \in {} |-> 0]
    /\ ret = "nil"
    /\ confirmedBlocks = {}

\* The blocks the caller passes: the next blocks of the chain, at most
\* MaxChunk of them, or the blocks of the call that failed.
NextBlocks ==
    IF Retrying
        THEN {<<args.lo, args.hi>>}
        ELSE {<<lo, hi>> \in NextHeights \X Heights :
                 hi \in lo..(lo + MaxChunk - 1)}

\* The caller's goroutine calls SyncBlocks.
CallSyncBlocks ==
    /\ pc = "idle"
    /\ \E bs \in NextBlocks :
            \/ \E latest \in BOOLEAN : SyncBlocks(bs[1], bs[2], latest)
            \/ \E at \in bs[1]..bs[2] : SyncBlocksPutFails(bs[1], bs[2], at)

Next ==
    \/ SyncBlocksAlreadySynced
    \/ SyncBlocksRejected
    \/ CallSyncBlocks
    \/ FindLatticeSyncBlock
    \/ SyncBlockError
    \/ SyncBlockNotFound
    \/ SyncBlockFound
    \/ EnsureAgreementOverlapRound
    \/ CheckIfSyncedTips
    \/ CheckIfSyncedOverlap
    \/ StopModules
    \/ StopAgreement
    \/ Flush
    \/ \E b \in Heights : AgreementConfirms(b)
    \/ ReceiveBlock
    \/ ReceiveLoopEnds

Spec == Init /\ [][Next]_vars

-----------------------------------------------------------------------------
TypeOK ==
    /\ DOMAIN chain = Heights
    /\ gov \in Governances
    /\ DOMAIN configs \subseteq DOMAIN gov
    /\ \A r \in DOMAIN configs : configs[r] = gov[r]
    /\ db \subseteq Heights
    /\ pc \in {"idle", "findRound", "findOldest", "lastCut", "firstCut",
               "checkRound", "done", "overlap", "tips", "compare", "stop",
               "stopAgreement", "flush", "crashed"}
    /\ round \in Rounds
    /\ {lastBlock, curBlock, deliverSetFirstBlock, deliverSetLastBlock}
           \subseteq db \cup {LSB!NoBlock}
    /\ lattice.exists \in BOOLEAN
    /\ lattice.round \in Rounds
    /\ lattice.processed \in Seq(Heights)
    /\ latticeLastRound \in Rounds
    /\ \A c \in DOMAIN blocks :
          /\ blocks[c] \subseteq sent
          /\ \A b \in blocks[c] : chain[b].chainID = c
    /\ agreementRoundCut \in Rounds
    /\ isSynced \in BOOLEAN
    /\ receiveChan \in Seq(sent)
    /\ Len(receiveChan) <= ChanCap
    /\ closed \in BOOLEAN
    /\ built \subseteq EmptyHeights
    /\ modules \subseteq {"agreement", "network", "receive"}
    /\ sent \subseteq Confirmable
    /\ args.lo \in Heights /\ args.hi \in 0..MaxBlocks /\ args.latest \in BOOLEAN
    /\ \A c \in DOMAIN compactionTips : compactionTips[c] \in db
    /\ ret \in {"nil", "ErrAlreadySynced", "ErrInvalidBlockOrder",
                "ErrGenesisBlockReached", "ErrBlockDoesNotExist", "ErrPut",
                "synced", "PanicConfigs", "PanicCompactionTips", "PanicGet"}
    /\ confirmedBlocks \subseteq sent

\* A deliver set starts at block b: total ordering emits a deliver set sorted
\* by hash, so the hash does not grow from the block before to b.
StartsDeliverSet(b) == b = 1 \/ chain[b - 1].hash >= chain[b].hash

\* The lattice admits the compaction chain from the first block of a deliver
\* set on, in the order of the chain and without a gap, up to the last block
\* the db holds: the blocks from syncBlock on when it is created in
\* SyncBlocks, the blocks of every later call after that; when a call fails
\* on con.db.Put in the middle and is made again, the blocks it processed
\* before the failure come a second time and the others follow them.
LatticeFedFromSyncBlock ==
    lattice.exists =>
        LET p == lattice.processed IN
          /\ p # <<>>
          /\ StartsDeliverSet(p[1])
          /\ \A i \in 1..(Len(p) - 1) : p[i + 1] = p[i] + 1
          /\ p[Len(p)] = Max(db)

\* checkIfSynced and the hand-over run after ensureAgreementOverlapRound has
\* returned true.
CutFound ==
    pc \in {"tips", "compare", "stop", "stopAgreement", "flush"} \/ isSynced

\* Once ensureAgreementOverlapRound has fixed agreementRoundCut, the oldest
\* block con.blocks holds of every chain of that round is of that round, and
\* stays so whatever the goroutine of startAgreement receives later ("the
\* oldest blocks in each chain in con.blocks are all in the same round").
\* A cut at round 0 leaves agreementRoundCut at 0, which filters nothing and
\* lets the next call align the tips anew: for that cut the same holds from
\* the moment it is found, through checkIfSynced, to the hand-over.
TipsInRoundCut ==
    agreementRoundCut > 0 \/ CutFound =>
        \A c \in 0..(configs[agreementRoundCut].numChains - 1) :
            /\ blocks[c] # {}
            /\ chain[Oldest(blocks[c])].round = agreementRoundCut

\* ensureAgreementOverlapRound and buildEmptyBlock index con.configs with the
\* rounds of the agreements' blocks, while setupConfigs loads the configs from
\* the rounds of the compaction chain: the index is out of range only when an
\* agreement has confirmed a block more than ConfigRoundShift rounds beyond
\* the last block put, never for a block of the rounds that the blocks of the
\* caller announce.
ConfigsCoverAgreementRounds ==
    ret = "PanicConfigs" =>
        \E b \in sent : chain[b].round > MaxRoundOf(db) + ConfigRoundShift

\* isSynced is set, and core.Consensus built, only when on every chain the
\* blocks of the agreements reach back into the compaction chain that was
\* put: the oldest block held of a chain is not newer than the newest block
\* put, so no block of the chain is missing between the two. checkIfSynced
\* finds the tips by a walk that stops early and compares them after blocks
\* may have arrived.
SyncedMeansOverlap ==
    isSynced =>
        \A c \in 0..(NumChainsOfTips - 1) :
            /\ blocks[c] # {}
            /\ Oldest(blocks[c]) <= Max(db)
            /\ ret = "synced" => \E b \in confirmedBlocks :
                                    chain[b].chainID = c /\ b <= Max(db)

\* checkIfSynced asks con.db.Get for the parent of every block it walks over
\* and panics on an error.  It does so also after the block that completed
\* the tips, and stops at the genesis block only: the panic is met when the
\* caller began to put above the genesis block, and in no walk over a
\* compaction chain that is in the db from its first block.
GetPanicsAboveGenesisOnly == ret = "PanicGet" => 1 \notin db

\* "flush all blocks in con.blocks into core.Consensus": when SyncBlocks has
\* handed over, core.Consensus was given every block con.blocks holds, the
\* ones the goroutine of startAgreement took from receiveChan last included.
HandOverHasAllBlocks ==
    (isSynced /\ pc = "idle") =>
        UNION {blocks[c] : c \in DOMAIN blocks} \subseteq confirmedBlocks

=============================================================================
