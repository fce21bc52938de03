-------------------------- MODULE TotalOrderResult --------------------------
(***************************************************************************)
(* simulation.TotalOrderResult and VerifyTotalOrder                        *)
(* (simulation/verification.go, src/simulation/app_test.go 61-222).        *)
(*                                                                         *)
(* Every validator sends the blocks its total ordering delivers as         *)
(* BlockLists numbered 0, 1, 2, ...; they arrive in any order.  PushBlocks *)
(* keeps the early ones in a heap ordered by ID and appends to hashList    *)
(* the ones whose turn it is.  VerifyTotalOrder compares the hashLists of  *)
(* all validators as far as the shortest goes and removes what it          *)
(* compared.                                                               *)
(*                                                                         *)
(* A block is its hash.  Of status the model keeps how many blocks the     *)
(* entries of blockReceive count and how many latencies were appended; the *)
(* times and the two statistics computed from them are left out.           *)
(***************************************************************************)
EXTENDS Naturals, Sequences, FiniteSets, SequencesExt

CONSTANTS
    Validators,     \* the keys of PeerTotalOrder
    Hashes          \* the blocks; a validator delivers at most all of them

VARIABLES
    order,              \* order[v]: the blocks v's total ordering delivers
    batches,            \* batches[v][i + 1]: BlockHash of v's BlockList with ID i
    unpushed,           \* unpushed[v]: IDs of the BlockLists of v still on their way
    hashList,           \* totalOrder[v].hashList
    curID,              \* totalOrder[v].curID
    pendingBlockList,   \* totalOrder[v].pendingBlockList, the IDs in the heap
    status,             \* totalOrder[v].status
    verified,           \* sum of the lengths VerifyTotalOrder returned
    correct             \* the verdict VerifyTotalOrder returned last

vars == <<order, batches, unpushed, hashList, curID, pendingBlockList,
          status, verified, correct>>

\* The sum of the lengths in blockReceive and the length of confirmLatency.
totalOrderStatus == [blockReceive : 0..Cardinality(Hashes),
                     confirmLatency : 0..Cardinality(Hashes)]

\* Every way a validator may deliver some of the blocks, each once.
Orders == SetToAllKPermutations(Hashes) \ {<<>>}

\* Every way to send the blocks of s as consecutive non-empty BlockLists.
Splits(s) ==
    {bs \in BoundedSeq(SubSeqs(s) \ {<<>>}, Len(s)) : FlattenSeq(bs) = s}

BlockHash(v, id) == batches[v][id + 1]

\* NewTotalOrderResult for every validator.
Init ==
    /\ order \in [Validators -> Orders]
    /\ batches \in [Validators -> UNION {Splits(s) : s \in Orders}]
    /\ \A v \in Validators : FlattenSeq(batches[v]) = order[v]
    /\ unpushed = [v \in Validators |-> 0..(Len(batches[v]) - 1)]
    /\ hashList = [v \in Validators |-> <<>>]
    /\ curID = [v \in Validators |-> 0]
    /\ pendingBlockList = [v \in Validators |-> {}]
    /\ status = [v \in Validators |->
                    [blockReceive |-> 0, confirmLatency |-> 0]]
    /\ verified = 0
    /\ correct = TRUE

\* Mutant: the loop is an if, one BlockList is taken from the heap at most.
AppendConsecutive_PopsOne(v, id, list, cur, heap) ==
    LET list1 == list \o BlockHash(v, id) IN
    IF heap = {} \/ Min(heap) # cur + 1
    THEN [hashList |-> list1, curID |-> cur + 1, pendingBlockList |-> heap]
    ELSE [hashList |-> list1 \o BlockHash(v, Min(heap)), curID |-> cur + 2,
          pendingBlockList |-> heap \ {Min(heap)}]

\* Mutant: the head of the heap is taken whatever its ID.
AppendConsecutive_AnyID(v, id, list, cur, heap) ==
    LET rest == SetToSortSeq(heap, <) IN
    [hashList |-> list \o BlockHash(v, id)
                       \o FlattenSeq([i \in DOMAIN rest |-> BlockHash(v, rest[i])]),
     curID |-> cur + 1 + Len(rest), pendingBlockList |-> {}]

\* The loop of PushBlocks: the BlockList id is appended, and after it the
\* head of the heap for as long as its ID is the next one.
RECURSIVE AppendConsecutive(_, _, _, _, _)
AppendConsecutive(v, id, list, cur, heap) ==
    LET list1 == list \o BlockHash(v, id) IN
    IF heap = {} \/ Min(heap) # cur + 1
    THEN [hashList |-> list1, curID |-> cur + 1, pendingBlockList |-> heap]
    ELSE AppendConsecutive(v, Min(heap), list1, cur + 1, heap \ {Min(heap)})

\* Mutant: the status is taken after the early return, of the BlockLists
\* whose turn it is only.
processStatus_AfterReturn(v, id) ==
    status' = IF id # curID[v] THEN status ELSE
        [status EXCEPT ![v].blockReceive = @ + Len(BlockHash(v, id)),
                       ![v].confirmLatency = @ + Len(BlockHash(v, id))]

\* The arrival is noted with its length, and the latencies of the BlockList
\* are appended (taken to be one for each of its blocks).
processStatus(v, id) ==
    status' = [status EXCEPT ![v].blockReceive = @ + Len(BlockHash(v, id)),
                             ![v].confirmLatency = @ + Len(BlockHash(v, id))]

\* PushBlocks of validator v's result with its BlockList id.
PushBlocks(v, id) ==
    /\ id \in unpushed[v]
    /\ unpushed' = [unpushed EXCEPT ![v] = @ \ {id}]
    /\ processStatus(v, id)
    /\ \/ /\ id # curID[v]
          /\ pendingBlockList' = [pendingBlockList EXCEPT ![v] = @ \cup {id}]
          /\ UNCHANGED <<hashList, curID>>
       \/ /\ id = curID[v]
          /\ LET r == AppendConsecutive(v, id, hashList[v], curID[v],
                                        pendingBlockList[v])
             IN /\ hashList' = [hashList EXCEPT ![v] = r.hashList]
                /\ curID' = [curID EXCEPT ![v] = r.curID]
                /\ pendingBlockList' =
                       [pendingBlockList EXCEPT ![v] = r.pendingBlockList]
    /\ UNCHANGED <<order, batches, verified, correct>>

\* The common length of all validators' lists.
CommonLength == Min({Len(hashList[v]) : v \in Validators})

\* Some validator's list differs from id's within the common length.
HasError(id, length) ==
    \E i \in 1..length, v \in Validators : hashList[v][i] # hashList[id][i]

\* Mutant: the verified blocks stay in the list.
Unverified_NotRemoved(list, length) == list

\* What is left of a list when the verified blocks are removed.
Unverified(list, length) == SubSeq(list, length + 1, Len(list))

VerifyTotalOrder(id) ==
    LET length == CommonLength IN
    /\ correct' = ~HasError(id, length)
    /\ hashList' = [v \in Validators |-> Unverified(hashList[v], length)]
    /\ verified' = verified + length
    /\ UNCHANGED <<order, batches, unpushed, curID, pendingBlockList, status>>

Next ==
    \/ \E v \in Validators : \E id \in unpushed[v] : PushBlocks(v, id)
    \/ \E id \in Validators : VerifyTotalOrder(id)

Spec == Init /\ [][Next]_vars

\* Every BlockList sent arrives, and the results are verified again and again.
FairSpec ==
    /\ Spec
    /\ \A v \in Validators : WF_vars(\E id \in unpushed[v] : PushBlocks(v, id))
    /\ WF_vars(\E id \in Validators : VerifyTotalOrder(id))

-----------------------------------------------------------------------------

TypeOK ==
    /\ order \in [Validators -> Orders]
    /\ batches \in [Validators -> Seq(Seq(Hashes))]
    /\ \A v \in Validators :
          /\ unpushed[v] \subseteq 0..(Len(batches[v]) - 1)
          /\ pendingBlockList[v] \subseteq 0..(Len(batches[v]) - 1)
          /\ curID[v] \in 0..Len(batches[v])
          /\ hashList[v] \in BoundedSeq(Hashes, Cardinality(Hashes))
    /\ status \in [Validators -> totalOrderStatus]
    /\ verified \in 0..Cardinality(Hashes)
    /\ correct \in BOOLEAN

\* The blocks of v appended to its hashList so far, the removed ones included.
Logged(v) == SubSeq(order[v], 1, verified) \o hashList[v]

Log == INSTANCE TotalOrderLog WITH log <- [v \in Validators |-> Logged(v)]

\* PushBlocks and VerifyTotalOrder implement the log of TotalOrderLog: in
\* whatever order the BlockLists arrive, hashList grows by the validator's
\* blocks in the order they were delivered, and VerifyTotalOrder checks each
\* position of the lists once, the same position of every validator against
\* the same position of the others, and answers false exactly when the
\* validators differ there.
ImplementsLog == Log!Spec

\* The blocks still in the heap of v.
Waiting(v) == FlattenSeq([i \in 1..Len(batches[v]) |->
                  IF i - 1 \in pendingBlockList[v] THEN batches[v][i] ELSE <<>>])

\* The status accounts for every block that has arrived, once: what
\* processStatus counted is what VerifyTotalOrder has removed, what is in
\* hashList and what waits in the heap, through every order of arrival, every
\* run of pops in PushBlocks and every verification.
StatusCountsArrivals ==
    \A v \in Validators :
        status[v].blockReceive = verified + Len(hashList[v]) + Len(Waiting(v))

\* When every BlockList has arrived, every block that all validators
\* delivered is verified: PushBlocks leaves no BlockList in the heap whose
\* turn has come.
AllVerified ==
    <>[](verified = Min({Len(order[v]) : v \in Validators}))

=============================================================================
