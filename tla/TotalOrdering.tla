--------------------------- MODULE TotalOrdering ---------------------------
(***************************************************************************)
(* The total ordering engine of core: processBlock takes the blocks of the *)
(* DAG one at a time and returns deliver sets.  core/total-ordering.go is  *)
(* not part of the repository: the module is written from spec.md 4.1-4.3, *)
(* and from core/total-ordering_test.go (src/README.md 834-1781) wherever  *)
(* a test pins what spec.md leaves open or contradicts it.  Each such      *)
(* place names the test.                                                   *)
(*                                                                         *)
(* candidateAckingStatusVectors is kept up to date block by block in the  *)
(* engine (spec.md 4.2); its value is a function of pendings and acked,    *)
(* and it is an operator here.                                             *)
(***************************************************************************)
EXTENDS Integers, FiniteSets, Sequences, FiniteSetsExt

CONSTANTS
    ValidatorIDs,   \* the proposers, one chain each
    infinity        \* the height that stands for "never acked" (MaxUint64)

ASSUME infinity \in Nat

VARIABLES
    k, phi, validatorCount,   \* the fields newTotalOrdering sets
    pendings,                 \* the blocks admitted and not delivered
    acked,                    \* <<a, b>>: pending block b acks pending block a
    delivered,                \* what processBlock returned, call after call
    err                       \* the error of the last call

vars == <<k, phi, validatorCount, pendings, acked, delivered, err>>

ErrNotValidDAG == "ErrNotValidDAG"
Nothing        == [blocks |-> {}, early |-> FALSE]

hashesOf(P) == {b.hash : b \in P}

ackersOf(A, h) == {p[2] : p \in {q \in A : q[1] = h}}

buildBlockRelation_DirectOnly(b) ==
    {<<a, b.hash>> : a \in b.acks \cap hashesOf(pendings)}

(* spec.md 4.1 step 3: b acks the pending blocks among its acks and what   *)
(* these ack.  acked is closed under this already, so the walk is one      *)
(* step deep and ends on an ack cycle too (TestCycleDetection).            *)
buildBlockRelation(b) ==
    LET direct == b.acks \cap hashesOf(pendings)
        behind == {a \in hashesOf(pendings) : \E d \in direct : <<a, d>> \in acked}
    IN  {<<a, b.hash>> : a \in direct \cup behind}

candidates_WithOwnAcker(P, A) ==
    {c \in P : /\ \A a \in P : <<a.hash, c.hash>> \notin A
               /\ \E b \in P : /\ b.proposerID = c.proposerID
                                /\ <<c.hash, b.hash>> \in A}

(* A pending block is a candidate when none of the blocks it acks is       *)
(* pending.  spec.md 4.3 also asks for an acker on the candidate's chain:  *)
(* the tests pass with either, but with that rule a block is a candidate   *)
(* in one reveal order and not yet in another when a deliver set is        *)
(* chosen, and the two orders return different sets.                       *)
candidates(P, A) == {c \in P : \A a \in P : <<a.hash, c.hash>> \notin A}

\* The lowest height and the number of the blocks of B, chain by chain.
statusVector(B) ==
    LET on(v) == {b.height : b \in {a \in B : a.proposerID = v}}
    IN  [v \in {b.proposerID : b \in B} |->
            [minHeight |-> Min(on(v)), count |-> Cardinality(on(v))]]

(* spec.md 4.2: the pending blocks that ack c; c counts on its own chain   *)
(* (TestEarlyDeliver: b00 has {0, 3} there after b00, b01, b02).           *)
candidateAckingStatusVector(P, A, c) ==
    statusVector({b \in P : <<c.hash, b.hash>> \in A} \cup {c})

(* spec.md 4.3, G: the union of the candidates' vectors.  Every pending    *)
(* block is a candidate or acks one, so G counts the pending blocks.       *)
globalVector(P) == statusVector(P)

(* The acking height vector of a candidate: an entry for every chain with  *)
(* more than k blocks in G; infinity where the candidate has no ack of the *)
(* chain within the first k+1 of them.  The values are those of            *)
(* TestCreateAckingHeightVectorFromHeightVector, which spec.md's pseudo    *)
(* code does not give (it has no entry for {3, 1} against {0, 5}, k = 3).  *)
getAckingHeightVector(L, G, kk) ==
    [v \in {w \in DOMAIN G : G[w].count > kk} |->
        IF v \in DOMAIN L /\ L[v].minHeight <= G[v].minHeight + kk
        THEN G[v].minHeight + kk ELSE infinity]

(* The chains whose acks of the candidate reach the k-th block of G        *)
(* (TestCreateAckingNodeSetFromHeightVector).                              *)
getAckingNodeSet(L, G, kk) ==
    {v \in DOMAIN G \cap DOMAIN L :
        L[v].minHeight + L[v].count - 1 >= G[v].minHeight + kk}

votes(from, to) ==
    {v \in DOMAIN from \cap DOMAIN to : from[v] # infinity /\ to[v] = infinity}

grade_AsSpecified(from, to, ans) ==
    IF Cardinality({v \in ans \cap DOMAIN from \cap DOMAIN to :
                       from[v] < to[v]}) >= phi THEN 1
    ELSE IF Cardinality({v \in DOMAIN from \cap DOMAIN to :
               from[v] < infinity \/ to[v] < infinity}) < phi THEN -1
    ELSE 0

(* 1: from precedes to, phi chains ack from and not to.  0: it does not,   *)
(* whatever the chains missing from ans will say.  -1: not decided yet.    *)
(* The two bounds are those of TestGrade (spec.md's rule gives 0 where the *)
(* test expects -1).                                                       *)
grade(from, to, ans) ==
    IF Cardinality(votes(from, to)) >= phi THEN 1
    ELSE IF Cardinality(votes(from, to)) <
                phi - (validatorCount - Cardinality(ans)) THEN 0
    ELSE -1

(* spec.md 4.3 step 3, with the grade of the other candidate over this one *)
(* (TestBasicCaseForK0 returns b20, which the grade of this one over the   *)
(* other does not give): the candidates no other candidate precedes or may *)
(* come to precede, grade 0 from every one of them.                        *)
precedingSet(cands, ahv, ans) ==
    {c \in cands : \A o \in cands \ {c} : grade(ahv[o], ahv[c], ans) = 0}

\* spec.md 4.3 step 4: every member precedes every candidate left out.
internallyStable(cands, prec, ahv, ans) ==
    \A a \in prec, b \in cands \ prec : grade(ahv[a], ahv[b], ans) = 1

decided(heights) == {v \in DOMAIN heights : heights[v] # infinity}

externallyStable_ThresholdReached(prec, ahv, ansOf) ==
    /\ \E c \in prec : Cardinality(decided(ahv[c])) >= phi
    /\ \A c \in prec : Cardinality(ansOf[c]) >= phi

(* spec.md 4.3 step 5, for a delivery before every chain is heard: a       *)
(* member has more than phi decided heights (TestEarlyDeliver delivers at  *)
(* b32 and not at b31, where b00 has phi of them) and every member has phi *)
(* chains in its acking node set.                                          *)
externallyStable(prec, ahv, ansOf) ==
    /\ \E c \in prec : Cardinality(decided(ahv[c])) > phi
    /\ \A c \in prec : Cardinality(ansOf[c]) >= phi

(* spec.md 4.3 steps 5 and 6: prec is delivered when every chain has more  *)
(* than k blocks in G, and early when it is stable.                        *)
deliverSetOf(cands, prec, ahv, ansOf, ans) ==
    IF prec # {} /\ Cardinality(ans) = validatorCount
    THEN [blocks |-> prec, early |-> FALSE]
    ELSE IF /\ prec # {}
            /\ internallyStable(cands, prec, ahv, ans)
            /\ externallyStable(prec, ahv, ansOf)
    THEN [blocks |-> prec, early |-> TRUE]
    ELSE Nothing

\* spec.md 4.3 steps 1 and 2: the vectors of the candidates of P.
deliverSet(P, A) ==
    LET G      == globalVector(P)
        ans    == getAckingNodeSet(G, G, k)
        L(c)   == candidateAckingStatusVector(P, A, c)
        ahv    == [c \in candidates(P, A) |-> getAckingHeightVector(L(c), G, k)]
        ansOf  == [c \in candidates(P, A) |-> getAckingNodeSet(L(c), G, k)]
    IN  deliverSetOf(candidates(P, A),
                     precedingSet(candidates(P, A), ahv, ans), ahv, ansOf, ans)

(* The check TestNotValidDAGDetection pins: a block that is not above the  *)
(* pending blocks of its proposer (spec.md 4.1 step 1 looks at the acks,   *)
(* and the block of the test has none).                                    *)
validDAG(b) ==
    \A p \in pendings : p.proposerID = b.proposerID => p.height < b.height

-----------------------------------------------------------------------------
newTotalOrdering(configs) ==
    /\ \E c \in configs :
         /\ k = c.k
         /\ phi = c.phi
         /\ validatorCount = c.validatorCount
    /\ pendings = {}
    /\ acked = {}
    /\ delivered = <<>>
    /\ err = "nil"

(* spec.md 4.3 step 6: the deliver set leaves the working set; the        *)
(* candidates of the next call are those of what stays.                    *)
output(P, A, ds) ==
    /\ pendings' = P \ ds.blocks
    /\ acked' = {p \in A : p[1] \notin hashesOf(ds.blocks)}
    /\ delivered' = IF ds.blocks = {} THEN delivered ELSE Append(delivered, ds)

admit(P, A) == output(P, A, deliverSet(P, A))

(* processBlock: the block is admitted and the deliver set is chosen among *)
(* the candidates.  A block that is not valid changes nothing (spec.md 7). *)
processBlock(b) ==
    \/ /\ validDAG(b)
       /\ admit(pendings \cup {b}, acked \cup buildBlockRelation(b))
       /\ err' = "nil"
       /\ UNCHANGED <<k, phi, validatorCount>>
    \/ /\ ~validDAG(b)
       /\ err' = ErrNotValidDAG
       /\ UNCHANGED <<k, phi, validatorCount, pendings, acked, delivered>>

-----------------------------------------------------------------------------
deliveredBlocks == UNION {delivered[i].blocks : i \in DOMAIN delivered}

TypeOK ==
    /\ k \in Nat /\ validatorCount \in Nat /\ phi \in 1..validatorCount
    /\ IsFiniteSet(pendings)
    /\ acked \subseteq hashesOf(pendings) \X hashesOf(pendings)
    /\ \A b \in pendings \cup deliveredBlocks :
         b.proposerID \in ValidatorIDs /\ b.height \in Nat
    /\ \A i \in DOMAIN delivered :
         delivered[i].blocks # {} /\ delivered[i].early \in BOOLEAN
    /\ err \in {"nil", ErrNotValidDAG}

=============================================================================
