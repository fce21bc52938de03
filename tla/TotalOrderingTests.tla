------------------------- MODULE TotalOrderingTests -------------------------
(***************************************************************************)
(* The tests of core/total-ordering_test.go (src/README.md 834-1781) run   *)
(* against the engine of TotalOrdering.  A scenario test builds its        *)
(* blocks, submits them in its order and asserts what each call returns;   *)
(* the model also submits them in every other order that reveals a block   *)
(* after the blocks it acks.  TestRandomlyGeneratedBlocks generates its    *)
(* blocks, orders them `repeat' times with a fresh engine, each time in    *)
(* such an order, and compares the orderings.                              *)
(***************************************************************************)
EXTENDS Integers, FiniteSets, Sequences, SequencesExt

CONSTANTS
    BlockCount,             \* blockCount of the random test (50)
    Repeat,                 \* repeat of the random test (10)
    RandomValidatorCounts,  \* its validatorCount ({19})
    RandomPhi,              \* its phi (10)
    RandomKs                \* the K of its engines ({0, 1, 2, 3})

ASSUME /\ BlockCount \in Nat /\ Repeat \in Nat \ {0}
       /\ RandomValidatorCounts \subseteq RandomPhi..5 /\ RandomPhi \in Nat \ {0}
       /\ RandomKs \subseteq Nat

VARIABLES
    test,               \* the test that runs
    db,                 \* its blocks
    i,                  \* the run of the random test; 0 while it generates
    revealed,           \* the hashes of the blocks submitted in this run
    followsTest,        \* they were submitted in the order of the test
    orderingSequence,   \* the orderings of the runs that ended
    k, phi, validatorCount, pendings, acked, delivered, err

engine == <<pendings, acked, delivered, err>>
vars   == <<test, db, i, revealed, followsTest, orderingSequence,
            k, phi, validatorCount, engine>>

ValidatorIDs == 0..4      \* the index of validators[i]
infinity     == 99

to == INSTANCE TotalOrdering

Block(h, v, height, acks) ==
    [hash |-> h, proposerID |-> v, height |-> height, acks |-> acks]

Status(minHeight, count) == [minHeight |-> minHeight, count |-> count]

Random == "RandomlyGeneratedBlocks"

Tests == {"Grade", "BlockRelation", "CycleDetection", "NotValidDAGDetection",
          "EarlyDeliver", "BasicCaseForK2", "BasicCaseForK0"}

config ==
    [t \in Tests |->
        [k |-> CASE t = "BasicCaseForK0" -> 0
                 [] t \in {"EarlyDeliver", "BasicCaseForK2"} -> 2
                 [] OTHER -> 1,
         phi |-> 3, validatorCount |-> 5]]

BlockRelation ==
    {Block("A", 0, 0, {}), Block("B", 0, 1, {"A"}), Block("C", 0, 2, {"B"})}

CycleDetection ==
    {Block("b00", 0, 0, {"b03"}), Block("b01", 0, 1, {"b00"}),
     Block("b02", 0, 2, {"b01"}), Block("b03", 0, 3, {"b02"}),
     Block("b10", 1, 0, {"b10"})}

NotValidDAGDetection == {Block("b00", 0, 0, {}), Block("b01", 0, 0, {})}

\* Four chains of three blocks over b00; validators[4] proposes nothing.
EarlyDeliver ==
    {Block("b00", 0, 0, {}), Block("b01", 0, 1, {"b00"}),
     Block("b02", 0, 2, {"b01"}), Block("b10", 1, 0, {"b00"}),
     Block("b11", 1, 1, {"b10"}), Block("b12", 1, 2, {"b11"}),
     Block("b20", 2, 0, {"b00"}), Block("b21", 2, 1, {"b20"}),
     Block("b22", 2, 2, {"b21"}), Block("b30", 3, 0, {"b00"}),
     Block("b31", 3, 1, {"b30"}), Block("b32", 3, 2, {"b31"})}

BasicCaseForK2 ==
    {Block("b00", 0, 0, {}), Block("b10", 1, 0, {}),
     Block("b20", 2, 0, {"b10"}), Block("b30", 3, 0, {"b20"}),
     Block("b40", 4, 0, {}), Block("b11", 1, 1, {"b10", "b00"}),
     Block("b01", 0, 1, {"b00", "b11"}), Block("b21", 2, 1, {"b20", "b01"}),
     Block("b31", 3, 1, {"b30", "b21"}), Block("b02", 0, 2, {"b01", "b21"}),
     Block("b12", 1, 2, {"b11", "b21"}), Block("b32", 3, 2, {"b31"}),
     Block("b22", 2, 2, {"b21", "b32"}), Block("b23", 2, 3, {"b22"}),
     Block("b03", 0, 3, {"b02", "b22"}), Block("b13", 1, 3, {"b12", "b22"}),
     Block("b14", 1, 4, {"b13"}), Block("b41", 4, 1, {"b40"}),
     Block("b42", 4, 2, {"b41"})}

BasicCaseForK0 ==
    {Block("b00", 0, 0, {}), Block("b10", 1, 0, {}), Block("b20", 2, 0, {}),
     Block("b30", 3, 0, {"b20"}), Block("b01", 0, 1, {"b00", "b10"}),
     Block("b11", 1, 1, {"b10", "b20"}), Block("b21", 2, 1, {"b20"}),
     Block("b31", 3, 1, {"b21", "b30"}), Block("b40", 4, 0, {"b31"})}

blocks ==
    [t \in Tests |->
        CASE t = "Grade" -> {}
          [] t = "BlockRelation" -> BlockRelation
          [] t = "CycleDetection" -> CycleDetection
          [] t = "NotValidDAGDetection" -> NotValidDAGDetection
          [] t = "EarlyDeliver" -> EarlyDeliver
          [] t = "BasicCaseForK2" -> BasicCaseForK2
          [] t = "BasicCaseForK0" -> BasicCaseForK0]

\* The calls of processBlock, in the order of the test.
order ==
    [t \in Tests |->
        CASE t = "Grade" -> <<>>
          [] t = "BlockRelation" -> <<"A", "B", "C">>
          [] t = "CycleDetection" -> <<"b00", "b01", "b02", "b03", "b10">>
          [] t = "NotValidDAGDetection" -> <<"b01", "b00">>
          [] t = "EarlyDeliver" ->
                <<"b00", "b01", "b02", "b10", "b11", "b12",
                  "b20", "b21", "b22", "b30", "b31", "b32">>
          [] t = "BasicCaseForK2" ->
                <<"b00", "b10", "b11", "b01", "b20", "b30", "b21", "b31",
                  "b32", "b22", "b12", "b02", "b13", "b03", "b40", "b41",
                  "b42", "b14", "b23">>
          [] t = "BasicCaseForK0" ->
                <<"b00", "b10", "b20", "b30", "b01", "b11", "b21", "b31",
                  "b40">>]

\* The calls that return blocks (every other call is a checkNotDeliver).
returns ==
    [t \in Tests |->
        CASE t = "EarlyDeliver" ->
                <<[at |-> "b32", blocks |-> {"b00"}, early |-> TRUE]>>
          [] t = "BasicCaseForK2" ->
                <<[at |-> "b02", blocks |-> {"b00", "b10"}, early |-> TRUE],
                  [at |-> "b03", blocks |-> {"b11", "b20"}, early |-> TRUE],
                  [at |-> "b23", blocks |-> {"b01", "b30"}, early |-> FALSE]>>
          [] t = "BasicCaseForK0" ->
                <<[at |-> "b40", blocks |-> {"b20"}, early |-> FALSE]>>
          [] OTHER -> <<>>]

(* What the tests read in to.acked and to.candidateAckingStatusVectors     *)
(* after the call of `at': the vectors of candidates, whether these are    *)
(* all the candidates (s.Len) and the blocks that ack a block.             *)
checks ==
    <<[test |-> "BlockRelation", at |-> "C", all |-> FALSE, vectors |-> <<>>,
      ackers |-> "A" :> {"B", "C"} @@ "B" :> {"C"} @@ "C" :> {}],
     [test |-> "EarlyDeliver", at |-> "b02", all |-> FALSE, ackers |-> <<>>,
      vectors |-> "b00" :> (0 :> Status(0, 3))],
     [test |-> "EarlyDeliver", at |-> "b31", all |-> TRUE, ackers |-> <<>>,
      vectors |-> "b00" :> (0 :> Status(0, 3) @@ 1 :> Status(0, 3) @@
                            2 :> Status(0, 3) @@ 3 :> Status(0, 2))],
     [test |-> "EarlyDeliver", at |-> "b32", all |-> TRUE, ackers |-> <<>>,
      vectors |-> "b01" :> (0 :> Status(1, 2)) @@ "b10" :> (1 :> Status(0, 3))
               @@ "b20" :> (2 :> Status(0, 3)) @@ "b30" :> (3 :> Status(0, 3))],
     [test |-> "BasicCaseForK2", at |-> "b12", all |-> TRUE,
      ackers |-> "b00" :> {"b01", "b11", "b12", "b21", "b22", "b31", "b32"} @@
                "b10" :> {"b01", "b11", "b12", "b20", "b21", "b22", "b30",
                          "b31", "b32"},
      vectors |-> "b00" :> (0 :> Status(0, 2) @@ 1 :> Status(1, 2) @@
                            2 :> Status(1, 2) @@ 3 :> Status(1, 2)) @@
                  "b10" :> (0 :> Status(1, 1) @@ 1 :> Status(0, 3) @@
                            2 :> Status(0, 3) @@ 3 :> Status(0, 3))],
     [test |-> "BasicCaseForK2", at |-> "b02", all |-> TRUE, ackers |-> <<>>,
      vectors |-> "b11" :> (0 :> Status(1, 2) @@ 1 :> Status(1, 2) @@
                            2 :> Status(1, 2) @@ 3 :> Status(1, 2)) @@
                  "b20" :> (0 :> Status(2, 1) @@ 1 :> Status(2, 1) @@
                            2 :> Status(0, 3) @@ 3 :> Status(0, 3))],
     [test |-> "BasicCaseForK2", at |-> "b14", all |-> TRUE, ackers |-> <<>>,
      vectors |-> "b01" :> (0 :> Status(1, 3) @@ 1 :> Status(2, 3) @@
                            2 :> Status(1, 2) @@ 3 :> Status(1, 2)) @@
                  "b30" :> (0 :> Status(3, 1) @@ 1 :> Status(3, 2) @@
                            2 :> Status(2, 1) @@ 3 :> Status(0, 3)) @@
                  "b40" :> (4 :> Status(0, 3))],
     [test |-> "BasicCaseForK0", at |-> "b31", all |-> FALSE, ackers |-> <<>>,
      vectors |-> "b00" :> (0 :> Status(0, 2)) @@
                  "b10" :> (0 :> Status(1, 1) @@ 1 :> Status(0, 2)) @@
                  "b20" :> (1 :> Status(1, 1) @@ 2 :> Status(0, 2) @@
                            3 :> Status(0, 2))]>>

\* s.Contains(to.candidateAckingStatusVectors, ...) at the end of two tests.
candidatesAtEnd ==
    [t \in Tests |-> CASE t = "BasicCaseForK2" -> {"b21", "b40"}
                       [] t = "BasicCaseForK0" -> {"b10", "b30"}
                       [] OTHER -> {}]

-----------------------------------------------------------------------------
deliveredSets == [j \in DOMAIN delivered |-> to!hashesOf(delivered[j].blocks)]

chain(v) == {b \in db : b.proposerID = v}
tip(v)   == CHOOSE b \in chain(v) : \A c \in chain(v) : c.height <= b.height

Init ==
    /\ test \in Tests \cup {Random}
    /\ db = IF test = Random THEN {} ELSE blocks[test]
    /\ i = IF test = Random THEN 0 ELSE 1
    /\ revealed = {}
    /\ followsTest = (test # Random)
    /\ orderingSequence = {}
    /\ to!newTotalOrdering(
          IF test # Random THEN {config[test]}
          ELSE [k : RandomKs, phi : {RandomPhi},
                validatorCount : RandomValidatorCounts])

(* A validator proposes its next block, which acks its parent and the      *)
(* latest blocks of other validators that its chain has not acked yet.     *)
propose(v, others) ==
    /\ \A o \in others :
         /\ o # v /\ chain(o) # {}
         /\ \A b \in chain(v) : tip(o).hash \notin b.acks
    /\ db' = db \cup
         {Block(<<v, Cardinality(chain(v))>>, v, Cardinality(chain(v)),
                {tip(o).hash : o \in others} \cup
                {b.hash : b \in {c \in chain(v) : c = tip(v)}})}
    /\ UNCHANGED <<test, i, revealed, followsTest, orderingSequence,
                   k, phi, validatorCount, engine>>

\* gen.Generate(validatorCount, blockCount, nil, db), block by block.
Generate(v, others) ==
    /\ test = Random /\ i = 0
    /\ Cardinality(db) < BlockCount
    /\ propose(v, others)

\* The blocks are generated: the first run starts.
StartRuns ==
    /\ test = Random /\ i = 0
    /\ Cardinality(db) = BlockCount
    /\ i' = 1
    /\ UNCHANGED <<test, db, revealed, followsTest, orderingSequence,
                   k, phi, validatorCount, engine>>

nextOfTest(b) ==
    /\ test # Random /\ followsTest
    /\ b.hash = order[test][Cardinality(revealed) + 1]

(* One call of processBlock: the next block of the test, or (revealer.Next *)
(* of the random test) any block whose acks among the blocks of the test   *)
(* are all submitted.                                                      *)
Submit(b) ==
    /\ i \in 1..Repeat
    /\ b.hash \notin revealed
    /\ nextOfTest(b) \/ b.acks \cap to!hashesOf(db) \subseteq revealed
    /\ revealed' = revealed \cup {b.hash}
    /\ followsTest' = nextOfTest(b)
    /\ to!processBlock(b)
    /\ UNCHANGED <<test, db, i, orderingSequence>>

\* EndRun when the next run goes on with the engine of the run before.
EndRun_SameEngine ==
    /\ test = Random /\ i \in 1..Repeat
    /\ revealed = to!hashesOf(db)
    /\ orderingSequence' = orderingSequence \cup {deliveredSets}
    /\ i' = i + 1
    /\ revealed' = {}
    /\ UNCHANGED <<test, db, followsTest, k, phi, validatorCount, engine>>

(* ErrIterationFinished: the ordering of the run is recorded; the next run *)
(* resets the revealer and takes a new engine of the same arguments.       *)
EndRun ==
    /\ test = Random /\ i \in 1..Repeat
    /\ revealed = to!hashesOf(db)
    /\ orderingSequence' = orderingSequence \cup {deliveredSets}
    /\ i' = i + 1
    /\ revealed' = {}
    /\ pendings' = {} /\ acked' = {} /\ delivered' = <<>> /\ err' = "nil"
    /\ UNCHANGED <<test, db, followsTest, k, phi, validatorCount>>

\* The test returns: its blocks are submitted, its runs are over.
TestEnds ==
    /\ IF test = Random THEN i > Repeat ELSE revealed = to!hashesOf(db)
    /\ UNCHANGED vars

Next ==
    \/ \E v \in 0..(validatorCount - 1), others \in SUBSET ValidatorIDs :
          Generate(v, others)
    \/ StartRuns
    \/ \E b \in db : Submit(b)
    \/ EndRun
    \/ TestEnds

Spec == Init /\ [][Next]_vars

-----------------------------------------------------------------------------
TypeOK ==
    /\ test \in Tests \cup {Random}
    /\ test # Random => db = blocks[test] /\ i = 1
    /\ test = Random =>
          /\ i \in 0..(Repeat + 1)
          /\ Cardinality(db) <= BlockCount
          /\ \A b \in db : b.acks \subseteq to!hashesOf(db)
    /\ revealed \subseteq to!hashesOf(db)
    /\ to!hashesOf(pendings \cup to!deliveredBlocks) \subseteq revealed
    /\ followsTest \in BOOLEAN
    /\ \A s \in orderingSequence : \A j \in DOMAIN s : s[j] \subseteq to!hashesOf(db)
    /\ to!TypeOK

byHash(h) == CHOOSE b \in db : b.hash = h

(* The assertions of the tests hold along the order of the test: the calls *)
(* return the blocks and the early flag the test expects and nothing       *)
(* at every other call, processBlock fails in TestNotValidDAGDetection and *)
(* nowhere else, and acked and candidateAckingStatusVectors hold what the  *)
(* tests read in them.                                                     *)
TestsPass ==
    test # Random /\ followsTest /\ revealed # {} =>
        LET n      == Cardinality(revealed)
            last   == order[test][n]
            due    == SelectSeq(returns[test],
                        LAMBDA r : \E j \in 1..n : order[test][j] = r.at)
            cands  == to!candidates(pendings, acked)
        IN  /\ delivered = [j \in DOMAIN due |->
                              [blocks |-> {byHash(h) : h \in due[j].blocks},
                               early  |-> due[j].early]]
            /\ err = IF test = "NotValidDAGDetection" /\ n = 2
                     THEN to!ErrNotValidDAG ELSE "nil"
            /\ n = Len(order[test]) =>
                  candidatesAtEnd[test] \subseteq to!hashesOf(cands)
            /\ \A c \in {checks[j] : j \in {m \in DOMAIN checks :
                      checks[m].test = test /\ checks[m].at = last}} :
                  /\ \A h \in DOMAIN c.vectors :
                       /\ byHash(h) \in cands
                       /\ to!candidateAckingStatusVector(pendings, acked, byHash(h))
                             = c.vectors[h]
                  /\ c.all => to!hashesOf(cands) = DOMAIN c.vectors
                  /\ \A h \in DOMAIN c.ackers :
                       to!ackersOf(acked, h) = c.ackers[h]

(* In whatever order the blocks of a test are revealed, the deliver sets   *)
(* are those the test expects, in its order: the sequence returned so far  *)
(* and the sequence of the test are equal or one starts the other          *)
(* (baseTestRandomlyGeneratedBlocks asks this of random blocks).           *)
EveryOrderDeliversAsTested ==
    test # Random =>
        LET expected == [j \in DOMAIN returns[test] |-> returns[test][j].blocks]
        IN  IsPrefix(deliveredSets, expected) \/ IsPrefix(expected, deliveredSets)

(* getAckingHeightVector, getAckingNodeSet and grade give the values of    *)
(* TestCreateAckingHeightVectorFromHeightVector,                           *)
(* TestCreateAckingNodeSetFromHeightVector and TestGrade; the engine is    *)
(* that of TestGrade.                                                      *)
UnitTestsPass ==
    test = "Grade" =>
    LET global == [v \in 0..3 |-> Status(0, 5)]
        hv     == 0 :> Status(3, 1)
        local  == 0 :> Status(1, 2)
        ahv1   == [v \in 0..3 |-> IF v = 0 THEN 1 ELSE infinity]
        ahv2   == [v \in 0..3 |-> 1]
        ahv3   == [v \in 0..3 |-> IF v \in {0, 1} THEN 1 ELSE infinity]
    IN  /\ to!getAckingHeightVector(0 :> Status(0, 2), global, 0)
              = [v \in 0..3 |-> IF v = 0 THEN 0 ELSE infinity]
        /\ to!getAckingHeightVector(hv, global, 2)[0] = infinity
        /\ to!getAckingHeightVector(hv, global, 3)[0] = 3
        /\ DOMAIN to!getAckingHeightVector(
              0 :> Status(0, 3) @@ 1 :> Status(0, 3), global, 5) = {}
        /\ Cardinality(to!getAckingNodeSet(local, global, 1)) = 1
        /\ Cardinality(to!getAckingNodeSet(local, global, 2)) = 1
        /\ Cardinality(to!getAckingNodeSet(local, global, 3)) = 0
        /\ to!grade(ahv2, ahv1, 0..3) = 1
        /\ to!grade(ahv1, ahv2, 0..3) = 0
        /\ to!grade(ahv2, ahv3, 0..3) = -1
        /\ to!grade(ahv3, ahv2, 0..3) = 0

(* The assertion that ends baseTestRandomlyGeneratedBlocks: whatever the   *)
(* order in which the blocks are revealed, processBlock never fails and    *)
(* the orderings are equal or one starts the other.  The hashes are random *)
(* and a deliver set is returned sorted by hash: the strings of the test   *)
(* agree for every value of the hashes when the sequences of deliver sets  *)
(* do.  The run under way is compared too, its ordering only grows.        *)
OrderingsAgree ==
    test = Random =>
        /\ err = "nil"
        /\ \A s, t \in orderingSequence \cup {deliveredSets} :
              IsPrefix(s, t) \/ IsPrefix(t, s)

=============================================================================
