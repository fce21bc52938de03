--------------------------- MODULE TotalOrderLog ---------------------------
(***************************************************************************)
(* What simulation.TotalOrderResult and VerifyTotalOrder promise, without  *)
(* the batches, their IDs and the heap: every validator's blocks are       *)
(* logged in the order its total ordering produced them, and a             *)
(* verification checks the part of the logs no verification has checked    *)
(* yet, as far as the shortest log goes, and says whether the validators   *)
(* agree on it.                                                            *)
(***************************************************************************)
EXTENDS Naturals, Sequences, FiniteSetsExt

CONSTANTS
    Validators

VARIABLES
    order,      \* order[v]: what validator v's total ordering produces
    log,        \* log[v]: the blocks of v logged so far
    verified,   \* how many blocks of every log are verified
    correct     \* the verdict of the last verification

vars == <<order, log, verified, correct>>

\* The blocks from..to of every validator are the same.
Agree(from, to) ==
    \A v, w \in Validators : SubSeq(order[v], from, to) = SubSeq(order[w], from, to)

Init ==
    /\ log = [v \in Validators |-> <<>>]
    /\ verified = 0
    /\ correct = TRUE

\* The next blocks of v, however many, are logged.
Log(v) ==
    /\ \E n \in (Len(log[v]) + 1)..Len(order[v]) :
          log' = [log EXCEPT ![v] = SubSeq(order[v], 1, n)]
    /\ UNCHANGED <<order, verified, correct>>

\* Everything logged by all validators is verified.
Verify ==
    /\ verified' = Min({Len(log[v]) : v \in Validators})
    /\ correct' = Agree(verified + 1, verified')
    /\ UNCHANGED <<order, log>>

Next ==
    \/ \E v \in Validators : Log(v)
    \/ Verify

Spec == Init /\ [][Next]_vars

=============================================================================
