---------------------------- MODULE SyncerModules ----------------------------
(***************************************************************************)
(* The goroutines of syncer.Consensus and the way SyncBlocks stops them:   *)
(* initConsensusObj, startAgreement, startNetwork, startCRSMonitor,        *)
(* stopAgreement and the end of SyncBlocks (src/README.md 269-291,         *)
(* 575-607, 689-811).                                                      *)
(*                                                                         *)
(* A channel is the number of values it holds and whether it is closed;    *)
(* receiveChan holds the chainIDs of its blocks, which checkIfSynced asks  *)
(* con.blocks for.                                                         *)
(* con.lock is held over a send by notifyNewCRS only; every other section  *)
(* under the lock does not wait and is one step, which a writer can take   *)
(* when notifyNewCRS does not hold the read lock.  A panic of any          *)
(* goroutine ends the process.                                             *)
(***************************************************************************)
EXTENDS Naturals, Sequences, FiniteSets

CONSTANTS
    NumChains,   \* len(con.agreements)
    InputCap,    \* capacity of an agreement's inputChan
    ReceiveCap,  \* capacity of con.receiveChan (1000 in NewConsensus)
    PullCap,     \* capacity of con.pullChan (1000 in NewConsensus)
    MaxMsgs,     \* bound: values the network delivers
    MaxCRS       \* bound: rounds whose CRS becomes ready

VARIABLES
    pcMain, pcNet, pcCRS, pcRecv, pcAg,   \* where each goroutine is
    ctxDone,                \* con.ctxCancel was called
    moduleWaitGroup, agreementWaitGroup,
    rlocked,                \* notifyNewCRS holds con.lock.RLock
    inputChan, inputClosed, \* a.inputChan of every agreement
    receiveChan, receiveClosed,
    pullChan, pullClosed,
    fed,                    \* the agreements startNetwork has sent a value to
    b,                      \* the chainID of the block the receive loop took
    blocks,                 \* the chains con.blocks holds a block of
    val,                    \* the chainID of the value startNetwork forwards
    next,                   \* the agreement notifyNewCRS sends to next
    lastNotifiedRound,
    msgs,                   \* values the network has delivered
    crashed                 \* the panic that ended the process, or "none"

procs == <<pcMain, pcNet, pcCRS, pcRecv, pcAg>>
waits == <<ctxDone, moduleWaitGroup, agreementWaitGroup>>
input == <<inputChan, inputClosed>>
recv  == <<receiveChan, receiveClosed, pullChan, pullClosed>>
held  == <<fed, b, blocks>>
crs   == <<rlocked, next, lastNotifiedRound>>
net   == <<val, msgs>>
vars  == <<procs, waits, input, recv, held, crs, net, crashed>>

Chains == 0..(NumChains - 1)

\* SyncBlocks has found the sync block.  The agreements run since
\* resizeByNumChains and have had no input yet.
Init ==
    /\ pcMain = "initConsensusObj" /\ pcNet = "none" /\ pcCRS = "none"
    /\ pcRecv = "none" /\ pcAg = [c \in Chains |-> "read"]
    /\ ctxDone = FALSE /\ moduleWaitGroup = 0 /\ agreementWaitGroup = NumChains
    /\ rlocked = FALSE /\ next = 0 /\ lastNotifiedRound = 0
    /\ inputChan = [c \in Chains |-> 0] /\ inputClosed = FALSE
    /\ receiveChan = <<>> /\ receiveClosed = FALSE
    /\ pullChan = 0 /\ pullClosed = FALSE
    /\ fed = {} /\ b = 0 /\ blocks = {}
    /\ val = 0 /\ msgs = 0 /\ crashed = "none"

\* A panic of a goroutine ends the process: no goroutine takes a step after.
Panics(cause) == crashed' = cause
Running == crashed = "none"

\* ch <- v on an agreement's input: waits while full, panics when closed.
SendInput(c) ==
    IF inputClosed
    THEN Panics("SendOnClosedChannel") /\ UNCHANGED input
    ELSE /\ inputChan[c] < InputCap
         /\ inputChan' = [inputChan EXCEPT ![c] = @ + 1]
         /\ UNCHANGED <<inputClosed, crashed>>

-----------------------------------------------------------------------------
(* The goroutine of SyncBlocks *)

InitConsensusObj ==
    /\ pcMain = "initConsensusObj" /\ ~rlocked
    /\ pcMain' = "syncing" /\ pcRecv' = "select"
    /\ pcNet' = "go" /\ pcCRS' = "go"
    /\ UNCHANGED <<held, pcAg, waits, input, recv, crs, net, crashed>>

\* A later call of SyncBlocks finds the overlap: overlapCount reaches
\* numChains only when con.blocks holds a block of every chain.  What else
\* checkIfSynced asks of the compaction chain is in module Syncer.
CheckIfSynced ==
    /\ pcMain = "syncing" /\ blocks = Chains
    /\ pcMain' = "synced"
    /\ UNCHANGED <<held, pcNet, pcCRS, pcRecv, pcAg, waits, input, recv, crs,
                   net, crashed>>

CtxCancel ==
    /\ pcMain = "synced"
    /\ ctxDone' = TRUE /\ pcMain' = "moduleWait"
    /\ UNCHANGED <<held, pcNet, pcCRS, pcRecv, pcAg, moduleWaitGroup,
                   agreementWaitGroup, input, recv, crs, net, crashed>>

\* Mutant: stopAgreement begins without the wait for the modules.
ModuleWait_NoWait ==
    /\ pcMain = "moduleWait"
    /\ pcMain' = "stopAgreement"
    /\ UNCHANGED <<held, pcNet, pcCRS, pcRecv, pcAg, waits, input, recv, crs,
                   net, crashed>>

\* con.moduleWaitGroup.Wait()
ModuleWait ==
    /\ pcMain = "moduleWait" /\ moduleWaitGroup = 0
    /\ pcMain' = "stopAgreement"
    /\ UNCHANGED <<held, pcNet, pcCRS, pcRecv, pcAg, waits, input, recv, crs,
                   net, crashed>>

StopAgreementCloseInputs ==
    /\ pcMain = "stopAgreement" /\ ~rlocked
    /\ inputClosed' = TRUE /\ pcMain' = "agreementWait"
    /\ UNCHANGED <<held, pcNet, pcCRS, pcRecv, pcAg, waits, inputChan, recv,
                   crs, net, crashed>>

\* Mutant: the channels are closed without the wait for the agreements.
StopAgreementCloseReceive_NoWait ==
    /\ pcMain = "agreementWait"
    /\ receiveClosed' = TRUE /\ pcMain' = "closePull"
    /\ UNCHANGED <<held, pcNet, pcCRS, pcRecv, pcAg, waits, input, receiveChan,
                   pullChan, pullClosed, crs, net, crashed>>

\* agreementWaitGroup.Wait() and close(con.receiveChan)
StopAgreementCloseReceive ==
    /\ pcMain = "agreementWait" /\ agreementWaitGroup = 0
    /\ receiveClosed' = TRUE /\ pcMain' = "closePull"
    /\ UNCHANGED <<held, pcNet, pcCRS, pcRecv, pcAg, waits, input, receiveChan,
                   pullChan, pullClosed, crs, net, crashed>>

\* close(con.pullChan)
StopAgreementClosePull ==
    /\ pcMain = "closePull"
    /\ pullClosed' = TRUE /\ pcMain' = "flush"
    /\ UNCHANGED <<held, pcNet, pcCRS, pcRecv, pcAg, waits, input, receiveChan,
                   receiveClosed, pullChan, crs, net, crashed>>

Flush ==
    /\ pcMain = "flush" /\ ~rlocked
    /\ pcMain' = "returned"
    /\ UNCHANGED <<held, pcNet, pcCRS, pcRecv, pcAg, waits, input, recv, crs,
                   net, crashed>>

Main ==
    /\ Running
    /\ \/ InitConsensusObj \/ CheckIfSynced \/ CtxCancel \/ ModuleWait
       \/ StopAgreementCloseInputs \/ StopAgreementCloseReceive
       \/ StopAgreementClosePull \/ Flush

-----------------------------------------------------------------------------
(* startNetwork *)

NetworkAdd ==
    /\ pcNet = "go"
    /\ moduleWaitGroup' = moduleWaitGroup + 1 /\ pcNet' = "select"
    /\ UNCHANGED <<held, pcMain, pcCRS, pcRecv, pcAg, ctxDone,
                   agreementWaitGroup, input, recv, crs, net, crashed>>

\* What con.network.ReceiveChan() delivers, with the fields startNetwork
\* reads.  A chainID of NumChains is one the syncer has no agreement of.
Block                 == [type : {"Block"}, chainID : 0..NumChains]
AgreementResult       == [type : {"AgreementResult"}, chainID : 0..NumChains]
BlockRandomnessResult == [type : {"BlockRandomnessResult"}]

\* A block or an agreement result arrives and its position is taken.
NetworkReceive(v) ==
    /\ pcNet = "select" /\ msgs < MaxMsgs
    /\ msgs' = msgs + 1 /\ val' = v.chainID /\ pcNet' = "send"
    /\ UNCHANGED <<held, pcMain, pcCRS, pcRecv, pcAg, waits, input, recv, crs,
                   crashed>>

\* A randomness result arrives.
NetworkReceiveRandomness(v) ==
    /\ pcNet = "select" /\ msgs < MaxMsgs
    /\ msgs' = msgs + 1 /\ pcNet' = "lock"
    /\ UNCHANGED <<held, pcMain, pcCRS, pcRecv, pcAg, waits, input, recv, crs,
                   val, crashed>>

\* Mutant: moduleWaitGroup.Add(1) is inside the loop.
NetworkRandomness_AddInLoop ==
    /\ pcNet = "lock" /\ ~rlocked
    /\ moduleWaitGroup' = moduleWaitGroup + 1 /\ pcNet' = "select"
    /\ UNCHANGED <<held, pcMain, pcCRS, pcRecv, pcAg, ctxDone,
                   agreementWaitGroup, input, recv, crs, net, crashed>>

\* The BlockRandomnessResult is appended under the lock.
NetworkRandomness ==
    /\ pcNet = "lock" /\ ~rlocked
    /\ pcNet' = "select"
    /\ UNCHANGED <<held, pcMain, pcCRS, pcRecv, pcAg, waits, input, recv, crs,
                   net, crashed>>

NetworkSend ==
    /\ pcNet = "send"
    /\ IF val \in Chains
           THEN SendInput(val) /\ fed' = fed \cup {val}
           ELSE Panics("IndexOutOfRange") /\ UNCHANGED <<input, fed>>
    /\ pcNet' = "select"
    /\ UNCHANGED <<pcMain, pcCRS, pcRecv, pcAg, waits, recv, b, blocks, crs,
                   net>>

\* Mutant: the goroutine returns without moduleWaitGroup.Done.
NetworkDone_NotDone ==
    /\ pcNet = "select" /\ ctxDone
    /\ pcNet' = "exited"
    /\ UNCHANGED <<held, pcMain, pcCRS, pcRecv, pcAg, waits, input, recv, crs,
                   net, crashed>>

NetworkDone ==
    /\ pcNet = "select" /\ ctxDone
    /\ moduleWaitGroup' = moduleWaitGroup - 1 /\ pcNet' = "exited"
    /\ UNCHANGED <<held, pcMain, pcCRS, pcRecv, pcAg, ctxDone,
                   agreementWaitGroup, input, recv, crs, net, crashed>>

Network ==
    /\ Running
    /\ \/ NetworkAdd \/ NetworkRandomness \/ NetworkSend \/ NetworkDone
       \/ \E v \in BlockRandomnessResult : NetworkReceiveRandomness(v)
       \/ \E v \in Block \cup AgreementResult : NetworkReceive(v)

-----------------------------------------------------------------------------
(* startCRSMonitor *)

CRSMonitorAdd ==
    /\ pcCRS = "go"
    /\ moduleWaitGroup' = moduleWaitGroup + 1 /\ pcCRS' = "select"
    /\ UNCHANGED <<held, pcMain, pcNet, pcRecv, pcAg, ctxDone,
                   agreementWaitGroup, input, recv, crs, net, crashed>>

\* time.After fires before ctx is done; the CRS of the rounds up to r is
\* ready.  With a new round notifyNewCRS takes the read lock.
CRSMonitorTick(r) ==
    /\ pcCRS = "select" /\ ~ctxDone
    /\ \/ r = lastNotifiedRound /\ UNCHANGED <<pcCRS, crs>>
       \/ /\ r > lastNotifiedRound
          /\ rlocked' = TRUE /\ lastNotifiedRound' = r /\ next' = 0
          /\ pcCRS' = "notify"
    /\ UNCHANGED <<held, pcMain, pcNet, pcRecv, pcAg, waits, input, recv, net,
                   crashed>>

\* One iteration of the loop over con.agreements, and the RUnlock after it.
NotifyNewCRS ==
    /\ pcCRS = "notify"
    /\ \/ /\ next \in Chains
          /\ SendInput(next)
          /\ next' = next + 1
          /\ UNCHANGED <<pcCRS, rlocked, lastNotifiedRound>>
       \/ /\ next \notin Chains
          /\ rlocked' = FALSE /\ pcCRS' = "select"
          /\ UNCHANGED <<next, lastNotifiedRound, input, crashed>>
    /\ UNCHANGED <<held, pcMain, pcNet, pcRecv, pcAg, waits, recv, net>>

CRSMonitorDone ==
    /\ pcCRS = "select" /\ ctxDone
    /\ moduleWaitGroup' = moduleWaitGroup - 1 /\ pcCRS' = "exited"
    /\ UNCHANGED <<held, pcMain, pcNet, pcRecv, pcAg, ctxDone,
                   agreementWaitGroup, input, recv, crs, net, crashed>>

CRSMonitor ==
    /\ Running
    /\ \/ CRSMonitorAdd \/ NotifyNewCRS \/ CRSMonitorDone
       \/ \E r \in lastNotifiedRound..MaxCRS : CRSMonitorTick(r)

-----------------------------------------------------------------------------
(* The agreement of chain c *)

\* A value is taken from inputChan; it may confirm a block, or name a block
\* the agreement has to pull.  The blocks and the agreement results come
\* from startNetwork: an agreement it has sent nothing confirms nothing.
AgreementRead(c) ==
    /\ pcAg[c] = "read" /\ inputChan[c] > 0
    /\ inputChan' = [inputChan EXCEPT ![c] = @ - 1]
    /\ \E to \in {"read", "pull"} \cup {"confirm" : x \in fed \cap {c}} :
            pcAg' = [pcAg EXCEPT ![c] = to]
    /\ UNCHANGED <<held, pcMain, pcNet, pcCRS, pcRecv, waits, inputClosed,
                   recv, crs, net, crashed>>

\* The confirmed block is sent on receiveChan.
AgreementConfirm(c) ==
    /\ pcAg[c] = "confirm"
    /\ IF receiveClosed
           THEN Panics("SendOnClosedChannel") /\ UNCHANGED receiveChan
           ELSE /\ Len(receiveChan) < ReceiveCap
                /\ receiveChan' = Append(receiveChan, c)
                /\ UNCHANGED crashed
    /\ pcAg' = [pcAg EXCEPT ![c] = "read"]
    /\ UNCHANGED <<held, pcMain, pcNet, pcCRS, pcRecv, waits, input,
                   receiveClosed, pullChan, pullClosed, crs, net>>

\* The hash of the block to pull is sent on pullChan.
AgreementPull(c) ==
    /\ pcAg[c] = "pull"
    /\ IF pullClosed
           THEN Panics("SendOnClosedChannel") /\ UNCHANGED pullChan
           ELSE /\ pullChan < PullCap
                /\ pullChan' = pullChan + 1
                /\ UNCHANGED crashed
    /\ pcAg' = [pcAg EXCEPT ![c] = "read"]
    /\ UNCHANGED <<held, pcMain, pcNet, pcCRS, pcRecv, waits, input,
                   receiveChan, receiveClosed, pullClosed, crs, net>>

\* inputChan is closed and empty: the agreement returns.
AgreementDone(c) ==
    /\ pcAg[c] = "read" /\ inputClosed /\ inputChan[c] = 0
    /\ pcAg' = [pcAg EXCEPT ![c] = "exited"]
    /\ agreementWaitGroup' = agreementWaitGroup - 1
    /\ UNCHANGED <<held, pcMain, pcNet, pcCRS, pcRecv, ctxDone,
                   moduleWaitGroup, input, recv, crs, net, crashed>>

Agreement(c) ==
    /\ Running
    /\ \/ AgreementRead(c) \/ AgreementConfirm(c) \/ AgreementPull(c)
       \/ AgreementDone(c)

-----------------------------------------------------------------------------
(* The goroutine of startAgreement *)

Receive ==
    /\ pcRecv = "select" /\ receiveChan # <<>>
    /\ b' = Head(receiveChan) /\ receiveChan' = Tail(receiveChan)
    /\ pcRecv' = "lock"
    /\ UNCHANGED <<fed, blocks, pcMain, pcNet, pcCRS, pcAg, waits, input,
                   receiveClosed, pullChan, pullClosed, crs, net, crashed>>

\* A hash is taken from pullChan and con.network.PullBlocks is called.
ReceivePull ==
    /\ pcRecv = "select" /\ pullChan > 0
    /\ pullChan' = pullChan - 1
    /\ UNCHANGED <<held, procs, waits, input, receiveChan, receiveClosed,
                   pullClosed, crs, net, crashed>>

\* The block is appended to con.blocks under the lock, unless its round is
\* below agreementRoundCut.
ReceiveAppend ==
    /\ pcRecv = "lock" /\ ~rlocked
    /\ blocks' \in {blocks, blocks \cup {b}}
    /\ pcRecv' = "select"
    /\ UNCHANGED <<fed, b, pcMain, pcNet, pcCRS, pcAg, waits, input, recv,
                   crs, net, crashed>>

\* One of the two channels is closed and empty: the goroutine returns.
ReceiveDone ==
    /\ pcRecv = "select"
    /\ \/ receiveClosed /\ receiveChan = <<>>
       \/ pullClosed /\ pullChan = 0
    /\ pcRecv' = "exited"
    /\ UNCHANGED <<held, pcMain, pcNet, pcCRS, pcAg, waits, input, recv, crs,
                   net, crashed>>

ReceiveLoop ==
    /\ Running
    /\ Receive \/ ReceivePull \/ ReceiveAppend \/ ReceiveDone

-----------------------------------------------------------------------------

Next ==
    \/ Main
    \/ Network
    \/ CRSMonitor
    \/ ReceiveLoop
    \/ \E c \in Chains : Agreement(c)

Spec == Init /\ [][Next]_vars

\* Every goroutine runs when it can.  The network need not deliver and no
\* CRS need become ready.
FairSpec ==
    /\ Spec
    /\ WF_vars(Main) /\ WF_vars(ReceiveLoop)
    /\ WF_vars(Running /\ (NetworkAdd \/ NetworkRandomness \/ NetworkSend
                                \/ NetworkDone))
    /\ WF_vars(Running /\ (CRSMonitorAdd \/ NotifyNewCRS \/ CRSMonitorDone))
    /\ \A c \in Chains : WF_vars(Agreement(c))

-----------------------------------------------------------------------------

TypeOK ==
    /\ pcMain \in {"initConsensusObj", "syncing", "synced", "moduleWait",
                   "stopAgreement", "agreementWait", "closePull", "flush",
                   "returned"}
    /\ pcNet \in {"none", "go", "select", "lock", "send", "exited"}
    /\ pcCRS \in {"none", "go", "select", "notify", "exited"}
    /\ pcRecv \in {"none", "select", "lock", "exited"}
    /\ pcAg \in [Chains -> {"read", "confirm", "pull", "exited"}]
    /\ ctxDone \in BOOLEAN /\ rlocked \in BOOLEAN
    /\ moduleWaitGroup \in 0..2 /\ agreementWaitGroup \in 0..NumChains
    /\ inputChan \in [Chains -> 0..InputCap] /\ inputClosed \in BOOLEAN
    /\ receiveChan \in Seq(Chains) /\ Len(receiveChan) <= ReceiveCap
    /\ receiveClosed \in BOOLEAN
    /\ fed \subseteq Chains /\ b \in Chains /\ blocks \subseteq Chains
    /\ pullChan \in 0..PullCap /\ pullClosed \in BOOLEAN
    /\ val \in 0..NumChains /\ next \in 0..NumChains
    /\ lastNotifiedRound \in 0..MaxCRS /\ msgs \in 0..MaxMsgs
    /\ crashed \in {"none", "SendOnClosedChannel", "IndexOutOfRange"}

\* "waiting on an agreement wait-group; the receive_chan and pull_chan are
\* then closed": when stopAgreement closes receiveChan every agreement has
\* returned, so none is left that could send a confirmed block on the closed
\* channel, and no block an agreement confirmed is lost in it.
AgreementsEndBeforeOutputCloses ==
    receiveClosed \/ pullClosed => \A c \in Chains : pcAg[c] = "exited"

\* Every goroutine the syncer started has returned.
Stopped ==
    /\ pcNet = "exited" /\ pcCRS = "exited" /\ pcRecv = "exited"
    /\ \A c \in Chains : pcAg[c] = "exited"

\* Once SyncBlocks has cancelled ctx the call comes to its end, by returning
\* the new core.Consensus or by a panic, and leaves no goroutine behind:
\* the goroutines of startNetwork and startCRSMonitor leave their loops, the
\* agreements drain their input and return, whatever the receive loop and
\* notifyNewCRS hold at that moment, and the receive loop, which no wait
\* group counts, returns on the channels stopAgreement closed.
ShutdownEnds ==
    ctxDone ~> (crashed # "none" \/ (pcMain = "returned" /\ Stopped))

\* "Stop network and CRS routines, wait until they are all stoped", then
\* "Stop agreements": no goroutine sends on a channel that was closed.  When
\* stopAgreement closes the inputChans the goroutine of startNetwork, which
\* had to feed the agreements before SyncBlocks could find the overlap, has
\* left its loop, and notifyNewCRS is not in the middle of its sends; a
\* goroutine of startCRSMonitor that adds itself to moduleWaitGroup only
\* after Wait has returned finds ctx done and sends nothing.
NoSendOnClosedChannel == crashed # "SendOnClosedChannel"

=============================================================================
