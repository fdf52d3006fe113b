------------------------- MODULE TransactionManager -------------------------
(***************************************************************************)
(* How a relay server sends transactions and keeps them alive: the nonce   *)
(* mutex of TransactionManager.sendTransaction, the transaction store on   *)
(* disk, and the worker's pass that records mined blocks, removes archived *)
(* entries and boosts what stays pending.                                  *)
(*                                                                         *)
(* The chain and the node are the environment: a node accepts, drops and   *)
(* mines, loses an answer, or answers for a block it has not seen yet.     *)
(*                                                                         *)
(* A fee is a level, one retryGasPriceFactor apart.  Block numbers and     *)
(* timestamps are dropped for what the code compares them with: stale      *)
(* (pendingTransactionTimeoutSeconds passed since the last attempt) and    *)
(* age (0 new, Old: dbPruneTxAfterBlocks deep, Archivable: also            *)
(* dbPruneTxAfterSeconds old).                                             *)
(***************************************************************************)
EXTENDS Naturals, Sequences, FiniteSets

CONSTANTS Signers,          \* the manager and the worker
          SignerOrder,      \* the order the worker's pass boosts them in
          Calls,            \* calls of sendTransaction
          SignerOf,         \* SendTransactionDetails.signer
          Offers,           \* the <<maxFeePerGas, maxPriorityFeePerGas>> of calls
          Minima,           \* what getGasFees may answer, the same pair
          MaxMaxFeePerGas,  \* config.maxMaxFeePerGas
          BaseFee,          \* the level the chain mines at
          MaxCrashes, MaxDrops, MaxFailures, MaxReorgs,  \* bounds on each fault
          MaxOrphanAge      \* bound: how old a recorded block grows while a
                            \* reorg keeps its transaction off the chain

VARIABLES nonces,   \* TransactionManager.nonces, in memory
          mutex,    \* the call that holds nonceMutex
          pc,       \* where each call is
          signed,   \* the transaction each call signed
          store,    \* the transaction store on disk
          mempool,  \* the node's pending transactions
          chain,    \* what is mined, by signer and nonce
          worker,   \* the worker's pass
          faults    \* how often each bounded fault happened

vars == <<nonces, mutex, pc, signed, store, mempool, chain, worker, faults>>

None == [none |-> TRUE]
Old == 1
Archivable == 2
Levels == 1..MaxMaxFeePerGas
Nonces == 0..Cardinality(Calls)
Txs == [signer : Signers, nonce : Nonces, call : Calls, fee : Levels, tip : Levels]
Entries == [tx : Txs, stale : BOOLEAN,
            minedBlock : {"none", "first", "moved"}, age : 0..Archivable]

Blocks == [tx : Txs, moved : BOOLEAN, depth : 0..Archivable]
Turns == 1..Len(SignerOrder)
Prices == {p \in [fee : Levels, tip : Levels] : p.tip <= p.fee}

\* The pass: which signer's turn it is, and what it read or decided before it waits.
Passes ==
    [at : {"idle", "fill", "prune"}]
    \cup [at : {"count"}, turn : Turns]
    \cup [at : {"load"}, turn : Turns, nonce : Nat]
    \cup [at : {"resend"}, turn : Turns, oldest : Nat, price : Prices, todo : SUBSET Nat]
    \cup [at : {"resend"}, turn : Turns, price : Prices, todo : SUBSET Nat]
    \cup [at : {"send"}, turn : Turns, price : Prices, todo : SUBSET Nat, old : Txs, tx : Txs]

ASSUME TransactionManagerAssumption ==
    /\ IsFiniteSet(Calls) /\ None \notin Calls
    /\ SignerOf \in [Calls -> Signers]
    /\ SignerOrder \in Seq(Signers) /\ SignerOrder # <<>>
    /\ MaxMaxFeePerGas \in Nat \ {0} /\ BaseFee \in Levels
    /\ Offers \subseteq Levels \X Levels /\ \A o \in Offers : o[2] <= o[1]
    /\ Minima \subseteq Levels \X Levels
    /\ {MaxCrashes, MaxDrops, MaxFailures, MaxReorgs} \subseteq Nat
    /\ MaxOrphanAge \in 0..Old

Idle == [at |-> "idle"]

TypeOK ==
    /\ nonces \in [Signers -> Nonces]
    /\ mutex \in Calls \cup {None}
    /\ pc \in [Calls -> {"new", "locked", "signed", "stored", "sent", "failed", "lost"}]
    /\ signed \in [Calls -> Txs \cup {None}]
    /\ store \subseteq Entries
    /\ mempool \subseteq Txs
    /\ chain \in [Signers -> Seq(Blocks)]
    /\ worker \in Passes

Init ==
    /\ nonces = [s \in Signers |-> 0]
    /\ mutex = None
    /\ pc = [c \in Calls |-> "new"]
    /\ signed = [c \in Calls |-> None]
    /\ store = {}
    /\ mempool = {}
    /\ chain = [s \in Signers |-> <<>>]
    /\ worker = Idle
    /\ faults = [crash |-> 0, drop |-> 0, failure |-> 0, reorg |-> 0]

Key(tx) == <<tx.signer, tx.nonce>>
StoredKeys == {Key(e.tx) : e \in store}
EntriesOf(s) == {e \in store : e.tx.signer = s}
MempoolKeys == {Key(t) : t \in mempool}

MinedCount(s) == Len(chain[s])
IsMined(tx) == /\ tx.nonce < MinedCount(tx.signer)
               /\ chain[tx.signer][tx.nonce + 1].tx = tx

Fault(kind, max) == /\ faults[kind] < max
                    /\ faults' = [faults EXCEPT ![kind] = @ + 1]

-----------------------------------------------------------------------------
(* The node.                                                               *)

\* What getTransactionCount(s, 'pending') answers at the best of times.
PendingCount(s) ==
    CHOOSE n \in MinedCount(s)..Cardinality(Calls) + 1 :
        /\ \A m \in MinedCount(s)..n - 1 : <<s, m>> \in MempoolKeys
        /\ <<s, n>> \notin MempoolKeys

\* A node behind a balancer may lag, by less than dbPruneTxAfterBlocks.
SettledCount(s) == Cardinality({i \in DOMAIN chain[s] : chain[s][i].depth >= Old})

\* The transaction pool's rule: a replacement pays more of both fees.
Acceptable(tx) ==
    /\ tx.nonce >= MinedCount(tx.signer)
    /\ \A t \in mempool : Key(t) = Key(tx) => tx.fee > t.fee /\ tx.tip > t.tip

Accept(tx) == mempool' = {t \in mempool : Key(t) # Key(tx)} \cup {tx}

\* broadcastTransaction's outcomes: acknowledged, accepted but the answer is
\* lost, or refused.
Broadcast(tx, acknowledged) ==
    \/ Acceptable(tx) /\ Accept(tx) /\ acknowledged /\ UNCHANGED faults
    \/ Acceptable(tx) /\ Accept(tx) /\ ~acknowledged /\ Fault("failure", MaxFailures)
    \/ Acceptable(tx) /\ ~acknowledged /\ Fault("failure", MaxFailures) /\ UNCHANGED mempool
    \/ ~Acceptable(tx) /\ ~acknowledged /\ UNCHANGED <<mempool, faults>>

-----------------------------------------------------------------------------
(* sendTransaction.                                                        *)

\* estimateGas or validateBalance throws before the mutex is asked for.
Refuse(c) ==
    /\ pc[c] = "new"
    /\ Fault("failure", MaxFailures)
    /\ pc' = [pc EXCEPT ![c] = "failed"]
    /\ UNCHANGED <<nonces, mutex, signed, store, mempool, chain, worker>>

Acquire(c) ==
    /\ pc[c] = "new"
    /\ mutex = None
    /\ pc' = [pc EXCEPT ![c] = "locked"]
    /\ mutex' = c
    /\ UNCHANGED <<nonces, signed, store, mempool, chain, worker, faults>>

\* Faulty: the nonce after the one the node answers.
PollNonceSkipping(s, answer) == IF answer > nonces[s] THEN answer + 1 ELSE nonces[s]

\* pollNonce: never below what this process has already handed out.
PollNonce(s, answer) == IF answer > nonces[s] THEN answer ELSE nonces[s]

\* pollNonce, the signature and nonces[signer]++ happen without an await between.
Sign(c) ==
    LET s == SignerOf[c] IN
    /\ pc[c] = "locked"
    /\ \E answer \in SettledCount(s)..PendingCount(s), offer \in Offers :
          LET n == PollNonce(s, answer) IN
          /\ signed' = [signed EXCEPT ![c] = [signer |-> s, nonce |-> n, call |-> c,
                                              fee |-> offer[1], tip |-> offer[2]]]
          /\ nonces' = [nonces EXCEPT ![s] = n + 1]
    /\ pc' = [pc EXCEPT ![c] = "signed"]
    /\ UNCHANGED <<mutex, store, mempool, chain, worker, faults>>

NewEntry(tx) == [tx |-> tx, stale |-> FALSE, minedBlock |-> "none", age |-> 0]

\* Faulty: the transaction is broadcast without being stored.
PutTxNever(c) ==
    /\ pc[c] = "signed"
    /\ pc' = [pc EXCEPT ![c] = "stored"]
    /\ mutex' = None
    /\ UNCHANGED <<nonces, signed, store, mempool, chain, worker, faults>>

\* Faulty: an insert replaces the entry with the same nonce and signer.
PutTxUpsert(c) ==
    /\ pc[c] = "signed"
    /\ store' = {e \in store : Key(e.tx) # Key(signed[c])} \cup {NewEntry(signed[c])}
    /\ pc' = [pc EXCEPT ![c] = "stored"]
    /\ mutex' = None
    /\ UNCHANGED <<nonces, signed, mempool, chain, worker, faults>>

\* putTx(storedTx, false): nonceSigner is a unique index, so an insert for a
\* nonce the store knows throws.  Either way the mutex is released.
PutTx(c) ==
    /\ pc[c] = "signed"
    /\ \/ /\ Key(signed[c]) \in StoredKeys
          /\ pc' = [pc EXCEPT ![c] = "failed"]
          /\ UNCHANGED store
       \/ /\ Key(signed[c]) \notin StoredKeys
          /\ pc' = [pc EXCEPT ![c] = "stored"]
          /\ store' = store \cup {NewEntry(signed[c])}
    /\ mutex' = None
    /\ UNCHANGED <<nonces, signed, mempool, chain, worker, faults>>

BroadcastTransaction(c) ==
    /\ pc[c] = "stored"
    /\ \E acknowledged \in BOOLEAN :
          /\ Broadcast(signed[c], acknowledged)
          /\ pc' = [pc EXCEPT ![c] = IF acknowledged THEN "sent" ELSE "failed"]
    /\ UNCHANGED <<nonces, mutex, signed, store, chain, worker>>

-----------------------------------------------------------------------------
(* The worker's pass over a new block: _handleChanges.                      *)

StartPass ==
    /\ worker.at = "idle"
    /\ worker' = [at |-> "fill"]
    /\ UNCHANGED <<nonces, mutex, pc, signed, store, mempool, chain, faults>>

BlockOf(tx) == IF chain[tx.signer][tx.nonce + 1].moved THEN "moved" ELSE "first"
DepthOf(tx) == chain[tx.signer][tx.nonce + 1].depth

\* An entry is looked up by its current transaction id when it never had a
\* receipt, or when its recorded block is dbPruneTxAfterBlocks deep.
Filled(e) ==
    IF (e.minedBlock = "none" \/ e.age >= Old) /\ IsMined(e.tx)
    THEN [e EXCEPT !.minedBlock = BlockOf(e.tx), !.age = DepthOf(e.tx)]
    ELSE e

\* Only this pass changes existing entries, so the loop is one step.
FillMinedBlockDetails ==
    /\ worker.at = "fill"
    /\ store' = {Filled(e) : e \in store}
    /\ worker' = [at |-> "prune"]
    /\ UNCHANGED <<nonces, mutex, pc, signed, mempool, chain, faults>>

\* Faulty: mined is enough.
ArchivedAtOnce(e) == e.minedBlock # "none"

\* Both criteria of TxStoreManager.removeArchivedTransactions.
Archived(e) == e.minedBlock # "none" /\ e.age = Archivable

RemoveArchivedTransactions ==
    /\ worker.at = "prune"
    /\ store' = {e \in store : ~Archived(e)}
    /\ worker' = [at |-> "count", turn |-> 1]
    /\ UNCHANGED <<nonces, mutex, pc, signed, mempool, chain, faults>>

\* The pass goes on with the next signer, or is over.
NextTurn == IF worker.turn < Len(SignerOrder)
            THEN [at |-> "count", turn |-> worker.turn + 1]
            ELSE Idle

\* boostUnderpricedPendingTransactionsForSigner asks for the mined nonce first.
CountMined ==
    /\ worker.at = "count"
    /\ LET s == SignerOrder[worker.turn] IN
       \E n \in SettledCount(s)..MinedCount(s) :
          worker' = [at |-> "load", turn |-> worker.turn, nonce |-> n]
    /\ UNCHANGED <<nonces, mutex, pc, signed, store, mempool, chain, faults>>

HigherOf(a, b) == IF a > b THEN a ELSE b
LowerOf(a, b) == IF a < b THEN a ELSE b

\* Faulty: fee and tip are swapped.
ResolveSwapped(fee, tip, minFee, minTip) ==
    LET newFee == LowerOf(HigherOf(tip + 1, minFee), MaxMaxFeePerGas)
    IN  [fee |-> newFee, tip |-> LowerOf(HigherOf(fee + 1, minTip), newFee)]

\* _resolveNewGasPrice: one factor up, at least the network's, at most the cap.
ResolveNewGasPrice(fee, tip, minFee, minTip) ==
    LET newFee == LowerOf(HigherOf(fee + 1, minFee), MaxMaxFeePerGas)
    IN  [fee |-> newFee, tip |-> LowerOf(HigherOf(tip + 1, minTip), newFee)]

PendingEntries == {e \in EntriesOf(SignerOrder[worker.turn]) : e.tx.nonce >= worker.nonce}
OldestPending == CHOOSE e \in PendingEntries :
                    \A f \in PendingEntries : e.tx.nonce <= f.tx.nonce

\* The pass throws: 'Boosting: missing nonce'.
MissingNonce == /\ PendingEntries # {}
                /\ OldestPending.tx.nonce # worker.nonce

\* The oldest pending transaction was not mined in time.
BoostIsDue == PendingEntries # {} /\ ~MissingNonce /\ OldestPending.stale

LoadPending ==
    /\ worker.at = "load"
    /\ \/ /\ ~MissingNonce /\ ~BoostIsDue
          /\ worker' = NextTurn
       \/ /\ MissingNonce
          /\ worker' = Idle
       \/ /\ BoostIsDue
          /\ \E m \in Minima :
                worker' = [at |-> "resend", turn |-> worker.turn, oldest |-> worker.nonce,
                           price |-> ResolveNewGasPrice(OldestPending.tx.fee, OldestPending.tx.tip,
                                                        m[1], m[2]),
                           todo |-> {e.tx.nonce : e \in PendingEntries}]
    /\ UNCHANGED <<nonces, mutex, pc, signed, store, mempool, chain, faults>>

NextToResend == CHOOSE e \in EntriesOf(SignerOrder[worker.turn]) :
                    /\ e.tx.nonce \in worker.todo
                    /\ \A n \in worker.todo : e.tx.nonce <= n

\* Faulty: the comparison is reversed.
UnderpricedReversed(tx) == tx.fee > worker.price.fee \/ tx.tip > worker.price.tip

Underpriced(tx) == tx.fee < worker.price.fee \/ tx.tip < worker.price.tip

\* The same call with the new price; a transaction that pays enough is resent as it is.
Boosted(tx) == IF Underpriced(tx)
               THEN [tx EXCEPT !.fee = worker.price.fee, !.tip = worker.price.tip]
               ELSE tx

\* validateBalance throws: the end of the pass for a boost, logged otherwise.
ResendRefused ==
    /\ worker.at = "resend"
    /\ Fault("failure", MaxFailures)
    /\ LET n == NextToResend.tx.nonce
           rest == worker.todo \ {n} IN
       worker' = IF Underpriced(NextToResend.tx) THEN Idle
                 ELSE IF rest = {} THEN NextTurn ELSE [worker EXCEPT !.todo = rest]
    /\ UNCHANGED <<nonces, mutex, pc, signed, store, mempool, chain>>

\* resendTransaction puts the new version in the store and then sends it.
StoreAttempt ==
    /\ worker.at = "resend"
    /\ LET e == NextToResend
           boosted == [e EXCEPT !.tx = Boosted(e.tx), !.stale = FALSE] IN
       /\ store' = (store \ {e}) \cup {boosted}
       /\ worker' = [at |-> "send", turn |-> worker.turn, price |-> worker.price,
                     todo |-> worker.todo \ {e.tx.nonce}, old |-> e.tx, tx |-> boosted.tx]
    /\ UNCHANGED <<nonces, mutex, pc, signed, mempool, chain, faults>>

\* After the last transaction the next signer's turn comes.
AfterResend == IF worker.todo = {} THEN NextTurn
               ELSE [at |-> "resend", turn |-> worker.turn, price |-> worker.price,
                     todo |-> worker.todo]

\* A boost that fails ends the pass; a rebroadcast that fails is only logged.
BroadcastAttempt ==
    /\ worker.at = "send"
    /\ \E acknowledged \in BOOLEAN :
          /\ Broadcast(worker.tx, acknowledged)
          /\ worker' = IF acknowledged \/ worker.tx = worker.old THEN AfterResend ELSE Idle
    /\ UNCHANGED <<nonces, mutex, pc, signed, store, chain>>

-----------------------------------------------------------------------------
(* The process, the chain and time.                                        *)

\* The server restarts: the store survives, the constructor zeroes the nonces.
Crash ==
    /\ Fault("crash", MaxCrashes)
    /\ nonces' = [s \in Signers |-> 0]
    /\ mutex' = None
    /\ pc' = [c \in Calls |-> IF pc[c] \in {"locked", "signed", "stored"} THEN "lost" ELSE pc[c]]
    /\ worker' = Idle
    /\ UNCHANGED <<signed, store, mempool, chain>>

Mine(s) ==
    \E tx \in mempool :
        /\ tx.signer = s /\ tx.nonce = MinedCount(s) /\ tx.fee >= BaseFee
        /\ chain' = [chain EXCEPT ![s] = Append(@, [tx |-> tx, moved |-> FALSE, depth |-> 0])]
        /\ mempool' = mempool \ {tx}
        /\ UNCHANGED <<nonces, mutex, pc, signed, store, worker, faults>>

\* The node forgets a pending transaction.
Drop ==
    \E tx \in mempool :
        /\ Fault("drop", MaxDrops)
        /\ mempool' = mempool \ {tx}
        /\ UNCHANGED <<nonces, mutex, pc, signed, store, chain, worker>>

\* pendingTransactionTimeoutSeconds pass after an attempt.
TimeOut ==
    \E e \in store :
        /\ ~e.stale
        /\ store' = (store \ {e}) \cup {[e EXCEPT !.stale = TRUE]}
        /\ UNCHANGED <<nonces, mutex, pc, signed, mempool, chain, worker, faults>>

Aged(key) == {IF Key(e.tx) = key /\ e.minedBlock # "none" /\ e.age < Archivable
              THEN [e EXCEPT !.age = @ + 1] ELSE e : e \in store}

TurnsArchivable(s, i) ==
    \/ chain[s][i].depth = Old
    \/ \E e \in store : Key(e.tx) = <<s, i - 1>> /\ e.minedBlock # "none" /\ e.age = Old

\* Blocks are added on top of a mined transaction.  Nothing turns archivable
\* while the mutex is held: an insert takes less than dbPruneTxAfterSeconds.
\* A pass computes every age from the block it was started for.
Deepen(s) ==
    \E i \in DOMAIN chain[s] :
        /\ chain[s][i].depth < Archivable
        /\ TurnsArchivable(s, i) => mutex = None
        /\ worker.at # "prune"
        /\ \A j \in 1..i - 1 : chain[s][j].depth > chain[s][i].depth
        /\ chain' = [chain EXCEPT ![s][i].depth = @ + 1]
        /\ store' = Aged(<<s, i - 1>>)
        /\ UNCHANGED <<nonces, mutex, pc, signed, mempool, worker, faults>>

\* Blocks are added while a transaction whose block was recorded is not mined.
AgeRecorded ==
    \E e \in store :
        /\ e.minedBlock # "none" /\ e.age < MaxOrphanAge /\ e.tx.nonce >= MinedCount(e.tx.signer)
        /\ worker.at # "prune"
        /\ store' = Aged(Key(e.tx))
        /\ UNCHANGED <<nonces, mutex, pc, signed, mempool, chain, worker, faults>>

\* The last block of a signer's transaction is replaced: the transaction moves
\* to another block, or is pending again, or is gone.
Reorg(s) ==
    /\ chain[s] # <<>>
    /\ LET last == chain[s][MinedCount(s)]
           front == SubSeq(chain[s], 1, MinedCount(s) - 1) IN
       /\ last.depth = 0 /\ ~last.moved
       /\ \/ /\ chain' = [chain EXCEPT ![s] = Append(front, [last EXCEPT !.moved = TRUE])]
             /\ UNCHANGED mempool
          \/ /\ chain' = [chain EXCEPT ![s] = front]
             /\ \/ Accept(last.tx)
                \/ UNCHANGED mempool
    /\ Fault("reorg", MaxReorgs)
    /\ UNCHANGED <<nonces, mutex, pc, signed, store, worker>>

Send(c) == Refuse(c) \/ Acquire(c) \/ Sign(c) \/ PutTx(c) \/ BroadcastTransaction(c)

Pass == \/ StartPass \/ FillMinedBlockDetails \/ RemoveArchivedTransactions
        \/ CountMined \/ LoadPending \/ ResendRefused \/ StoreAttempt \/ BroadcastAttempt

Next ==
    \/ \E c \in Calls : Send(c)
    \/ Pass
    \/ Crash \/ Drop \/ TimeOut \/ AgeRecorded
    \/ \E s \in Signers : Mine(s) \/ Deepen(s) \/ Reorg(s)

Spec == Init /\ [][Next]_vars

\* The server runs (its interval handler keeps starting passes), the chain
\* mines what pays the base fee, and time passes.
FairSpec == /\ Spec
            /\ WF_vars(Pass) /\ WF_vars(TimeOut)
            /\ \A s \in Signers : WF_vars(Mine(s)) /\ WF_vars(Deepen(s))

-----------------------------------------------------------------------------
(* Properties.                                                             *)

Mined == UNION {{chain[s][i].tx : i \in DOMAIN chain[s]} : s \in Signers}

\* No two calls ever share a nonce, in the store, the node or the chain, not
\* even across a restart that forgets nonces (nonceMutex, pollNonce and the
\* unique index of TxStoreManager).
OneCallPerNonce ==
    LET known == Mined \cup mempool \cup {e.tx : e \in store} IN
    \A t, u \in known : Key(t) = Key(u) => t.call = u.call

\* What is pending in the node is in the store, so that it can be boosted.
PendingIsStored == MempoolKeys \subseteq StoredKeys

\* The worker never meets 'Boosting: missing nonce': a throw would end every
\* pass at the same place and keep the server not ready for good.
BoostFindsNonce == worker.at = "load" => ~MissingNonce

\* An entry leaves the store only when its call is deep in the chain.
ArchivedOnlyMinedStep ==
    \A e \in store : Key(e.tx) \notin {Key(f.tx) : f \in store'} =>
          /\ e.tx.nonce < MinedCount(e.tx.signer)
          /\ DepthOf(e.tx) >= Old

\* The transaction everything else waits for is never resent for less, even
\* when it is mined while the pass is at work.
OldestNeverCheaperStep ==
    StoreAttempt /\ "oldest" \in DOMAIN worker => LET old == NextToResend.tx IN
             \A e \in store' : Key(e.tx) = Key(old) => e.tx.fee >= old.fee /\ e.tx.tip >= old.tip

\* No two calls ever share a nonce, in the store, the node or the chain, not even
\* across a restart that forgets them; what is pending in the node is in the store,
\* so that it can be boosted; and the worker never meets 'Boosting: missing nonce'
\* (sendTransaction, boostUnderpricedPendingTransactionsForSigner).
NoncesSafe == TypeOK /\ OneCallPerNonce /\ PendingIsStored /\ BoostFindsNonce

\* An entry leaves the store only when its call is deep in the chain, and the
\* transaction everything else waits for is never resent for less, even when it is
\* mined while the pass is at work (removeArchivedTransactions, _resolveNewGasPrice).
TransactionsKept == [][ArchivedOnlyMinedStep /\ OldestNeverCheaperStep]_vars
=============================================================================
