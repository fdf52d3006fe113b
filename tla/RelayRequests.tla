---------------------------- MODULE RelayRequests ----------------------------
(***************************************************************************)
(* One relayed call from the client's request to the client's verdict on   *)
(* the server's answer.  The server checks each request against the state  *)
(* of its worker's nonce, of the fees and of the paymaster, asks the node  *)
(* whether the call would be paid for, sends it, and returns it with every *)
(* transaction since the nonce the client knew.  The client accepts the    *)
(* answer only if the nonces add up.                                       *)
(*                                                                         *)
(* Each await is a step; requests are handled at the same time.  Requests  *)
(* of the same content (one that was sent twice) are executed once.        *)
(***************************************************************************)
EXTENDS Integers, Sequences, FiniteSets

CONSTANTS Requests,
          Content,          \* what a request asks for
          MaxRelayNonceGap, \* the client's maxRelayNonceGap
          Lag,              \* how many transactions the client's node may lag behind
          Kept,             \* how many mined transactions the server's store keeps at least
          Deposit,          \* the calls the paymaster can pay for
          Serial,           \* requests are handled one by one
          FeeLevels,        \* fees per gas
          MaxChanges        \* bound on changes of readiness and fees

\* The store keeps what the client's node may not know yet.
RequestsAssumption ==
    /\ IsFiniteSet(Requests) /\ DOMAIN Content = Requests /\ Lag <= Kept
    /\ {MaxRelayNonceGap, Lag, Kept, Deposit, MaxChanges} \subseteq Nat
    /\ FeeLevels \subseteq Nat /\ FeeLevels # {} /\ Serial \in BOOLEAN

VARIABLES call,     \* the requests
          sent,     \* the worker's transactions, by nonce: the request of each
          mined,    \* how many of them are mined
          pruned,   \* how many of them the store has removed
          paid,     \* the requests executed and paid by the paymaster
          ready, alerted,
          minFee,   \* minMaxFeePerGas
          changes

requestVars == <<call, sent, mined, pruned, paid, ready, alerted, minFee, changes>>

Answers == {"none", "refused", "accepted", "rejected"}

\* Where a request is: with the client, or in one of the server's awaits.
Waiting == {"idle", "prepared", "done"}
Checking == {"delayed", "validate", "nonce", "limits", "view", "send"}
Sent == {"gap", "reply"}

CallRecords == [at : Waiting \cup Checking \cup Sent, lastKnown : Nat, maxNonce : Nat, fee : Nat,
          nonce : Nat \cup {-1}, gap : SUBSET Nat, answer : Answers]

RequestsTypeOK ==
    /\ sent \in Seq(Requests) /\ Len(sent) <= Cardinality(Requests)
    /\ {pruned, mined} \subseteq Nat /\ pruned <= mined /\ mined <= Len(sent)
    /\ paid \subseteq Requests /\ Cardinality(paid) <= Deposit
    /\ minFee \in FeeLevels /\ ready \in BOOLEAN /\ alerted \in BOOLEAN /\ changes \in 0..MaxChanges
    /\ call \in [Requests -> CallRecords]
    /\ \A r \in Requests : call[r].nonce < Len(sent)

Fresh == [at |-> "idle", lastKnown |-> 0, maxNonce |-> 0, fee |-> 0, nonce |-> -1, gap |-> {}, answer |-> "none"]

RequestsInit ==
    /\ call = [r \in Requests |-> Fresh]
    /\ sent = <<>> /\ mined = 0 /\ pruned = 0 /\ paid = {}
    /\ ready = TRUE /\ alerted = FALSE /\ minFee \in FeeLevels /\ changes = 0

onChain == <<sent, mined, pruned, paid>>
serverState == <<ready, alerted, minFee, changes>>

Go(r, at) == call' = [call EXCEPT ![r].at = at]
RefuseCall(r) == call' = [call EXCEPT ![r].at = "done", ![r].answer = "refused"]

-----------------------------------------------------------------------------
(* The chain: a call is paid for when its content was not executed yet and *)
(* the paymaster has the money.                                            *)

Pays(r, already) == /\ \A other \in already : Content[other] # Content[r]
                    /\ Cardinality(already) < Deposit

MineCall ==
    /\ mined < Len(sent)
    /\ mined' = mined + 1
    /\ paid' = IF Pays(sent[mined + 1], paid) THEN paid \cup {sent[mined + 1]} ELSE paid
    /\ UNCHANGED <<call, sent, pruned, serverState>>

\* What would be paid for in the pending block, after the transactions up to n.
PendingPaid ==
    LET after[n \in mined..Len(sent)] ==
            IF n = mined THEN paid
            ELSE IF Pays(sent[n], after[n - 1]) THEN after[n - 1] \cup {sent[n]} ELSE after[n - 1]
    IN  after[Len(sent)]

\* removeArchivedTransactions: dbPruneTxAfterBlocks and dbPruneTxAfterSeconds
\* after they were mined, longer than a request takes.
Prune ==
    /\ pruned + Kept < mined
    /\ \A r \in Requests : call[r].at \notin {"idle", "done"} => pruned < call[r].lastKnown
    /\ pruned' = pruned + 1
    /\ UNCHANGED <<call, sent, mined, paid, serverState>>

-----------------------------------------------------------------------------
(* The client's request.                                                   *)

\* _prepareRelayHttpRequest: the worker's nonce, from a node that may lag.
Prepare(r) ==
    /\ call[r].at = "idle"
    /\ \E lag \in 0..Lag, fee \in FeeLevels :
         /\ lag <= mined
         /\ call' = [call EXCEPT ![r] = [Fresh EXCEPT !.at = "prepared", !.lastKnown = mined - lag, !.fee = fee,
                                                      !.maxNonce = mined - lag + MaxRelayNonceGap]]
    /\ UNCHANGED <<onChain, serverState>>

-----------------------------------------------------------------------------
(* createRelayTransaction.                                                 *)

Quiet(r) == Serial => \A other \in Requests \ {r} : call[other].at \in Waiting

\* An alerted server waits before it goes on.
Start(r) ==
    /\ call[r].at = "prepared" /\ Quiet(r)
    /\ \/ ~ready /\ RefuseCall(r)
       \/ ready /\ Go(r, IF alerted THEN "delayed" ELSE "validate")
    /\ UNCHANGED <<onChain, serverState>>

Delayed(r) ==
    /\ call[r].at = "delayed"
    /\ Go(r, "validate")
    /\ UNCHANGED <<onChain, serverState>>

\* validateGasFees.  The other checks of validateInput do not depend on what
\* the server does; a request that fails them is not sent.
ValidateInput(r) ==
    /\ call[r].at = "validate"
    /\ \/ call[r].fee < minFee /\ RefuseCall(r)
       \/ call[r].fee >= minFee /\ Go(r, "nonce")
    /\ UNCHANGED <<onChain, serverState>>

\* validateMaxNonce: the nonce the next transaction would have now.
ValidateMaxNonce(r) ==
    /\ call[r].at = "nonce"
    /\ \/ Len(sent) > call[r].maxNonce /\ RefuseCall(r)
       \/ Len(sent) <= call[r].maxNonce /\ Go(r, "limits")
    /\ UNCHANGED <<onChain, serverState>>

\* calculateAndValidatePaymasterGasAndDataLimits: the latest balance pays.
ValidateLimits(r) ==
    /\ call[r].at = "limits"
    /\ \/ Cardinality(paid) >= Deposit /\ RefuseCall(r)
       \/ Cardinality(paid) < Deposit /\ Go(r, "view")
    /\ UNCHANGED <<onChain, serverState>>

\* Faulty: the latest block decides.
SeesLatest == paid
Sees == PendingPaid

\* validateViewCallSucceeds, on the pending block.
ValidateViewCall(r) ==
    /\ call[r].at = "view"
    /\ \/ ~Pays(r, Sees) /\ RefuseCall(r)
       \/ Pays(r, Sees) /\ Go(r, "send")
    /\ UNCHANGED <<onChain, serverState>>

\* sendTransaction: the next nonce.
SendCall(r) ==
    /\ call[r].at = "send"
    /\ call' = [call EXCEPT ![r].at = "gap", ![r].nonce = Len(sent)]
    /\ sent' = Append(sent, r)
    /\ UNCHANGED <<mined, pruned, paid, serverState>>

\* Faulty: the transaction itself is one of the gap.
NonceGapInclusive(fromNonce, toNonce) ==
    {n \in pruned..Len(sent) - 1 : fromNonce <= n /\ n <= toNonce + 1}

\* getNonceGapFilled: the stored transactions, by their nonces.
NonceGapFilled(fromNonce, toNonce) ==
    {n \in pruned..Len(sent) - 1 : fromNonce <= n /\ n <= toNonce}

\* The answer is made, unless the replenishment of the worker that follows
\* throws: then it is an error, though the transaction was sent.
GetNonceGap(r) ==
    /\ call[r].at = "gap"
    /\ \/ RefuseCall(r)
       \/ call' = [call EXCEPT ![r].at = "reply", ![r].gap = NonceGapFilled(call[r].lastKnown, call[r].nonce - 1)]
    /\ UNCHANGED <<onChain, serverState>>

-----------------------------------------------------------------------------
(* The client's verdict: validateRelayResponse.                            *)

IsNonceGapFilledSizeValid(r) == Cardinality(call[r].gap) = call[r].nonce - call[r].lastKnown
IsTransactionNonceValid(r) == call[r].nonce <= call[r].maxNonce

\* Each transaction in the gap has the nonce after the one before.
IsNonceGapFilled(r) ==
    call[r].gap = call[r].lastKnown..(call[r].lastKnown + Cardinality(call[r].gap) - 1)

IsTransactionValid(r) == IsNonceGapFilledSizeValid(r) /\ IsTransactionNonceValid(r) /\ IsNonceGapFilled(r)

Reply(r) ==
    /\ call[r].at = "reply"
    /\ call' = [call EXCEPT ![r].at = "done", ![r].answer = IF IsTransactionValid(r) THEN "accepted" ELSE "rejected"]
    /\ UNCHANGED <<onChain, serverState>>

-----------------------------------------------------------------------------
(* What else the server does meanwhile.                                    *)

\* A pass finds that the server is ready or not, is alerted or not, or that
\* the network's fees changed.
Change ==
    /\ changes < MaxChanges
    /\ changes' = changes + 1
    /\ \/ ready' = ~ready /\ UNCHANGED <<alerted, minFee>>
       \/ alerted' = ~alerted /\ UNCHANGED <<ready, minFee>>
       \/ minFee' \in FeeLevels \ {minFee} /\ UNCHANGED <<ready, alerted>>
    /\ UNCHANGED <<call, onChain>>

CreateRelayTransaction(r) ==
    \/ Start(r) \/ Delayed(r) \/ ValidateInput(r) \/ ValidateMaxNonce(r) \/ ValidateLimits(r)
    \/ ValidateViewCall(r) \/ SendCall(r) \/ GetNonceGap(r)

RequestsNext == MineCall \/ Prune \/ Change \/ \E r \in Requests : Prepare(r) \/ CreateRelayTransaction(r) \/ Reply(r)

RequestsSpec == RequestsInit /\ [][RequestsNext]_requestVars

\* The worker's transactions are mined; requests and their answers are handled.
FairRequests ==
    /\ RequestsSpec /\ WF_requestVars(MineCall)
    /\ \A r \in Requests : WF_requestVars(Prepare(r) \/ CreateRelayTransaction(r) \/ Reply(r))

-----------------------------------------------------------------------------
(* Properties.                                                             *)

\* The worker is paid for every call it sends ("to see if we'll get paid for
\* relaying this tx").
PaidFor == \A i \in 1..mined : sent[i] \in paid

\* The client accepts what an honest server answers.
AnswerAccepted == \A r \in Requests : call[r].answer # "rejected"

\* Requests in progress never use up the gap of nonces that clients accept.
GapSuffices == Serial \/ Cardinality(Requests) <= MaxRelayNonceGap + 1

\* A server that handles requests one by one is paid for every call it sends, and the
\* client accepts what an honest server answers when the requests between do not use up
\* maxRelayNonceGap (createRelayTransaction, validateRelayResponse).
CallsSound == RequestsTypeOK /\ (Serial => PaidFor) /\ (GapSuffices => AnswerAccepted)

\* The client accepted the answer, and the request was not executed.
AcceptedWaits == \E r \in Requests :
    call[r].answer = "accepted" /\ \A s \in paid : Content[s] # Content[r]
=============================================================================
