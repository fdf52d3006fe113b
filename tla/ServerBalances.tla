---------------------------- MODULE ServerBalances ----------------------------
(***************************************************************************)
(* The balances of a registered relay server: the manager pays for the     *)
(* worker, the RelayHub's deposit refills the manager, the owner takes the *)
(* surplus.  The worker's pass and the HTTP requests share the balances    *)
(* the server remembers, the store of its transactions and its readiness;  *)
(* each await is a step.                                                   *)
(*                                                                         *)
(* Amounts are in units that make the manager's own fees negligible.       *)
(***************************************************************************)
EXTENDS Counting, Sequences

CONSTANTS ManagerMin, ManagerTarget, WorkerMin, WorkerTarget,
          Surplus,          \* withdrawToOwnerOnBalance
          RelayCost,        \* what a relayed call costs the worker and earns in the hub
          HttpRequests,     \* HTTP requests
          Starts,           \* first balances
          Overlap,          \* requests run during a pass
          MaxCallFailures, MaxSent  \* bounds

ASSUME BalancesAssumption ==
    /\ {ManagerMin, ManagerTarget, WorkerMin, WorkerTarget, Surplus, RelayCost,
        MaxCallFailures, MaxSent} \subseteq Nat
    /\ ManagerMin <= ManagerTarget /\ WorkerMin <= WorkerTarget
    /\ Surplus > ManagerTarget + WorkerTarget
    /\ Starts \subseteq [manager : Nat, worker : Nat, hub : Nat]
    /\ Overlap \in BOOLEAN /\ "loop" \notin HttpRequests

VARIABLES balanceChain,  \* the balances on chain
          balanceSent,   \* the manager's pending transactions, by nonce
          relays,        \* the worker's pending relayed calls
          recent,        \* kinds of transactions mined a short while ago: "new", or
                         \* "old" once a pass has begun since
          cached,        \* what the server remembers of the balances
          refresh,       \* shouldRefreshBalances
          balanceReady,
          proc,          \* the pass and the requests
          balanceFailures

balanceVars == <<balanceChain, balanceSent, relays, recent, cached, refresh, balanceReady, proc,
                 balanceFailures>>

Procs == {"loop"} \cup HttpRequests
SentKinds == {"withdraw", "toOwner", "refill"}
IdleProc == [at |-> "idle", eth |-> 0, hub |-> 0, worker |-> 0, refilling |-> FALSE,
             amount |-> 0, last |-> FALSE]

ProcState == [at : {"idle", "done", "toOwner", "manager", "worker", "low", "register", "hub",
                    "decide", "withdraw", "eth", "refill"},
              eth : Nat, hub : Nat, worker : Nat, refilling : BOOLEAN, amount : Nat, last : BOOLEAN]

BalancesTypeOK ==
    /\ balanceChain \in [manager : Nat, worker : Nat, hub : Nat]
    /\ balanceSent \in Seq([kind : SentKinds, amount : Nat]) /\ Len(balanceSent) <= MaxSent
    /\ relays \in Nat /\ recent \in [SentKinds -> {"no", "new", "old"}]
    /\ cached \in [manager : Nat, worker : Nat]
    /\ refresh \in BOOLEAN /\ balanceReady \in BOOLEAN
    /\ proc \in [Procs -> ProcState]

BalancesInit ==
    /\ balanceChain \in Starts
    /\ balanceSent = <<>> /\ relays = 0 /\ recent = [kind \in SentKinds |-> "no"]
    /\ cached = [manager |-> 0, worker |-> 0]
    /\ refresh = TRUE /\ balanceReady = FALSE
    /\ proc = [p \in Procs |-> IdleProc]
    /\ balanceFailures = 0

GoTo(p, place) == proc' = [proc EXCEPT ![p].at = place]

\* Requests and passes overlap, or each waits for the other to end.
Free(p) == Overlap \/ \A q \in Procs \ {p} : proc[q].at \in {"idle", "done"}

-----------------------------------------------------------------------------
(* The chain.                                                              *)

\* What the pending transactions of a kind add up to.
PendingTotal(kind) ==
    Total([i \in DOMAIN balanceSent |-> IF balanceSent[i].kind = kind THEN balanceSent[i].amount ELSE 0],
          DOMAIN balanceSent)

\* getWorkerBalance asks for the pending block.
PendingWorker == balanceChain.worker + PendingTotal("refill") - relays * RelayCost

\* The manager's next transaction; a withdrawal of more than there is reverts
\* and a transfer of more than there is waits.
MineNext ==
    /\ balanceSent # <<>>
    /\ LET tx == Head(balanceSent) IN
       /\ \/ /\ tx.kind = "refill" /\ tx.amount <= balanceChain.manager
             /\ balanceChain' = [balanceChain EXCEPT !.manager = @ - tx.amount, !.worker = @ + tx.amount]
          \/ /\ tx.kind = "withdraw" /\ tx.amount <= balanceChain.hub
             /\ balanceChain' = [balanceChain EXCEPT !.hub = @ - tx.amount, !.manager = @ + tx.amount]
          \/ /\ tx.kind = "toOwner" /\ tx.amount <= balanceChain.hub
             /\ balanceChain' = [balanceChain EXCEPT !.hub = @ - tx.amount]
          \/ /\ tx.kind # "refill" /\ tx.amount > balanceChain.hub
             /\ UNCHANGED balanceChain
       /\ recent' = [recent EXCEPT ![tx.kind] = "new"]
    /\ balanceSent' = Tail(balanceSent)
    /\ UNCHANGED <<relays, cached, refresh, balanceReady, proc, balanceFailures>>

MineRelay ==
    /\ relays > 0
    /\ relays' = relays - 1
    /\ balanceChain' = [balanceChain EXCEPT !.worker = @ - RelayCost, !.hub = @ + RelayCost]
    /\ UNCHANGED <<balanceSent, recent, cached, refresh, balanceReady, proc, balanceFailures>>

\* recentActionAvoidRepeatDistanceBlocks (10) after a transaction was mined it
\* is not recent any more; a pass runs every refreshStateTimeoutBlocks (5).
ForgetSent(kind) ==
    /\ recent[kind] = "old" /\ proc["loop"].at = "idle"
    /\ recent' = [recent EXCEPT ![kind] = "no"]
    /\ UNCHANGED <<balanceChain, balanceSent, relays, cached, refresh, balanceReady, proc,
                   balanceFailures>>

PendingOrRecent(kinds) ==
    \E kind \in kinds : recent[kind] # "no" \/ \E i \in DOMAIN balanceSent : balanceSent[i].kind = kind

\* sendTransaction; its broadcast asks for the balances to be refreshed.
SendTransaction(kind, amount) ==
    /\ Len(balanceSent) < MaxSent
    /\ balanceSent' = Append(balanceSent, [kind |-> kind, amount |-> amount])
    /\ refresh' = TRUE

\* Whatever is awaited may throw.  The pass catches it and the server is not
\* ready; a request is answered with the error.
Fail(p) ==
    /\ proc[p].at \in {"toOwner", "manager", "worker", "register", "hub", "withdraw", "eth", "refill"}
    /\ balanceFailures < MaxCallFailures
    /\ balanceFailures' = balanceFailures + 1
    /\ \/ p = "loop" /\ proc[p].at = "toOwner" /\ GoTo(p, "manager") /\ UNCHANGED balanceReady
       \/ p = "loop" /\ proc[p].at # "toOwner" /\ GoTo(p, "idle") /\ balanceReady' = FALSE
       \/ p # "loop" /\ GoTo(p, "done") /\ UNCHANGED balanceReady
    /\ UNCHANGED <<balanceChain, balanceSent, relays, recent, cached, refresh>>

-----------------------------------------------------------------------------
(* A pass up to the replenishment.                                         *)

BeginBalancePass ==
    /\ proc["loop"].at = "idle" /\ Free("loop")
    /\ proc' = [proc EXCEPT !["loop"] = [IdleProc EXCEPT !.at = "toOwner"]]
    /\ recent' = [kind \in SentKinds |-> IF recent[kind] = "new" THEN "old" ELSE recent[kind]]
    /\ UNCHANGED <<balanceChain, balanceSent, relays, cached, refresh, balanceReady, balanceFailures>>

\* withdrawToOwnerIfNeeded.
Reserve == ManagerTarget + WorkerTarget
WithdrawToOwner ==
    /\ proc["loop"].at = "toOwner"
    /\ GoTo("loop", "manager")
    /\ \/ /\ balanceReady /\ balanceChain.hub >= Surplus + Reserve
          /\ SendTransaction("toOwner", balanceChain.hub - Reserve)
       \/ /\ ~(balanceReady /\ balanceChain.hub >= Surplus + Reserve)
          /\ UNCHANGED <<balanceSent, refresh>>
    /\ UNCHANGED <<balanceChain, relays, recent, cached, balanceReady, balanceFailures>>

\* What follows a refresh: the rest of the pass, or its end.
AfterRefresh(managerReady) ==
    IF proc["loop"].last THEN "idle" ELSE IF managerReady THEN "register" ELSE "idle"

\* refreshBalance, if the balances have to be refreshed.
RefreshManager ==
    /\ proc["loop"].at = "manager"
    /\ \/ /\ refresh
          /\ cached' = [cached EXCEPT !.manager = balanceChain.manager]
          /\ GoTo("loop", "worker")
          /\ UNCHANGED balanceReady
       \/ /\ ~refresh
          /\ GoTo("loop", AfterRefresh(TRUE))
          /\ balanceReady' = (balanceReady \/ proc["loop"].last)
          /\ UNCHANGED cached
    /\ UNCHANGED <<balanceChain, balanceSent, relays, recent, refresh, balanceFailures>>

RefreshWorker ==
    /\ proc["loop"].at = "worker"
    /\ proc' = [proc EXCEPT !["loop"].at = "low", !["loop"].worker = PendingWorker]
    /\ UNCHANGED <<balanceChain, balanceSent, relays, recent, cached, refresh, balanceReady,
                   balanceFailures>>

\* Faulty: the balances are not looked at again before the next transaction.
StillLowNever(worker) == FALSE

\* A balance below its minimum is looked at again in the next pass.
StillLow(worker) == cached.manager < ManagerMin \/ worker < WorkerMin

\* The last refresh of a pass is followed by setReadyState(true).
CheckBalances ==
    /\ proc["loop"].at = "low"
    /\ cached' = [cached EXCEPT !.worker = proc["loop"].worker]
    /\ refresh' = StillLow(proc["loop"].worker)
    /\ LET managerReady == cached.manager >= ManagerMin \div 2
           workerReady == proc["loop"].worker >= WorkerMin \div 2 IN
       /\ balanceReady' = (proc["loop"].last \/ (balanceReady /\ managerReady /\ workerReady))
       /\ GoTo("loop", AfterRefresh(managerReady))
    /\ UNCHANGED <<balanceChain, balanceSent, relays, recent, balanceFailures>>

\* The registration was handled and is in order.
Registered ==
    /\ proc["loop"].at = "register"
    /\ proc' = [proc EXCEPT !["loop"].at = "hub", !["loop"].last = TRUE]
    /\ UNCHANGED <<balanceChain, balanceSent, relays, recent, cached, refresh, balanceReady,
                   balanceFailures>>

-----------------------------------------------------------------------------
(* replenishServer.                                                        *)

\* The remembered balance of the manager, the hub's deposit, and then whether
\* either transaction is pending.
ReadHub(p) ==
    /\ proc[p].at = "hub"
    /\ proc' = [proc EXCEPT ![p].at = "decide", ![p].eth = cached.manager, ![p].hub = balanceChain.hub]
    /\ UNCHANGED <<balanceChain, balanceSent, relays, recent, cached, refresh, balanceReady,
                   balanceFailures>>

\* Faulty: a refill under way is not looked for.
MustRefillAgain == cached.worker < WorkerMin

MustRefill == cached.worker < WorkerMin /\ ~PendingOrRecent({"refill"})

MustReplenishManager(p) == ManagerMin > proc[p].eth /\ ~PendingOrRecent({"withdraw", "toOwner"})

RefillAmount == WorkerTarget - cached.worker

\* mustWithdrawHubDeposit.
MustWithdraw(p) ==
    LET eth == proc[p].eth
        hub == proc[p].hub IN
    \/ MustReplenishManager(p) /\ hub >= ManagerTarget - eth
    \/ MustRefill /\ eth - ManagerMin < RefillAmount /\ hub + eth - ManagerMin >= RefillAmount

\* Where a process goes when it has nothing more to send.
Replenished(p) == IF p = "loop" THEN "manager" ELSE "done"

Decide(p) ==
    /\ proc[p].at = "decide"
    /\ proc' = [proc EXCEPT ![p].refilling = MustRefill,
                            ![p].amount = IF MustRefill THEN RefillAmount ELSE 0,
                            ![p].at = IF MustWithdraw(p) THEN "withdraw"
                                      ELSE IF MustRefill THEN "refill" ELSE Replenished(p)]
    /\ UNCHANGED <<balanceChain, balanceSent, relays, recent, cached, refresh, balanceReady,
                   balanceFailures>>

\* _withdrawHubDeposit: all of it.
WithdrawHubDeposit(p) ==
    /\ proc[p].at = "withdraw"
    /\ SendTransaction("withdraw", proc[p].hub)
    /\ GoTo(p, "eth")
    /\ UNCHANGED <<balanceChain, relays, recent, cached, balanceReady, balanceFailures>>

\* refreshBalance: the withdrawal may have been mined, or not yet.
RefreshEth(p) ==
    /\ proc[p].at = "eth"
    /\ cached' = [cached EXCEPT !.manager = balanceChain.manager]
    /\ proc' = [proc EXCEPT ![p].eth = balanceChain.manager,
                            ![p].at = IF proc[p].refilling THEN "refill" ELSE Replenished(p)]
    /\ UNCHANGED <<balanceChain, balanceSent, relays, recent, refresh, balanceReady, balanceFailures>>

\* Faulty: the manager's minimum is not kept.
EnoughForRefillAtAll(p) == proc[p].amount <= proc[p].eth

EnoughForRefill(p) == proc[p].amount < proc[p].eth - ManagerMin

\* _replenishWorker, or an error in the log.
ReplenishWorker(p) ==
    /\ proc[p].at = "refill"
    /\ GoTo(p, Replenished(p))
    /\ \/ EnoughForRefill(p) /\ SendTransaction("refill", proc[p].amount)
       \/ ~EnoughForRefill(p) /\ UNCHANGED <<balanceSent, refresh>>
    /\ UNCHANGED <<balanceChain, relays, recent, cached, balanceReady, balanceFailures>>

-----------------------------------------------------------------------------
(* A request: createRelayTransaction after its validation.                 *)

\* Faulty: the broadcast of a relayed call does not ask for a refresh.
RelayQuietly(p) ==
    /\ proc[p].at = "idle" /\ p # "loop" /\ Free(p)
    /\ balanceReady /\ balanceChain.worker >= RelayCost * (relays + 1)
    /\ relays' = relays + 1
    /\ GoTo(p, "hub")
    /\ UNCHANGED <<balanceChain, balanceSent, recent, cached, refresh, balanceReady, balanceFailures>>

Relay(p) ==
    /\ proc[p].at = "idle" /\ p # "loop" /\ Free(p)
    /\ balanceReady /\ balanceChain.worker >= RelayCost * (relays + 1)
    /\ relays' = relays + 1
    /\ refresh' = TRUE
    /\ GoTo(p, "hub")
    /\ UNCHANGED <<balanceChain, balanceSent, recent, cached, balanceReady, balanceFailures>>

Replenish(p) == ReadHub(p) \/ Decide(p) \/ WithdrawHubDeposit(p) \/ RefreshEth(p) \/ ReplenishWorker(p)

Loop ==
    \/ BeginBalancePass \/ WithdrawToOwner \/ RefreshManager \/ RefreshWorker
    \/ CheckBalances \/ Registered \/ Replenish("loop")

BalancesNext ==
    \/ Loop
    \/ \E p \in HttpRequests : Relay(p) \/ Replenish(p)
    \/ \E p \in Procs : Fail(p)
    \/ MineNext \/ MineRelay \/ \E kind \in SentKinds : ForgetSent(kind)

BalancesSpec == BalancesInit /\ [][BalancesNext]_balanceVars

\* The interval handler starts pass after pass, requests go on once started,
\* transactions are mined and forgotten.
FairBalances ==
    /\ BalancesSpec /\ WF_balanceVars(Loop) /\ WF_balanceVars(MineNext) /\ WF_balanceVars(MineRelay)
    /\ \A p \in HttpRequests : WF_balanceVars(Replenish(p))
    /\ \A kind \in SentKinds : WF_balanceVars(ForgetSent(kind))

-----------------------------------------------------------------------------
(* Properties.                                                             *)

Sends(kind) == Len(balanceSent') > Len(balanceSent) /\ balanceSent'[Len(balanceSent')].kind = kind

\* "server should not repeat its actions": no refill while one is pending or
\* was mined recently.
NoRepeatedRefillStep == Sends("refill") => ~PendingOrRecent({"refill"})

\* A refill leaves the manager its minimum.
ManagerKeepsMinimumStep ==
    balanceChain'.worker > balanceChain.worker => balanceChain'.manager >= ManagerMin

\* Between passes and requests the server knows the worker's balance or knows
\* that it has to look.
StaleIsFlagged ==
    (\A p \in Procs : proc[p].at \in {"idle", "done"}) /\ ~refresh => cached.worker = PendingWorker

\* A worker short of its minimum, while the manager and the hub together can pay for it.
Refillable == /\ balanceChain.worker < WorkerMin /\ balanceSent = <<>>
              /\ balanceChain.manager + balanceChain.hub - ManagerMin > WorkerTarget - balanceChain.worker
=============================================================================
