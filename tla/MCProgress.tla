----------------------------- MODULE MCProgress -----------------------------
(* What must happen in the end, for the components side by side: a behaviour
   is one of one component.  The trimming of names is extended, and has its
   constants in the configuration; the others have theirs here. *)
EXTENDS NameTrim, FiniteSets, TLC

CONSTANTS worker1, c1, c2

MCLetters == {"a", "A"}

\* Worker and manager full, short or empty; even amounts never meet the odd minimum of
\* the manager exactly.
EvenStarts == [manager : {0, 4, 10}, worker : {0, 2}, hub : {0, 10}]

\* Three relays; the second and third may advertise the same URL, and the first
\* may be alone.
ThreeServers == ("u1" :> "m1") @@ ("u2" :> "m2") @@ ("u3" :> "m3")
Info(u, m) == [url |-> u, manager |-> m]
ThreeRelays == {{Info("u1", "m1"), Info("u2", "m2"), Info("u3", "m3")},
                {Info("u1", "m1"), Info("u2", "m2"), Info("u2", "m3")},
                {Info("u1", "m1")}}

\* Three requests, of which two are the same.
Twice == ("a" :> "x") @@ ("b" :> "x") @@ ("c" :> "y")

\* Two transactions of one nonce.
Tx(c) == [nonce |-> 0, content |-> c, fee |-> 1, legal |-> TRUE]
RepeatedNonce == {{Tx("c"), Tx("d")}}

VARIABLES component,   \* the one this behaviour is of
          nonces, mutex, txPc, signed, store, mempool, chain, worker, faults,   \* TransactionManager
          logged, lastBlockNumber, queryAt, range, pages, nextPage, pagesCurrent, attempts,
          parts, pageFailures, queries,   \* LogPages
          regChain, log, regNow, txs, mem, regScanned, regReady, regAt, regPass, regTodo,
          sends, regFaults, ownerCalls,   \* Registration
          balanceChain, balanceSent, relays, recent, cached, refresh, balanceReady, proc,
          balanceFailures,   \* ServerBalances
          known, relayFailures, call, nonce, relaySigned, executed,   \* RelayClient
          requestCall, requestSent, mined, pruned, paid, requestReady, alerted, minFee,
          changes,   \* RelayRequests
          workerTxs, minedTxs, initialized, audit, pens, scheduled, penaltyKnown,
          penaltyPass, commitsSent, left, reveals, waiting, slashed, penaltyFailures,
          restarts,   \* Penalizer
          stake, delay, owned, authorized, balance, tokens, allowance, commandReady,
          command, runs, funded, spent, commandFailures, asked,   \* OwnerCommands
          env, made, server, lifeNow, readyFor   \* ServerLifecycle

txVars == <<nonces, mutex, txPc, signed, store, mempool, chain, worker, faults>>
pageVars == <<logged, lastBlockNumber, queryAt, range, pages, nextPage, pagesCurrent, attempts,
              parts, pageFailures, queries>>
regVars == <<regChain, log, regNow, txs, mem, regScanned, regReady, regAt, regPass, regTodo,
             sends, regFaults, ownerCalls>>
balanceVars == <<balanceChain, balanceSent, relays, recent, cached, refresh, balanceReady, proc,
                 balanceFailures>>
relayVars == <<known, relayFailures, call, nonce, relaySigned, executed>>
requestVars == <<requestCall, requestSent, mined, pruned, paid, requestReady, alerted,
                 minFee, changes>>
penaltyVars == <<workerTxs, minedTxs, initialized, audit, pens, scheduled,
                 penaltyKnown, penaltyPass, commitsSent, left, reveals, waiting, slashed,
                 penaltyFailures, restarts>>
commandVars == <<stake, delay, owned, authorized, balance, tokens, allowance,
                 commandReady, command, runs, funded, spent, commandFailures, asked>>
lifeVars == <<env, made, server, lifeNow, readyFor>>
allVars == <<component, vars, txVars, pageVars, regVars, balanceVars, relayVars, requestVars,
              penaltyVars, commandVars, lifeVars>>

Boost == INSTANCE TransactionManager WITH
    Signers <- {worker1}, SignerOrder <- <<worker1>>, Calls <- {c1, c2},
    SignerOf <- [c \in {c1, c2} |-> worker1], Offers <- {<<1, 1>>}, Minima <- {<<1, 1>>},
    MaxMaxFeePerGas <- 2, BaseFee <- 2, MaxCrashes <- 0, MaxDrops <- 1, MaxFailures <- 0,
    MaxReorgs <- 0, MaxOrphanAge <- 0, pc <- txPc
Pages == INSTANCE LogPages WITH
    MaxBlock <- 4, MaxPerBlock <- 2, MaxPageSize <- 0, MaxPageCount <- 3, NodeLimit <- 1,
    MaxAttempts <- 2, MaxBlockAttempts <- 2, MaxSplit <- 4, MaxPageFailures <- 1,
    MaxQueries <- 1
Register == INSTANCE Registration WITH
    UnstakeDelay <- 1, ScanBack <- 1, MaxServerCrashes <- 0, MaxSendFailures <- 0,
    PromptServer <- TRUE, MaxOwnerCalls <- 2, MaxRegTime <- 0, StartsRegistered <- FALSE
Removal == INSTANCE Registration WITH
    UnstakeDelay <- 1, ScanBack <- 1, MaxServerCrashes <- 0, MaxSendFailures <- 0,
    PromptServer <- TRUE, MaxOwnerCalls <- 2, MaxRegTime <- 2, StartsRegistered <- TRUE
Balances == INSTANCE ServerBalances WITH
    ManagerMin <- 1, ManagerTarget <- 4, WorkerMin <- 4, WorkerTarget <- 6,
    Surplus <- 1000, RelayCost <- 2, HttpRequests <- {"r1"}, Starts <- EvenStarts,
    Overlap <- FALSE, MaxCallFailures <- 0, MaxSent <- 4
Relays == INSTANCE RelayClient WITH
    Urls <- {"u1", "u2", "u3"}, Managers <- {"m1", "m2", "m3"}, Registrar <- ThreeRelays,
    ServerOf <- ThreeServers, Preferred <- <<"u2">>, SliceSize <- 2, Requests <- {"a"},
    failures <- relayFailures, signed <- relaySigned
Serial == INSTANCE RelayRequests WITH
    Requests <- {"a", "b", "c"}, Content <- Twice, MaxRelayNonceGap <- 2, Lag <- 1,
    Kept <- 1, Deposit <- 1, Serial <- TRUE, FeeLevels <- {1}, MaxChanges <- 1,
    call <- requestCall, sent <- requestSent, ready <- requestReady
Penalties == INSTANCE Penalizer WITH
    Audits <- {"a1", "a2"}, Intervals <- {"p1"}, Histories <- RepeatedNonce,
    Explorer <- TRUE, Delay <- 1, Expiration <- 4, Prompt <- TRUE,
    MaxBroadcastFailures <- 0, MaxRestarts <- 0, known <- penaltyKnown,
    pass <- penaltyPass, failures <- penaltyFailures
Command == INSTANCE OwnerCommands WITH
    Commands <- {"c1"},
    Askable <- {[stake |-> 2, delay |-> 1, funds |-> 3, wrap |-> TRUE, owner |-> TRUE]},
    MinimumStake <- 2, MinimumDelay <- 1, MaxRuns <- 4, MaxFailures <- 3,
    ready <- commandReady, stepFailures <- commandFailures
Lifecycle == INSTANCE ServerLifecycle WITH
    MaxStarts <- 2, MaxTime <- 2, Timeout <- 2, now <- lifeNow

ASSUME
    /\ Boost!TransactionManagerAssumption /\ Pages!LogPagesAssumption
    /\ Register!RegistrationAssumption /\ Removal!RegistrationAssumption
    /\ Balances!BalancesAssumption /\ Relays!ClientAssumption
    /\ Serial!RequestsAssumption /\ Penalties!PenalizerAssumption
    /\ Command!CommandsAssumption /\ Lifecycle!LifecycleAssumption

\* The variables of the other components are not used.
Unused == "unused"
NoTx ==
    /\ nonces = Unused /\ mutex = Unused /\ txPc = Unused /\ signed = Unused
    /\ store = Unused /\ mempool = Unused /\ chain = Unused /\ worker = Unused
    /\ faults = Unused
NoPage ==
    /\ logged = Unused /\ lastBlockNumber = Unused /\ queryAt = Unused
    /\ range = Unused /\ pages = Unused /\ nextPage = Unused /\ pagesCurrent = Unused
    /\ attempts = Unused /\ parts = Unused /\ pageFailures = Unused /\ queries = Unused
NoReg ==
    /\ regChain = Unused /\ log = Unused /\ regNow = Unused /\ txs = Unused
    /\ mem = Unused /\ regScanned = Unused /\ regReady = Unused /\ regAt = Unused
    /\ regPass = Unused /\ regTodo = Unused /\ sends = Unused /\ regFaults = Unused
    /\ ownerCalls = Unused
NoBalance ==
    /\ balanceChain = Unused /\ balanceSent = Unused /\ relays = Unused /\ recent = Unused
    /\ cached = Unused /\ refresh = Unused /\ balanceReady = Unused /\ proc = Unused
    /\ balanceFailures = Unused
NoRelay ==
    /\ known = Unused /\ relayFailures = Unused /\ call = Unused /\ nonce = Unused
    /\ relaySigned = Unused /\ executed = Unused
NoRequest ==
    /\ requestCall = Unused /\ requestSent = Unused /\ mined = Unused
    /\ pruned = Unused /\ paid = Unused /\ requestReady = Unused /\ alerted = Unused
    /\ minFee = Unused /\ changes = Unused
NoPenalty ==
    /\ workerTxs = Unused /\ minedTxs = Unused /\ initialized = Unused
    /\ audit = Unused /\ pens = Unused /\ scheduled = Unused /\ penaltyKnown = Unused
    /\ penaltyPass = Unused /\ commitsSent = Unused /\ left = Unused
    /\ reveals = Unused /\ waiting = Unused /\ slashed = Unused
    /\ penaltyFailures = Unused /\ restarts = Unused
NoCommand ==
    /\ stake = Unused /\ delay = Unused /\ owned = Unused /\ authorized = Unused
    /\ balance = Unused /\ tokens = Unused /\ allowance = Unused
    /\ commandReady = Unused /\ command = Unused /\ runs = Unused /\ funded = Unused
    /\ spent = Unused /\ commandFailures = Unused /\ asked = Unused
NoLife ==
    /\ env = Unused /\ made = Unused /\ server = Unused /\ lifeNow = Unused
    /\ readyFor = Unused

ProgressInit ==
    /\ component \in {"trim", "boost", "pages", "register", "removal", "balances",
                      "relays", "serial", "penalties", "command", "lifecycle"}
    /\ Init /\ (component # "trim" => str = <<>>)
    /\ IF component = "boost" THEN Boost!Init ELSE NoTx
    /\ IF component = "pages" THEN Pages!PagesInit ELSE NoPage
    /\ CASE component = "register" -> Register!RegistrationInit
         [] component = "removal" -> Removal!RegistrationInit
         [] OTHER -> NoReg
    /\ IF component = "balances" THEN Balances!BalancesInit ELSE NoBalance
    /\ IF component = "relays" THEN Relays!Init ELSE NoRelay
    /\ IF component = "serial" THEN Serial!RequestsInit ELSE NoRequest
    /\ IF component = "penalties" THEN Penalties!PenalizerInit ELSE NoPenalty
    /\ IF component = "command" THEN Command!CommandsInit ELSE NoCommand
    /\ IF component = "lifecycle" THEN Lifecycle!LifecycleInit ELSE NoLife

ProgressNext ==
    /\ UNCHANGED component
    /\ IF component = "trim" THEN Next ELSE UNCHANGED vars
    /\ IF component = "boost" THEN Boost!Next ELSE UNCHANGED txVars
    /\ IF component = "pages" THEN Pages!PagesNext ELSE UNCHANGED pageVars
    /\ CASE component = "register" -> Register!RegistrationNext
         [] component = "removal" -> Removal!RegistrationNext
         [] OTHER -> UNCHANGED regVars
    /\ IF component = "balances" THEN Balances!BalancesNext ELSE UNCHANGED balanceVars
    /\ IF component = "relays" THEN Relays!Next ELSE UNCHANGED relayVars
    /\ IF component = "serial" THEN Serial!RequestsNext ELSE UNCHANGED requestVars
    /\ IF component = "penalties" THEN Penalties!PenalizerNext ELSE UNCHANGED penaltyVars
    /\ IF component = "command" THEN Command!CommandsNext ELSE UNCHANGED commandVars
    /\ IF component = "lifecycle" THEN Lifecycle!LifecycleNext ELSE UNCHANGED lifeVars

ProgressSpec == ProgressInit /\ [][ProgressNext]_allVars

\* The fairness of each component's module.  A behaviour is of one component, so steps of
\* different components may share a condition.
On(c, step) == component = c /\ UNCHANGED component /\ step

\* The variables of the component at work.
current ==
    CASE component = "trim" -> vars           [] component = "boost" -> txVars
      [] component = "pages" -> pageVars      [] component = "balances" -> balanceVars
      [] component = "relays" -> relayVars    [] component = "serial" -> requestVars
      [] component = "penalties" -> penaltyVars
      [] component = "command" -> commandVars [] component = "lifecycle" -> lifeVars
      [] OTHER -> regVars

Works ==
    \/ On("trim", Next)              \/ On("boost", Boost!Pass)
    \/ On("pages", Pages!QueryStep)      \/ On("register", Register!Server)
    \/ On("removal", Removal!Server) \/ On("balances", Balances!Loop)
    \/ On("relays", Relays!Call("a"))
    \/ On("penalties", Penalties!PassStep("p1"))
    \/ On("command", Command!Step("c1"))
    \/ On("lifecycle", Lifecycle!EnvStep)
Waits ==
    \/ On("boost", Boost!TimeOut)           \/ On("balances", Balances!Replenish("r1"))
    \/ On("register", Register!RegTick)        \/ On("removal", Removal!RegTick)
    \/ On("command", Command!ServerRegisters)
    \/ On("lifecycle", Lifecycle!Tick)
Mines ==
    \/ On("boost", Boost!Mine(worker1))     \/ On("balances", Balances!MineNext)
    \/ On("serial", Serial!MineCall)            \/ On("penalties", Penalties!EmptyBlock)
    \/ On("command", Command!ServerSetsOwner)
MinesMore ==
    \/ On("boost", Boost!Deepen(worker1))   \/ On("balances", Balances!MineRelay)
    \/ On("penalties", Penalties!Initialize)
MinesAction(a) == On("register", Register!MineAction(a)) \/ On("removal", Removal!MineAction(a))
Forgets(a) == On("register", Register!ForgetAction(a)) \/ On("removal", Removal!ForgetAction(a))

ProgressFairSpec ==
    /\ ProgressSpec
    /\ WF_current(Works) /\ WF_current(Waits) /\ WF_current(Mines) /\ WF_current(MinesMore)
    /\ \A a \in Register!Actions : WF_current(MinesAction(a)) /\ WF_current(Forgets(a))
    /\ \A kind \in Balances!SentKinds : WF_current(On("balances", Balances!ForgetSent(kind)))
    /\ \A r \in DOMAIN Twice :
         WF_current(On("serial", Serial!Prepare(r) \/ Serial!CreateRelayTransaction(r) \/ Serial!Reply(r)))
    /\ \A a \in {"a1", "a2"} : WF_current(On("penalties", Penalties!AuditStep(a)))
    /\ \A k \in Penalties!Ids :
         /\ WF_current(On("penalties", Penalties!MineCommit(k)))
         /\ WF_current(On("penalties", Penalties!MineReveal(k)))
    /\ \A s \in Lifecycle!Servers :
         /\ WF_current(On("lifecycle", Lifecycle!IntervalHandler(s)))
         /\ WF_current(On("lifecycle", Lifecycle!PassEnds(s)))

-----------------------------------------------------------------------------

\* Whatever reaches the store is mined in the end, even when it was never
\* broadcast, was dropped, or was sent below the base fee.
StoredIsMined ==
    \A n \in Boost!Nonces :
        (component = "boost" /\ <<worker1, n>> \in Boost!StoredKeys)
            ~> (component = "boost" /\ n < Boost!MinedCount(worker1))

\* Every query is answered or throws, although it may be cut again and again.
QueryEnds == []<>~(component = "pages" /\ Pages!QueryRuns)

\* A funded manager gets an owner on the StakeManager.
OwnerIsSet == []<>~(component = "register" /\ Register!OwnerIsMissing)

\* A server whose stake, hub and balance are in order for good becomes ready and
\* stays so.
BecomesReady ==
    <>[](component = "register" /\ Register!InOrder) => <>[](component = "register" /\ regReady)

\* Once the hub's removal is due the worker's balance goes to the owner.
FundsReturned == []<>~(component = "removal" /\ Removal!FundsAreOverdue)

\* A worker short of its minimum is refilled if the manager and the hub together
\* can pay for it.
WorkerRefilled ==
    (component = "balances" /\ Balances!Refillable)
        ~> (component = "balances" /\ balanceChain.worker >= 4)

\* Every call of the client ends, whatever relays answer or do not.
CallsEnd == []<>~(component = "relays" /\ Relays!Calling("a"))

\* A request the client gets to accept is executed in the end.
AcceptedIsExecuted == []<>~(component = "serial" /\ Serial!AcceptedWaits)

\* An offence that was committed to costs the manager its stake.
OffenceSlashed == []<>~(component = "penalties" /\ Penalties!OffenceWaits)

\* With funds for the server's two transactions, a run that does not fail ends, and
\* with it the server becomes ready.
RunEnds == []<>~(component = "command" /\ Command!RunUnfinished("c1"))

\* A server that was told to stop is quiet in the end.
StoppedIsQuiet == []<>~(component = "lifecycle" /\ Lifecycle!StopsNoisily)

\* A call of startGsn ends.
StartEnds == []<>~(component = "lifecycle" /\ Lifecycle!Starting)

\* What the server took on is done in the end: what it stored is mined, a worker that is
\* short is refilled, a call that was accepted is executed, an offence is slashed.
ServerDelivers == StoredIsMined /\ WorkerRefilled /\ AcceptedIsExecuted /\ OffenceSlashed

\* The registration follows the chain in the end: the owner is set, a server in order
\* becomes ready and stays so, and the funds of one that is removed go to the owner.
RegistrationFollows == OwnerIsSet /\ BecomesReady /\ FundsReturned

\* What begins ends: the trimming of a name, a query, a call of the client, a run of the
\* command, the start of an environment, and a server that was told to stop.
EverythingEnds == TrimEnds /\ QueryEnds /\ CallsEnd /\ RunEnds /\ StartEnds /\ StoppedIsQuiet
=============================================================================
