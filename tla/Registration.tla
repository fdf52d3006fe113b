----------------------------- MODULE Registration -----------------------------
(***************************************************************************)
(* How a relay server follows its registration: RegistrationManager's      *)
(* handling of StakeManager events in the worker's pass, the transactions  *)
(* it sends, and what it remembers across passes but not across a restart. *)
(*                                                                         *)
(* The chain is the environment: StakeManager, RelayHub and RelayRegistrar *)
(* for one manager, worker and hub, the owner's calls and the clock.  A    *)
(* stake is sufficient or absent.  The log holds the manager's events, one *)
(* in a block; the blocks without events are left out, and a pass may      *)
(* start at any time.                                                      *)
(***************************************************************************)
EXTENDS Naturals, Sequences

CONSTANTS UnstakeDelay,        \* of the owner's stake
          ScanBack,            \* events that a restarted server still sees (10 blocks)
          MaxOwnerCalls, MaxRegTime, MaxServerCrashes, MaxSendFailures,  \* bounds
          PromptServer,        \* stake is withdrawn only after its unlocking was handled
          StartsRegistered     \* the first state: fresh, or registered and running

Actions == {"setOwner", "authorizeHub", "addWorker", "register",
            "withdrawHub", "workerToOwner", "managerToOwner"}
EventKinds == {"OwnerSet", "StakeAdded", "HubAuthorized", "HubUnauthorized", "StakeUnlocked",
               "StakeWithdrawn"}

ASSUME RegistrationAssumption ==
    /\ {UnstakeDelay, ScanBack, MaxOwnerCalls, MaxRegTime, MaxServerCrashes,
        MaxSendFailures} \subseteq Nat
    /\ {PromptServer, StartsRegistered} \subseteq BOOLEAN

VARIABLES regChain,     \* the contracts' state for this manager
          log,          \* StakeManager events
          regNow,       \* the time
          txs,          \* the transaction store: each action is none, pending or recent
          mem,          \* RegistrationManager's fields
          regScanned,   \* lastScannedBlock
          regReady,     \* RelayServer.ready
          regAt,        \* where the pass is
          regPass,      \* its block, its time and whether it forces registration
          regTodo,      \* events the pass has still to handle
          sends,        \* the rest of withdrawAllFunds
          regFaults, ownerCalls

registrationVars == <<regChain, log, regNow, txs, mem, regScanned, regReady, regAt, regPass,
                      regTodo, sends, regFaults, ownerCalls>>
passVars == <<regScanned, regReady, regPass, regTodo, sends>>
serverVars == <<mem, regAt, passVars>>

Event(kind) ==
    [kind |-> kind, time |-> IF kind = "HubUnauthorized" THEN regNow + UnstakeDelay ELSE regNow]

StakeEvents == [kind : EventKinds, time : Nat]
Memory == [setOwnerCalled : BOOLEAN, ownerSet : BOOLEAN, hubAuthorized : BOOLEAN, stakeLocked : BOOLEAN,
           stakeOk : BOOLEAN, balanceOk : BOOLEAN, info : BOOLEAN, owner : BOOLEAN, delayed : SUBSET Nat]

RegistrationTypeOK ==
    /\ regChain \in [owner : BOOLEAN, stake : {"none", "locked", "unlocked"}, withdrawTime : Nat,
                     hub : {"no", "yes", "removed"}, worker : BOOLEAN, registered : BOOLEAN,
                     funds : SUBSET Actions]
    /\ log \in Seq(StakeEvents) /\ regNow \in 0..MaxRegTime
    /\ txs \in [Actions -> {"none", "pending", "recent"}]
    /\ mem \in Memory
    /\ regScanned \in 0..Len(log) /\ regReady \in BOOLEAN
    /\ regAt \in {"down", "idle", "query", "events", "sending", "info", "register", "relay", "end"}
    /\ regPass \in [block : 0..Len(log), time : 0..regNow, force : BOOLEAN]
    /\ regTodo \in Seq(StakeEvents) /\ sends \in Seq(Actions)
    /\ regFaults \in [crash : Nat, failure : Nat] /\ ownerCalls \in Nat

Forgotten == [setOwnerCalled |-> FALSE, ownerSet |-> FALSE, hubAuthorized |-> FALSE,
              stakeLocked |-> FALSE, stakeOk |-> FALSE, balanceOk |-> FALSE,
              info |-> FALSE, owner |-> FALSE, delayed |-> {}]

RegistrationInit ==
    /\ regChain = [owner |-> StartsRegistered,
                stake |-> IF StartsRegistered THEN "locked" ELSE "none",
                withdrawTime |-> 0,
                hub |-> IF StartsRegistered THEN "yes" ELSE "no",
                worker |-> StartsRegistered, registered |-> StartsRegistered,
                funds |-> IF StartsRegistered THEN {"withdrawHub", "workerToOwner", "managerToOwner"}
                          ELSE {}]
    /\ log = <<>> /\ regNow = 0
    /\ txs = [a \in Actions |-> "none"]
    /\ mem = [Forgotten EXCEPT !.ownerSet = StartsRegistered, !.hubAuthorized = StartsRegistered,
                               !.stakeLocked = StartsRegistered, !.stakeOk = StartsRegistered,
                               !.balanceOk = StartsRegistered, !.info = StartsRegistered,
                               !.owner = StartsRegistered]
    /\ regScanned = 0 /\ regReady = StartsRegistered
    /\ regAt = IF StartsRegistered THEN "idle" ELSE "down"
    /\ regPass = [block |-> 0, time |-> 0, force |-> FALSE]
    /\ regTodo = <<>> /\ sends = <<>>
    /\ regFaults = [crash |-> 0, failure |-> 0] /\ ownerCalls = 0

RegFault(kind, max) == regFaults[kind] < max /\ regFaults' = [regFaults EXCEPT ![kind] = @ + 1]

-----------------------------------------------------------------------------
(* The chain: the owner's calls, mined transactions, time.                  *)

StakedOnHub == regChain.stake = "locked" /\ regChain.hub = "yes"
NotAuthorized == regChain.stake = "locked" /\ regChain.hub # "yes"

Emit(kind) == log' = Append(log, Event(kind))

FundManager ==
    /\ "managerToOwner" \notin regChain.funds /\ ownerCalls < MaxOwnerCalls
    /\ regChain' = [regChain EXCEPT !.funds = @ \cup {"managerToOwner"}]
    /\ ownerCalls' = ownerCalls + 1
    /\ UNCHANGED <<log, regNow, txs, serverVars, regFaults>>

OwnerCall(kind, enabled, changed) ==
    /\ regChain.owner /\ enabled /\ ownerCalls < MaxOwnerCalls
    /\ regChain' = changed
    /\ Emit(kind)
    /\ ownerCalls' = ownerCalls + 1
    /\ UNCHANGED <<regNow, txs, serverVars, regFaults>>

UnlockHandled == ~\E i \in regScanned + 1..Len(log) : log[i].kind = "StakeUnlocked"

Stake == OwnerCall("StakeAdded", regChain.stake = "none", [regChain EXCEPT !.stake = "locked"])
AuthorizeHub == OwnerCall("HubAuthorized", regChain.hub # "yes", [regChain EXCEPT !.hub = "yes"])
UnauthorizeHub == OwnerCall("HubUnauthorized", regChain.hub = "yes", [regChain EXCEPT !.hub = "removed"])
UnlockStake == OwnerCall("StakeUnlocked", regChain.stake = "locked",
                         [regChain EXCEPT !.stake = "unlocked", !.withdrawTime = regNow + UnstakeDelay])
WithdrawStake == OwnerCall("StakeWithdrawn",
                           /\ regChain.stake = "unlocked" /\ regChain.withdrawTime <= regNow
                           /\ PromptServer => UnlockHandled,
                           [regChain EXCEPT !.stake = "none", !.withdrawTime = 0])

\* A pending transaction is mined; one whose conditions do not hold reverts.
MineAction(a) ==
    /\ txs[a] = "pending"
    /\ txs' = [txs EXCEPT ![a] = "recent"]
    /\ \/ /\ a = "setOwner" /\ ~regChain.owner
          /\ regChain' = [regChain EXCEPT !.owner = TRUE]
          /\ Emit("OwnerSet")
       \/ /\ a = "authorizeHub" /\ regChain.owner
          /\ regChain' = [regChain EXCEPT !.hub = "yes"]
          /\ Emit("HubAuthorized")
       \/ /\ a = "addWorker" /\ StakedOnHub /\ ~regChain.worker
          /\ regChain' = [regChain EXCEPT !.worker = TRUE]
          /\ UNCHANGED log
       \/ /\ a = "register" /\ StakedOnHub /\ regChain.worker
          /\ regChain' = [regChain EXCEPT !.registered = TRUE]
          /\ UNCHANGED log
       \/ /\ a \in regChain.funds
          /\ regChain' = [regChain EXCEPT !.funds = @ \ {a}]
          /\ UNCHANGED log
       \/ /\ \/ a = "setOwner" /\ regChain.owner
             \/ a = "addWorker" /\ (regChain.worker \/ ~StakedOnHub)
             \/ a = "register" /\ ~(StakedOnHub /\ regChain.worker)
          /\ UNCHANGED <<regChain, log>>
    /\ UNCHANGED <<regNow, serverVars, regFaults, ownerCalls>>

\* recentActionAvoidRepeatDistanceBlocks pass after a transaction was mined.
ForgetAction(a) ==
    /\ txs[a] = "recent"
    /\ txs' = [txs EXCEPT ![a] = "none"]
    /\ UNCHANGED <<regChain, log, regNow, serverVars, regFaults, ownerCalls>>

RegTick ==
    /\ regNow < MaxRegTime
    /\ regNow' = regNow + 1
    /\ UNCHANGED <<regChain, log, txs, serverVars, regFaults, ownerCalls>>

-----------------------------------------------------------------------------
(* Sending, refreshing, failing.                                           *)

\* isActionPendingOrRecentlyMined.
ActionPending(a) == txs[a] # "none"

SendAction(a) == txs' = [txs EXCEPT ![a] = "pending"]

\* Anything the pass awaits may throw: the interval handler logs it.
Throw ==
    /\ regAt' = "idle" /\ regReady' = FALSE /\ regTodo' = <<>> /\ sends' = <<>>
    /\ UNCHANGED <<txs, regScanned, regPass>>

\* The fields after refreshStake: without a stake it returns early.
RefreshedFields ==
    LET known == [mem EXCEPT !.hubAuthorized = @ \/ StakedOnHub, !.ownerSet = regChain.owner] IN
    IF regChain.stake = "none" THEN known
    ELSE [known EXCEPT !.stakeLocked = regChain.stake = "locked", !.stakeOk = TRUE, !.owner = TRUE]

\* refreshStake: an unauthorized hub is authorized by the manager.
RefreshStake(then) ==
    \/ /\ ~(NotAuthorized /\ ~ActionPending("authorizeHub"))
       /\ mem' = RefreshedFields /\ regAt' = then
       /\ UNCHANGED <<txs, regFaults>>
    \/ /\ NotAuthorized /\ ~ActionPending("authorizeHub")
       /\ SendAction("authorizeHub")
       /\ mem' = RefreshedFields /\ regAt' = then
       /\ UNCHANGED regFaults

-----------------------------------------------------------------------------
(* A pass: RelayServer._worker and RegistrationManager.handlePastEvents.    *)

\* RelayServer.init and RegistrationManager.init.
StartServer ==
    /\ regAt = "down"
    /\ RefreshStake("idle")
    /\ regScanned' = IF Len(log) > ScanBack THEN Len(log) - ScanBack ELSE 0
    /\ UNCHANGED <<regChain, log, regNow, regReady, regPass, regTodo, sends, ownerCalls>>

\* The manager's balance is refreshed; without it the pass ends.  A
\* registration that expired is forced.
BeginRegPass ==
    /\ regAt = "idle"
    /\ \E force \in {~regChain.registered /\ ~ActionPending("register"), FALSE} :
          regPass' = [block |-> Len(log), time |-> regNow, force |-> force]
    /\ LET funded == "managerToOwner" \in regChain.funds IN
       /\ mem' = [mem EXCEPT !.balanceOk = funded]
       /\ regAt' = IF funded THEN "query" ELSE "idle"
       /\ regReady' = (regReady /\ funded)
    /\ UNCHANGED <<regChain, log, regNow, txs, regScanned, regTodo, sends, regFaults, ownerCalls>>

\* Faulty: the owner is set after the first stake.
OwnerIsDueStaked == ~mem.ownerSet /\ mem.balanceOk /\ ~mem.setOwnerCalled /\ mem.owner

OwnerIsDue == ~mem.ownerSet /\ mem.balanceOk /\ ~mem.setOwnerCalled

\* The events since lastScannedBlock, and setOwnerInStakeManager; a send that
\* fails ends the pass with _isSetOwnerCalled set.
QueryStakeEvents ==
    /\ regAt = "query"
    /\ \/ /\ ~OwnerIsDue
          /\ regAt' = "events"
          /\ regTodo' = SubSeq(log, regScanned + 1, Len(log))
          /\ UNCHANGED <<mem, txs, regReady, sends, regScanned, regPass, regFaults>>
       \/ /\ OwnerIsDue
          /\ mem' = [mem EXCEPT !.setOwnerCalled = TRUE]
          /\ \/ /\ SendAction("setOwner")
                /\ regAt' = "events"
                /\ regTodo' = SubSeq(log, regScanned + 1, Len(log))
                /\ UNCHANGED <<regReady, sends, regScanned, regPass, regFaults>>
             \/ /\ Throw
                /\ RegFault("failure", MaxSendFailures)
    /\ UNCHANGED <<regChain, log, regNow, ownerCalls>>

Handle(kind) ==
    regAt = "events" /\ regTodo # <<>> /\ Head(regTodo).kind = kind /\ regTodo' = Tail(regTodo)

HandleHubAuthorized ==
    /\ Handle("HubAuthorized")
    /\ mem' = [mem EXCEPT !.hubAuthorized = TRUE]
    /\ UNCHANGED <<regChain, log, regNow, txs, regAt, regScanned, regReady, regPass, sends,
                   regFaults, ownerCalls>>

\* Faulty: nothing is left for later.
HandleHubUnauthorizedOnly ==
    /\ Handle("HubUnauthorized")
    /\ mem' = [mem EXCEPT !.hubAuthorized = FALSE]
    /\ UNCHANGED <<regChain, log, regNow, txs, regAt, regScanned, regReady, regPass, sends,
                   regFaults, ownerCalls>>

\* The withdrawal waits for the removal time.
HandleHubUnauthorized ==
    /\ Handle("HubUnauthorized")
    /\ mem' = [mem EXCEPT !.hubAuthorized = FALSE, !.delayed = @ \cup {Head(regTodo).time}]
    /\ UNCHANGED <<regChain, log, regNow, txs, regAt, regScanned, regReady, regPass, sends,
                   regFaults, ownerCalls>>

HandleStake ==
    /\ \E kind \in {"OwnerSet", "StakeAdded", "StakeUnlocked"} : Handle(kind)
    /\ RefreshStake("events")
    /\ UNCHANGED <<regChain, log, regNow, regScanned, regReady, regPass, sends, ownerCalls>>

\* Faulty: the manager's balance is sent too.
WithdrawEverything == <<"withdrawHub", "workerToOwner", "managerToOwner">>

\* withdrawAllFunds(false), for a removed hub.
WithdrawRemoved == <<"withdrawHub", "workerToOwner">>

\* Without a known owner there is nobody to send the funds to.
HandleStakeWithdrawn ==
    /\ \/ /\ Handle("StakeWithdrawn") /\ mem.owner
          /\ RefreshStake("sending")
          /\ sends' = WithdrawRemoved \o <<"managerToOwner">>
          /\ UNCHANGED <<regScanned, regReady, regPass>>
       \/ /\ regAt = "events" /\ regTodo # <<>> /\ Head(regTodo).kind = "StakeWithdrawn" /\ ~mem.owner
          /\ Throw
          /\ UNCHANGED <<mem, regFaults>>
    /\ UNCHANGED <<regChain, log, regNow, ownerCalls>>

\* One step of withdrawAllFunds: a balance too low for the fee is left alone.
SendFunds ==
    /\ regAt = "sending" /\ sends # <<>>
    /\ \/ /\ Head(sends) \notin regChain.funds
          /\ sends' = Tail(sends)
          /\ UNCHANGED <<regAt, txs, regTodo, regScanned, regReady, regPass, regFaults>>
       \/ /\ Head(sends) \in regChain.funds
          /\ \/ /\ SendAction(Head(sends))
                /\ sends' = Tail(sends)
                /\ UNCHANGED <<regAt, regTodo, regScanned, regReady, regPass, regFaults>>
             \/ /\ Throw
                /\ RegFault("failure", MaxSendFailures)
    /\ UNCHANGED <<regChain, log, regNow, mem, ownerCalls>>

Prerequisites == mem.hubAuthorized /\ mem.stakeLocked /\ mem.stakeOk /\ mem.balanceOk /\ StakedOnHub

\* refreshStake throws when the hub's authorization cannot be sent.
RefreshFails ==
    /\ \/ regAt = "events" /\ regTodo # <<>>
          /\ Head(regTodo).kind \in {"OwnerSet", "StakeAdded", "StakeUnlocked", "StakeWithdrawn"}
       \/ regAt = "register" /\ ~Prerequisites
    /\ NotAuthorized /\ ~ActionPending("authorizeHub")
    /\ Throw
    /\ RegFault("failure", MaxSendFailures)
    /\ UNCHANGED <<regChain, log, regNow, mem, ownerCalls>>

FundsSent ==
    /\ regAt = "sending" /\ sends = <<>>
    /\ regAt' = "events"
    /\ UNCHANGED <<regChain, log, regNow, txs, mem, passVars, regFaults, ownerCalls>>

\* Faulty: every delayed event is due.
DueAll == mem.delayed

DueRemovals == {t \in mem.delayed : t <= regPass.time}

\* _extractDuePendingEvents takes them off the list before they are handled.
EventsHandled ==
    /\ regAt = "events" /\ regTodo = <<>>
    /\ mem' = [mem EXCEPT !.delayed = @ \ DueRemovals]
    /\ \/ /\ DueRemovals = {}
          /\ regAt' = "info"
          /\ UNCHANGED <<regTodo, sends, regScanned, regReady, regPass>>
       \/ /\ DueRemovals # {} /\ mem.owner
          /\ regAt' = "sending"
          /\ sends' = WithdrawRemoved
          /\ UNCHANGED <<regTodo, regScanned, regReady, regPass>>
       \/ /\ DueRemovals # {} /\ ~mem.owner
          /\ regAt' = "idle" /\ regReady' = FALSE
          /\ UNCHANGED <<regTodo, sends, regScanned, regPass>>
    /\ UNCHANGED <<regChain, log, regNow, txs, regFaults, ownerCalls>>

\* Faulty: only an expired registration is renewed.
RefreshInfoExpired ==
    /\ regAt = "info"
    /\ mem' = [mem EXCEPT !.info = regChain.registered]
    /\ regAt' = IF regPass.force THEN "register" ELSE "end"
    /\ UNCHANGED <<regChain, log, regNow, txs, passVars, regFaults, ownerCalls>>

\* refreshRegistrarRelayInfo, and whether registration is attempted.
RefreshInfo ==
    /\ regAt = "info"
    /\ mem' = [mem EXCEPT !.info = regChain.registered]
    /\ regAt' = IF (~ActionPending("register") /\ ~regChain.registered) \/ regPass.force
                THEN "register" ELSE "end"
    /\ UNCHANGED <<regChain, log, regNow, txs, passVars, regFaults, ownerCalls>>

\* attemptRegistration: refresh what is missing, or add the worker first.
AttemptRegistration ==
    /\ regAt = "register"
    /\ \/ /\ ~Prerequisites
          /\ RefreshStake("end")
       \/ /\ Prerequisites
          /\ regAt' = "relay"
          /\ \/ /\ regChain.worker \/ ActionPending("addWorker")
                /\ UNCHANGED txs
             \/ /\ ~(regChain.worker \/ ActionPending("addWorker"))
                /\ SendAction("addWorker")
          /\ UNCHANGED <<mem, regFaults>>
    /\ UNCHANGED <<regChain, log, regNow, passVars, ownerCalls>>

RegisterRelayServer ==
    /\ regAt = "relay"
    /\ SendAction("register")
    /\ regAt' = "end"
    /\ UNCHANGED <<regChain, log, regNow, mem, passVars, regFaults, ownerCalls>>

\* Faulty: the registrar's answer is enough.
IsRegisteredByInfo == mem.info

IsRegistered == mem.stakeOk /\ mem.stakeLocked /\ mem.hubAuthorized /\ mem.info

\* lastScannedBlock moves on and the server is ready when it is registered.
EndRegPass ==
    /\ regAt = "end"
    /\ regScanned' = regPass.block
    /\ regReady' = IsRegistered
    /\ regAt' = "idle"
    /\ UNCHANGED <<regChain, log, regNow, txs, mem, regPass, regTodo, sends, regFaults, ownerCalls>>

\* The process restarts: everything but the transaction store is forgotten.
ServerCrash ==
    /\ regAt # "down"
    /\ RegFault("crash", MaxServerCrashes)
    /\ regAt' = "down" /\ mem' = Forgotten /\ regReady' = FALSE /\ regTodo' = <<>> /\ sends' = <<>>
    /\ UNCHANGED <<regChain, log, regNow, txs, regScanned, regPass, ownerCalls>>

HandleStakeEvent == HandleHubAuthorized \/ HandleHubUnauthorized \/ HandleStake \/ HandleStakeWithdrawn

Server == \/ StartServer \/ BeginRegPass \/ QueryStakeEvents \/ HandleStakeEvent
          \/ SendFunds \/ FundsSent \/ EventsHandled \/ RefreshFails
          \/ RefreshInfo \/ AttemptRegistration \/ RegisterRelayServer \/ EndRegPass

Owner == FundManager \/ Stake \/ AuthorizeHub \/ UnauthorizeHub \/ UnlockStake \/ WithdrawStake

RegistrationNext ==
    \/ Server \/ Owner \/ RegTick \/ ServerCrash
    \/ \E a \in Actions : MineAction(a) \/ ForgetAction(a)

RegistrationSpec == RegistrationInit /\ [][RegistrationNext]_registrationVars

\* The interval handler keeps starting passes, transactions are mined and
\* forgotten, time passes; the owner owes nothing.
FairRegistration ==
    /\ RegistrationSpec /\ WF_registrationVars(Server) /\ WF_registrationVars(RegTick)
    /\ \A a \in Actions : WF_registrationVars(MineAction(a)) /\ WF_registrationVars(ForgetAction(a))

-----------------------------------------------------------------------------
(* Properties.                                                             *)

\* A server that has seen every event calls itself ready only while the chain
\* has it staked on its hub and registered (isRegistered).
ReadyIsStaked ==
    regAt = "idle" /\ regScanned = Len(log) /\ regReady => StakedOnHub /\ regChain.registered

\* "should not send balance immediately after unauthorize (before unstake
\* delay)": funds leave only when a removal is due or the stake was withdrawn.
FundsLeaveInTimeStep ==
    \A a \in {"withdrawHub", "workerToOwner"} : txs[a] # "pending" /\ txs'[a] = "pending" =>
          \E i \in 1..Len(log) : \/ log[i].kind = "HubUnauthorized" /\ log[i].time <= regNow
                                 \/ log[i].kind = "StakeWithdrawn"

\* withdrawAllFunds keeps the manager's balance as long as it has a stake.
ManagerKeepsBalance ==
    txs["managerToOwner"] # "none" => \E i \in 1..Len(log) : log[i].kind = "StakeWithdrawn"

\* A funded manager without an owner on the StakeManager.
OwnerIsMissing == "managerToOwner" \in regChain.funds /\ ~regChain.owner

\* Stake, hub and balance are in order.
InOrder == StakedOnHub /\ "managerToOwner" \in regChain.funds

\* The hub's removal is due, and the worker has its balance.
RemovalIsDue == \E i \in 1..Len(log) : log[i].kind = "HubUnauthorized" /\ log[i].time <= regNow
FundsAreOverdue == RemovalIsDue /\ "workerToOwner" \in regChain.funds
=============================================================================
