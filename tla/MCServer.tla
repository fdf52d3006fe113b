------------------------------ MODULE MCServer ------------------------------
(* The parts of the relay server side by side: a behaviour is one of one
   component.  The parts are extended and have their largest constants in the
   configuration; some scenarios take less of them. *)
EXTENDS TransactionManager, RelayRequests, ServerLifecycle, Penalizer, PaymasterReputation,
        ServerState, TLC

CONSTANTS manager, worker1, c1, c2

\* Three requests, of which two may be the same.
Twice == ("a" :> "x") @@ ("b" :> "x") @@ ("c" :> "y")
Different == ("a" :> "x") @@ ("b" :> "y") @@ ("c" :> "z")

\* A boosted transaction, one that repeats a nonce, and one that follows and is
\* illegal.
Tx(n, c, f, l) == [nonce |-> n, content |-> c, fee |-> f, legal |-> l]
AllHistories == {{Tx(0, "c", 1, TRUE), Tx(0, "c", 2, TRUE)},
                 {Tx(0, "c", 1, TRUE), Tx(0, "d", 1, TRUE)},
                 {Tx(0, "c", 1, TRUE), Tx(1, "c", 1, FALSE)}}

OneHistory == {Tx(0, "c", 1, TRUE), Tx(0, "d", 1, TRUE)}

\* Two pages of the explorer, with transactions of others.
AllLists == {<<0>>, <<0, 1>>, <<0, Incoming, 1, 2>>, <<Incoming, 0, 1, Incoming>>}

\* Worker and manager full or short.
FullOrShort == [manager : {4, 10}, worker : {0, 6}, hub : {0, 10}]

\* Two signers, a call of each, and what a call may offer.
WorkerFirst == <<worker1, manager>>
EachItsOwn == (c1 :> manager) @@ (c2 :> worker1)
LowAndHigh == {<<1, 1>>, <<3, 1>>}
Lowest == {<<1, 1>>}

VARIABLE component   \* the one this behaviour is of

allVars == <<component, vars, requestVars, lifecycleVars, penalizerVars, reputationVars,
             registrationVars, balanceVars, searchVars>>

Restarts == INSTANCE TransactionManager WITH
    SignerOf <- [c \in Calls |-> worker1], Minima <- {<<1, 1>>}, BaseFee <- 1,
    SignerOrder <- <<worker1>>, Offers <- {<<1, 1>>}, MaxMaxFeePerGas <- 2,
    MaxCrashes <- 1, MaxDrops <- 0, MaxFailures <- 1, MaxReorgs <- 0, MaxOrphanAge <- 0
Boosts == INSTANCE TransactionManager WITH
    SignerOf <- [c \in Calls |-> worker1], Minima <- {<<1, 1>>}, BaseFee <- 1,
    SignerOrder <- <<worker1>>, Offers <- {<<1, 1>>, <<3, 1>>}, MaxMaxFeePerGas <- 3,
    MaxCrashes <- 0, MaxDrops <- 0, MaxFailures <- 0, MaxReorgs <- 0, MaxOrphanAge <- 0
Reorgs == INSTANCE TransactionManager WITH
    SignerOf <- [c \in Calls |-> IF c = c1 THEN manager ELSE worker1],
    Minima <- {<<1, 1>>}, BaseFee <- 1, Offers <- {<<1, 1>>}, MaxMaxFeePerGas <- 1,
    MaxCrashes <- 0, MaxDrops <- 0, MaxFailures <- 0, MaxReorgs <- 1, MaxOrphanAge <- 1
Judges == INSTANCE PaymasterReputation WITH AbuseReputationChange <- 1, AbuseTimeWindowBlocks <- 2
Paid == INSTANCE RelayRequests WITH Deposit <- 1
Gap == INSTANCE RelayRequests WITH
    Content <- Different, Serial <- FALSE, FeeLevels <- {1}
Queue == INSTANCE RelayRequests WITH
    Content <- Different, MaxRelayNonceGap <- 1, FeeLevels <- {1}
ASSUME
    /\ Restarts!TransactionManagerAssumption /\ Boosts!TransactionManagerAssumption
    /\ Reorgs!TransactionManagerAssumption /\ Judges!ReputationAssumption
    /\ Paid!RequestsAssumption /\ Gap!RequestsAssumption /\ Queue!RequestsAssumption

ServerInit ==
    /\ component \in {"restarts", "boosts", "reorgs", "reputation", "judges", "unstake",
                      "balances", "paid", "gap", "queue", "lifecycle", "penalties",
                      "search"}
    /\ Init
    /\ RequestsInit /\ (component # "paid" => minFee = 1)
    /\ LifecycleInit
    /\ PenalizerInit /\ (component # "penalties" => workerTxs = OneHistory)
    /\ ReputationInit
    /\ RegistrationInit
    /\ BalancesInit
    /\ component # "balances" => balanceChain = [manager |-> 4, worker |-> 6, hub |-> 0]
    /\ SearchInit /\ (component # "search" => list = <<0>>)

\* Calls, audits, searches and requests that are alike begin in one order: any other
\* behaviour is one of these with their names exchanged.
CallsInOrder == pc[c2] # "new" => pc[c1] # "new"
AuditsInOrder == audit["a2"].at # "idle" => audit["a1"].at # "idle"
SearchesInOrder == search["s2"].at # "idle" => search["s1"].at # "idle"
JudgedInOrder == at["r2"] # "new" => at["r1"] # "new"
RequestsInOrder == proc["r2"].at # "idle" => proc["r1"].at # "idle"

\* One call offers less than the other, and either is the first.
OneOffersMore == \A c \in Calls : signed[c] # None => signed[c].fee = IF c = c1 THEN 1 ELSE 3

\* The worker's passes alone over a longer chain, and requests over a short one.
ReputationStep ==
    CASE component = "reputation" -> ReputationNext /\ Undisturbed'
      [] component = "judges" -> Judges!ReputationNext /\ Height' <= 3 /\ JudgedInOrder'
      [] OTHER -> UNCHANGED reputationVars

ServerNext ==
    /\ UNCHANGED component
    /\ CASE component = "restarts" -> Restarts!Next /\ CallsInOrder'
         [] component = "boosts" -> Boosts!Next /\ OneOffersMore'
         [] component = "reorgs" -> Reorgs!Next
         [] OTHER -> UNCHANGED vars
    /\ CASE component = "paid" -> Paid!RequestsNext
         [] component = "gap" -> Gap!RequestsNext
         [] component = "queue" -> Queue!RequestsNext
         [] OTHER -> UNCHANGED requestVars
    /\ IF component = "lifecycle" THEN LifecycleNext ELSE UNCHANGED lifecycleVars
    /\ IF component = "penalties" THEN PenalizerNext /\ AuditsInOrder' ELSE UNCHANGED penalizerVars
    /\ ReputationStep
    /\ IF component = "unstake" THEN RegistrationNext ELSE UNCHANGED registrationVars
    /\ IF component = "balances" THEN BalancesNext /\ RequestsInOrder' ELSE UNCHANGED balanceVars
    /\ IF component = "search" THEN SearchNext /\ SearchesInOrder' ELSE UNCHANGED searchVars

ServerSpec == ServerInit /\ [][ServerNext]_allVars
=============================================================================
