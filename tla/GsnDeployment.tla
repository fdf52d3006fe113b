---------------------------- MODULE GsnDeployment ----------------------------
(***************************************************************************)
(* The command that deploys the GSN contracts.  Each contract is deployed  *)
(* in turn unless its address was given, the hub is given its registrar,   *)
(* the paymaster its hub and forwarder, the forwarder its types, and the   *)
(* hub the minimum stake of a token.  At the end the addresses are saved,  *)
(* one file each.  Any step may fail: the process ends, what is on chain   *)
(* stays, and the operator may run the command again with the addresses    *)
(* it printed.                                                             *)
(*                                                                         *)
(* The contracts of a kind are numbered in the order they were deployed.   *)
(***************************************************************************)
EXTENDS Integers, Sequences

CONSTANTS MaxDeployRuns,  \* bound on runs of the command
          GivesParts      \* TRUE: whoever gives a hub gives the stake manager and penalizer it has

DeploymentAssumption == MaxDeployRuns \in Nat \ {0} /\ GivesParts \in BOOLEAN

VARIABLES made,       \* chain: how many contracts of each kind there are
          hub,        \* chain: the parts and the tokens of each hub
          paymaster,  \* chain: hub and forwarder of each paymaster
          registered, \* chain: forwarders that have the types of requests
          given,      \* the addresses and choices of this run
          inst,       \* the contracts this run works with
          deployAt,   \* its next step
          nextFile,   \* the file it writes next
          file,       \* the saved addresses
          torn,       \* a run ended while it saved
          moved,      \* a run since set another registrar for the saved hub
          deployRuns

deploymentVars == <<made, hub, paymaster, registered, given, inst, deployAt, nextFile, file, torn, moved,
                    deployRuns>>

Givable == {"registrar", "stakeManager", "penalizer", "forwarder", "hub"}
Kinds == Givable \union {"paymaster", "token"}
NotGiven == 0
Contracts == 0..MaxDeployRuns
NoContracts == [k \in Kinds |-> NotGiven]

\* The order of the steps of deployGsnContracts, and of the files
Following == [registrar |-> "stakeManager", stakeManager |-> "penalizer", penalizer |-> "forwarder",
              forwarder |-> "hub", hub |-> "setRegistrar", setRegistrar |-> "paymaster",
              paymaster |-> "setRelayHub", setRelayHub |-> "setTrustedForwarder",
              setTrustedForwarder |-> "registerForwarder", registerForwarder |-> "token",
              token |-> "setMinimumStakes", setMinimumStakes |-> "initDeployment",
              initDeployment |-> "save"]
Files == <<"stakeManager", "penalizer", "hub", "paymaster", "forwarder", "registrar", "token">>

NoHub == [registrar |-> NotGiven, stakeManager |-> NotGiven, penalizer |-> NotGiven, tokens |-> {}]

\* One token that the operator may stake is there before.
DeploymentInit ==
    /\ made = [NoContracts EXCEPT !["token"] = 1]
    /\ hub = [h \in Contracts |-> NoHub]
    /\ paymaster = [p \in Contracts |-> [hub |-> NotGiven, forwarder |-> NotGiven]]
    /\ registered = {}
    /\ given = [addresses |-> NoContracts, testPaymaster |-> FALSE]
    /\ inst = NoContracts
    /\ deployAt = "idle" /\ nextFile = 1
    /\ file = NoContracts
    /\ torn = FALSE /\ moved = FALSE
    /\ deployRuns = 0

DeploymentTypeOK ==
    /\ DOMAIN made = Kinds /\ DOMAIN inst = Kinds /\ DOMAIN file = Kinds
    /\ \A k \in Kinds : /\ made[k] \in 0..MaxDeployRuns + 1
                        /\ {inst[k], file[k], given.addresses[k]} \subseteq 0..made[k]
    /\ deployAt \in DOMAIN Following \union {"idle", "save"}
    /\ nextFile \in 1..Len(Files)
    /\ registered \subseteq 1..made["forwarder"]
    /\ torn \in BOOLEAN /\ deployRuns \in 0..MaxDeployRuns

Advance == deployAt' = Following[deployAt]

\* A run begins: any of the contracts made so far may be given; the token is, or is deployed.
RunDeploy(a, testPaymaster) ==
    /\ deployAt = "idle" /\ deployRuns < MaxDeployRuns
    /\ \A k \in Kinds : a[k] <= made[k]
    /\ GivesParts /\ a["hub"] # NotGiven =>
          \A k \in {"stakeManager", "penalizer"} : a[k] = hub[a["hub"]][k]
    /\ given' = [addresses |-> a, testPaymaster |-> testPaymaster]
    /\ inst' = NoContracts /\ deployAt' = "registrar" /\ deployRuns' = deployRuns + 1
    /\ UNCHANGED <<made, hub, paymaster, registered, nextFile, file, torn, moved>>

\* getContractInstance: the contract at the address given, or a new one.
Instance(k) ==
    IF given.addresses[k] = NotGiven
    THEN /\ made' = [made EXCEPT ![k] = @ + 1]
         /\ inst' = [inst EXCEPT ![k] = made[k] + 1]
    ELSE /\ inst' = [inst EXCEPT ![k] = given.addresses[k]]
         /\ UNCHANGED made

DeployContract(k) ==
    /\ deployAt = k /\ k \in Givable \ {"hub"}
    /\ Instance(k)
    /\ Advance
    /\ UNCHANGED <<hub, paymaster, registered, given, nextFile, file, torn, moved, deployRuns>>

DeployHub ==
    /\ deployAt = "hub"
    /\ Instance("hub")
    /\ hub' = IF given.addresses["hub"] # NotGiven THEN hub
              ELSE [hub EXCEPT ![made["hub"] + 1] =
                      [registrar |-> inst["registrar"], stakeManager |-> inst["stakeManager"],
                       penalizer |-> inst["penalizer"], tokens |-> {}]]
    /\ Advance
    /\ UNCHANGED <<paymaster, registered, given, nextFile, file, torn, moved, deployRuns>>

\* The saved hub has another registrar than the one that was saved.
MovesHub == moved' = (moved \/ (inst["hub"] = file["hub"] /\ inst["registrar"] # file["registrar"]))

\* Faulty: a hub that has a registrar keeps it.
SetRegistrarIfNone ==
    /\ deployAt = "setRegistrar"
    /\ hub' = IF hub[inst["hub"]].registrar # NotGiven THEN hub
              ELSE [hub EXCEPT ![inst["hub"]].registrar = inst["registrar"]]
    /\ Advance /\ MovesHub
    /\ UNCHANGED <<made, paymaster, registered, given, inst, nextFile, file, torn, deployRuns>>

SetRegistrar ==
    /\ deployAt = "setRegistrar"
    /\ hub' = [hub EXCEPT ![inst["hub"]].registrar = inst["registrar"]]
    /\ Advance /\ MovesHub
    /\ UNCHANGED <<made, paymaster, registered, given, inst, nextFile, file, torn, deployRuns>>

\* deployPaymaster, when asked for
DeployPaymaster ==
    /\ deployAt = "paymaster" /\ given.testPaymaster
    /\ made' = [made EXCEPT !["paymaster"] = @ + 1]
    /\ inst' = [inst EXCEPT !["paymaster"] = made["paymaster"] + 1]
    /\ Advance
    /\ UNCHANGED <<hub, paymaster, registered, given, nextFile, file, torn, moved, deployRuns>>

NoPaymaster ==
    /\ deployAt = "paymaster" /\ ~given.testPaymaster
    /\ deployAt' = "registerForwarder"
    /\ UNCHANGED <<made, hub, paymaster, registered, given, inst, nextFile, file, torn, moved, deployRuns>>

SetRelayHub ==
    /\ deployAt = "setRelayHub"
    /\ paymaster' = [paymaster EXCEPT ![inst["paymaster"]].hub = inst["hub"]]
    /\ Advance
    /\ UNCHANGED <<made, hub, registered, given, inst, nextFile, file, torn, moved, deployRuns>>

\* Faulty: the paymaster trusts the forwarder of the options, not the one it was deployed with.
TrustGivenForwarder ==
    /\ deployAt = "setTrustedForwarder"
    /\ paymaster' = [paymaster EXCEPT ![inst["paymaster"]].forwarder = given.addresses["forwarder"]]
    /\ Advance
    /\ UNCHANGED <<made, hub, registered, given, inst, nextFile, file, torn, moved, deployRuns>>

SetTrustedForwarder ==
    /\ deployAt = "setTrustedForwarder"
    /\ paymaster' = [paymaster EXCEPT ![inst["paymaster"]].forwarder = inst["forwarder"]]
    /\ Advance
    /\ UNCHANGED <<made, hub, registered, given, inst, nextFile, file, torn, moved, deployRuns>>

RegisterForwarder ==
    /\ deployAt = "registerForwarder"
    /\ registered' = registered \union {inst["forwarder"]}
    /\ Advance
    /\ UNCHANGED <<made, hub, paymaster, given, inst, nextFile, file, torn, moved, deployRuns>>

\* --testToken deploys one, and its minimum is set at once; else --stakingToken is used.
DeployToken ==
    /\ deployAt = "token"
    /\ Instance("token")
    /\ Advance
    /\ UNCHANGED <<hub, paymaster, registered, given, nextFile, file, torn, moved, deployRuns>>

SetMinimumStakes ==
    /\ deployAt = "setMinimumStakes"
    /\ hub' = [hub EXCEPT ![inst["hub"]].tokens = @ \union {inst["token"]}]
    /\ Advance
    /\ UNCHANGED <<made, paymaster, registered, given, inst, nextFile, file, torn, moved, deployRuns>>

InitInteractor ==
    /\ deployAt = "initDeployment"
    /\ Advance
    /\ UNCHANGED <<made, hub, paymaster, registered, given, inst, nextFile, file, torn, moved, deployRuns>>

\* saveDeployment writes the next file.
SaveFile ==
    /\ deployAt = "save"
    /\ file' = [file EXCEPT ![Files[nextFile]] = inst[Files[nextFile]]]
    /\ IF nextFile < Len(Files)
       THEN /\ nextFile' = nextFile + 1
            /\ UNCHANGED <<deployAt, torn, moved>>
       ELSE /\ nextFile' = 1 /\ deployAt' = "idle"
            /\ torn' = FALSE /\ moved' = FALSE
    /\ UNCHANGED <<made, hub, paymaster, registered, given, inst, deployRuns>>

\* A transaction fails, the operator says no, or the process is stopped.
Fail ==
    /\ deployAt # "idle" /\ deployAt' = "idle"
    /\ nextFile' = 1
    /\ torn' = (torn \/ nextFile > 1)
    /\ UNCHANGED <<made, hub, paymaster, registered, given, inst, file, moved, deployRuns>>

DeploymentNext ==
    \/ \E a \in [Kinds -> Contracts], testPaymaster \in BOOLEAN :
         a["paymaster"] = NotGiven /\ a["token"] \in {NotGiven, 1} /\ RunDeploy(a, testPaymaster)
    \/ \E k \in Givable : DeployContract(k)
    \/ DeployHub \/ SetRegistrar
    \/ DeployPaymaster \/ NoPaymaster \/ SetRelayHub \/ SetTrustedForwarder
    \/ RegisterForwarder \/ DeployToken \/ SetMinimumStakes \/ InitInteractor
    \/ SaveFile \/ Fail

DeploymentSpec == DeploymentInit /\ [][DeploymentNext]_deploymentVars

-----------------------------------------------------------------------------
(* Properties *)

\* The files hold a deployment, and no run is writing another.
Saved == deployAt = "idle" /\ ~torn /\ file["hub"] # NotGiven

\* The saved hub works with the saved stake manager and penalizer, and with the saved
\* registrar unless a run since gave it another.
HubIsConnected ==
    GivesParts /\ Saved => /\ hub[file["hub"]].stakeManager = file["stakeManager"]
                           /\ hub[file["hub"]].penalizer = file["penalizer"]
                           /\ moved \/ hub[file["hub"]].registrar = file["registrar"]

\* A saved paymaster works with the saved hub and forwarder, the forwarder knows the types
\* of the requests, and the hub takes stakes of the saved token.
DeploymentIsUsable ==
    Saved => /\ file["paymaster"] # NotGiven =>
                   paymaster[file["paymaster"]] = [hub |-> file["hub"], forwarder |-> file["forwarder"]]
             /\ file["forwarder"] \in registered
             /\ file["token"] \in hub[file["hub"]].tokens

\* What is saved works together.
DeploymentFits == DeploymentTypeOK /\ HubIsConnected /\ DeploymentIsUsable
=============================================================================
