------------------------- MODULE DeploymentResolution -------------------------
(***************************************************************************)
(* How a ContractInteractor finds the contracts it works with.  From the   *)
(* address of a paymaster, or of a hub, it asks the contracts for the      *)
(* addresses of the others, keeps those in its deployment, and makes an    *)
(* instance of each.  init may fail at any question to the node, and be    *)
(* called again; initDeployment replaces the deployment.                   *)
(*                                                                         *)
(* A hub has its stake manager, penalizer and registrar; they are named by *)
(* the hub, and so is the forwarder by the paymaster.                      *)
(***************************************************************************)
EXTENDS Integers, FiniteSets

CONSTANTS Paymasters, Hubs, NoContract,
          Sources,               \* what a caller may give: "paymaster", "hub", "both", "none"
          MaxQuestionFailures,   \* bound on questions to the node that fail
          MaxRedeploys           \* bound on calls of initDeployment

ResolutionAssumption ==
    /\ NoContract \notin Paymasters \union Hubs /\ Paymasters \intersect Hubs = {}
    /\ Sources \subseteq {"paymaster", "hub", "both", "none"}
    /\ {MaxQuestionFailures, MaxRedeploys} \subseteq Nat

VARIABLES hubOf,      \* the chain: the hub of each paymaster
          oldVersion, \* the chain: contracts of a version that is not supported
          baseFee,    \* the chain: its blocks have a base fee
          dep,        \* deployment
          ins,        \* the instances
          resolutionAt, \* where init is
          inited,     \* rawTxOptions is set
          typeTwo,    \* transactionType
          questionFailures, redeploys

chainFacts == <<hubOf, oldVersion, baseFee>>
resolutionVars == <<chainFacts, dep, ins, resolutionAt, inited, typeTwo, questionFailures, redeploys>>

Parts == {"hub", "stakeManager", "penalizer", "registrar"}
Fields == Parts \union {"paymaster", "forwarder"}

ResolutionTypeOK ==
    /\ hubOf \in [Paymasters -> Hubs] /\ oldVersion \subseteq Paymasters \union Hubs
    /\ \A f \in Fields : {dep[f], ins[f]} \subseteq Paymasters \union Hubs \union {NoContract}
    /\ DOMAIN dep = Fields /\ DOMAIN ins = Fields
    /\ resolutionAt \in {"idle", "block", "history", "resolve", "fromPaymaster", "fromHub", "contracts", "version", "network"}
    /\ {inited, typeTwo, baseFee} \subseteq BOOLEAN
    /\ typeTwo => baseFee
    /\ questionFailures \in 0..MaxQuestionFailures /\ redeploys \in 0..MaxRedeploys

Nothing == [f \in Fields |-> NoContract]

Given(source, p, h) ==
    [Nothing EXCEPT !.paymaster = IF source \in {"paymaster", "both"} THEN p ELSE NoContract,
                    !.hub = IF source \in {"hub", "both"} THEN h ELSE NoContract]

ResolutionInit ==
    /\ hubOf \in [Paymasters -> Hubs] /\ oldVersion \in SUBSET (Paymasters \union Hubs)
    /\ baseFee \in BOOLEAN
    /\ \E s \in Sources, p \in Paymasters, h \in Hubs : dep = Given(s, p, h)
    /\ ins = Nothing
    /\ resolutionAt = "idle" /\ inited = FALSE /\ typeTwo = FALSE /\ questionFailures = 0 /\ redeploys = 0

Bounds == UNCHANGED <<chainFacts, questionFailures, redeploys>>

\* init refuses to start again once it was completed.
Start ==
    /\ resolutionAt = "idle" /\ ~inited /\ resolutionAt' = "block"
    /\ UNCHANGED <<dep, ins, inited, typeTwo>> /\ Bounds

GetBlock ==
    /\ resolutionAt = "block" /\ resolutionAt' = IF baseFee THEN "history" ELSE "resolve"
    /\ UNCHANGED <<dep, ins, inited, typeTwo>> /\ Bounds

\* A node without fee history makes the transactions legacy ones.
GetFeeHistory ==
    /\ resolutionAt = "history" /\ resolutionAt' = "resolve" /\ typeTwo' \in BOOLEAN
    /\ UNCHANGED <<dep, ins, inited>> /\ Bounds

\* With both addresses the deployment counts as resolved.
ResolveDeployment ==
    /\ resolutionAt = "resolve"
    /\ resolutionAt' = IF dep.paymaster # NoContract /\ dep.hub # NoContract THEN "contracts"
             ELSE IF dep.paymaster # NoContract THEN "fromPaymaster"
             ELSE IF dep.hub # NoContract THEN "fromHub" ELSE "contracts"
    /\ UNCHANGED <<dep, ins, inited, typeTwo>> /\ Bounds

\* Faulty: the paymaster's version is not looked at.
ResolveFromAnyPaymaster ==
    /\ resolutionAt = "fromPaymaster"
    /\ ins' = [ins EXCEPT !.paymaster = dep.paymaster]
    /\ dep' = [dep EXCEPT !.hub = hubOf[dep.paymaster], !.forwarder = dep.paymaster]
    /\ resolutionAt' = "fromHub"
    /\ UNCHANGED <<inited, typeTwo>> /\ Bounds

\* The hub is kept in the deployment before its own parts are asked for.
ResolveFromPaymaster ==
    /\ resolutionAt = "fromPaymaster"
    /\ ins' = [ins EXCEPT !.paymaster = dep.paymaster]
    /\ IF dep.paymaster \in oldVersion
       THEN resolutionAt' = "idle" /\ UNCHANGED dep
       ELSE /\ dep' = [dep EXCEPT !.hub = hubOf[dep.paymaster], !.forwarder = dep.paymaster]
            /\ resolutionAt' = "fromHub"
    /\ UNCHANGED <<inited, typeTwo>> /\ Bounds

\* Faulty: the registrar is left to be given.
ResolveWithoutRegistrar ==
    /\ resolutionAt = "fromHub" /\ resolutionAt' = "contracts"
    /\ ins' = [ins EXCEPT !.hub = dep.hub]
    /\ dep' = [dep EXCEPT !.stakeManager = dep.hub, !.penalizer = dep.hub]
    /\ UNCHANGED <<inited, typeTwo>> /\ Bounds

ResolveFromHub ==
    /\ resolutionAt = "fromHub" /\ resolutionAt' = "contracts"
    /\ ins' = [ins EXCEPT !.hub = dep.hub]
    /\ dep' = [dep EXCEPT !.stakeManager = dep.hub, !.penalizer = dep.hub, !.registrar = dep.hub]
    /\ UNCHANGED <<inited, typeTwo>> /\ Bounds

\* Faulty: every instance that is there is kept.
KeptInstancesAll == Fields

\* Hub, registrar and paymaster keep an instance that is there, the others are made anew.
KeptInstances == {"hub", "registrar", "paymaster"}

Instances(d) ==
    [f \in Fields |->
        IF d[f] = NoContract \/ (f \in KeptInstances /\ ins[f] # NoContract) THEN ins[f] ELSE d[f]]

InitializeContracts ==
    /\ resolutionAt = "contracts" /\ resolutionAt' = "version"
    /\ ins' = Instances(dep)
    /\ UNCHANGED <<dep, inited, typeTwo>> /\ Bounds

\* Only the hub's version is looked at here.
ValidateCompatibility ==
    /\ resolutionAt = "version"
    /\ resolutionAt' = IF ins.hub # NoContract /\ ins.hub \in oldVersion THEN "idle" ELSE "network"
    /\ UNCHANGED <<dep, ins, inited, typeTwo>> /\ Bounds

InitializeNetworkParams ==
    /\ resolutionAt = "network" /\ resolutionAt' = "idle" /\ inited' = TRUE
    /\ UNCHANGED <<dep, ins, typeTwo>> /\ Bounds

\* The node does not answer: init throws where it is.
QuestionFails ==
    /\ resolutionAt \notin {"idle", "history"} /\ resolutionAt' = "idle"
    /\ questionFailures < MaxQuestionFailures /\ questionFailures' = questionFailures + 1
    /\ UNCHANGED <<chainFacts, dep, ins, inited, typeTwo, redeploys>>

\* initDeployment, with all the contracts of a hub and one of its paymasters.
InitDeployment ==
    /\ resolutionAt = "idle" /\ redeploys < MaxRedeploys /\ redeploys' = redeploys + 1
    /\ \E p \in Paymasters :
         LET d == [f \in Fields |-> IF f \in Parts THEN hubOf[p] ELSE p] IN
         dep' = d /\ ins' = Instances(d)
    /\ UNCHANGED <<chainFacts, resolutionAt, inited, typeTwo, questionFailures>>

ResolutionNext ==
    \/ Start \/ GetBlock \/ GetFeeHistory \/ ResolveDeployment \/ ResolveFromPaymaster \/ ResolveFromHub
    \/ InitializeContracts \/ ValidateCompatibility \/ InitializeNetworkParams
    \/ QuestionFails \/ InitDeployment

ResolutionSpec == ResolutionInit /\ [][ResolutionNext]_resolutionVars

-----------------------------------------------------------------------------
(* Properties *)

Completed == inited /\ resolutionAt = "idle"

\* A caller gives the paymaster or the hub, and init ran without a failure and without
\* another deployment put in its place.
Undisturbed == "both" \notin Sources /\ questionFailures = 0 /\ redeploys = 0

\* When an undisturbed init is completed on a paymaster or a hub, there is an instance of
\* every part of that hub, the paymaster's own hub, and of no other.
OneDeployment ==
    Undisturbed /\ Completed /\ (dep.paymaster # NoContract \/ dep.hub # NoContract) =>
        /\ \A f \in Parts : ins[f] = dep.hub
        /\ dep.paymaster # NoContract => hubOf[dep.paymaster] = dep.hub /\ ins.forwarder = dep.paymaster

\* When init is completed no contract it works with is of an old version, whatever failed
\* before, unless both addresses were given or the deployment was replaced.
VersionsChecked ==
    "both" \notin Sources /\ redeploys = 0 /\ Completed =>
        ins.hub \notin oldVersion /\ ins.paymaster \notin oldVersion

\* What every initialization makes anew is of the deployment, whatever failed or was
\* deployed before.
FreshInstances == Completed => \A f \in {"stakeManager", "penalizer", "forwarder"} : ins[f] = dep[f]

\* The instances are of one deployment whose versions were looked at.
ResolutionFits == ResolutionTypeOK /\ OneDeployment /\ VersionsChecked /\ FreshInstances
=============================================================================
