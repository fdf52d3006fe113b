------------------------------ MODULE Deployments ------------------------------
(***************************************************************************)
(* The two ways an instance of every contract is had: a client resolves    *)
(* them from one address, and the operator's command deploys and saves     *)
(* them.                                                                   *)
(***************************************************************************)
EXTENDS DeploymentResolution, GsnDeployment

\* A client's instances are of one deployment and of versions it looked at, and what the
\* command saved works together.
ContractsFit == ResolutionFits /\ DeploymentFits
=============================================================================
