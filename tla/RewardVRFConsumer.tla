-------------------------- MODULE RewardVRFConsumer -------------------------
(***************************************************************************)
(* RewardVRFConsumerV1 and the Chainlink VRF wrapper behind it.            *)
(*                                                                         *)
(* A request costs LINK when it is made and is answered once, at any later *)
(* time and in any order.  The wrapper swallows a callback that reverts    *)
(* and never calls again, so an answered request is settled either way.    *)
(***************************************************************************)
EXTENDS Deployment

CONSTANTS RequestIds,   \* bound: the requests the wrapper can number
          LinkSupply    \* bound: LINK the consumer can hold, in request fees

VARIABLES requests,     \* requests[r]: where r stands and whom it serves
          link          \* LINK held by the consumer, in request fees

vrfVars == <<requests, link>>

ASSUME VRFAssumption == IsFiniteSet(RequestIds) /\ LinkSupply \in Nat

NoRequest == [status |-> "none", assetPool |-> ZeroAddress,
              receiver |-> ZeroAddress]

Requests == [status : {"pending", "fulfilled", "failed"},
             assetPool : AssetPools, receiver : Accounts]

VRFTypeOK ==
    /\ requests \in [RequestIds -> Requests \cup {NoRequest}]
    /\ link \in 0 .. LinkSupply

VRFInit ==
    /\ requests = [r \in RequestIds |-> NoRequest]
    /\ link = 0

\* The requests made for asset pool p that are in state st.
RequestsIn(p, st) ==
    {r \in RequestIds : requests[r].assetPool = p /\ requests[r].status = st}

Pending(p) == Cardinality(RequestsIn(p, "pending"))
Failed(p) == Cardinality(RequestsIn(p, "failed"))

\* requestRandomWords, called once for each of the fresh ids in ids.
RequestRandomWords(p, receiver, ids) ==
    /\ \A r \in ids : requests[r].status = "none"
    /\ Cardinality(ids) <= link
    /\ link' = link - Cardinality(ids)
    /\ requests' = [r \in RequestIds |->
                       IF r \in ids THEN [status |-> "pending", assetPool |-> p,
                                          receiver |-> receiver]
                                    ELSE requests[r]]

\* The wrapper's one answer to r; status says whether the callback went through.
Settle(r, status) ==
    /\ requests[r].status = "pending"
    /\ requests' = [requests EXCEPT ![r].status = status]
    /\ UNCHANGED link

-----------------------------------------------------------------------------
(* Steps of the consumer that involve no asset pool. *)

DepositLink ==
    /\ link < LinkSupply
    /\ link' = link + 1
    /\ UNCHANGED requests

WithdrawLink(sender) ==
    /\ sender = Owner
    /\ link' = 0
    /\ UNCHANGED requests
=============================================================================
