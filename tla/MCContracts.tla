----------------------------- MODULE MCContracts ----------------------------
(* The contracts beside the asset pool, side by side: a behaviour is one of
   one component. *)
EXTENDS RewardPoolRegistry, RebelRunRaffle, RedeemPaymaster, FiniteSetsExt, TLC

CONSTANTS p1, p2, a1, a2, alice, bob, operator, hookless, wallet, refusing, erc20, zero,
          pool1, pool2, t1, t2, t3

\* Two names, one with spaces at its ends too, and one that is refused.
MCTrimmed == ("a" :> "a") @@ ("_a_" :> "a") @@ ("b" :> "b") @@ ("" :> "")
MCRawNames == DOMAIN MCTrimmed
MCValidNames == {"a", "b"}

\* No token where one is needed, and a new one.
MCMethods == {<<"ExistingERC20", zero>>, <<"CustomERC20", zero>>}

\* Lists with a name twice.
MCRoleLists == {<<alice>>, <<bob>>, <<bob, bob>>}

\* Bound: one more role or pause is given to reward pools that have one between them.
FewChanges ==
    MapThenSumSet(LAMBDA p :
        Cardinality(rewardPool[p].admins) + Cardinality(rewardPool[p].transferrers)
        + IF Created(p) /\ ~rewardPool[p].active THEN 1 ELSE 0, RewardPools) <= 1

AnyAddress == Permutations(RewardPools) \cup Permutations(AssetPools)

\* Both reward pools have an asset pool for ticket 1, only the first one for ticket 2.
MCAssetPoolById == (pool1 :> <<t1, t2>>) @@ (pool2 :> <<t3, zero>>)

\* No candidate, and lists with a name twice, in one of which is one who takes no token.
Repeating == {<<>>, <<bob, alice, bob>>, <<alice, alice, hookless>>}

\* Two to four different candidates.
Distinct == {<<alice, bob>>, <<alice, bob, operator>>, <<alice, bob, operator, hookless>>}

MCCandidates == Repeating \cup Distinct

FewWords == INSTANCE RebelRunRaffle
            WITH Candidates <- Repeating, Tickets <- {0, 2, 3}, Words <- {0, 1, 2}

\* Words are even over the remainders of 1 to 4.
EvenWords == INSTANCE RebelRunRaffle
             WITH Candidates <- Distinct, Tickets <- {1, 2}, RequestIds <- {"r1"}

VARIABLE component   \* the one this behaviour is of

allVars == <<component, vars, raffleVars, paymasterVars>>

ContractsInit ==
    /\ component \in {"registry", "raffle", "evenRaffle", "paymaster"}
    /\ Init /\ (component # "registry" => revenueWallet = wallet)
    /\ RaffleInit
    /\ PaymasterInit /\ (component # "paymaster" => ~erc1155 /\ price = 1 /\ barred = {})

ContractsNext ==
    /\ UNCHANGED component
    /\ IF component = "registry" THEN Next ELSE UNCHANGED vars
    /\ CASE component = "raffle" -> FewWords!RaffleNext
         [] component = "evenRaffle" -> EvenWords!RaffleNext
         [] OTHER -> UNCHANGED raffleVars
    /\ IF component = "paymaster" THEN PaymasterNext ELSE UNCHANGED paymasterVars

ContractsSpec == ContractsInit /\ [][ContractsNext]_allVars
=============================================================================
