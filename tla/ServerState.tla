----------------------------- MODULE ServerState -----------------------------
(***************************************************************************)
(* What a relay server keeps of the world outside: its registration, its   *)
(* balances, and the transactions an explorer listed.  The three do not    *)
(* share state; what they remember is asked for in one place.              *)
(***************************************************************************)
EXTENDS Registration, ServerBalances, TxByNonce

\* What the server remembers of the chain is so: one that has seen every event is
\* ready only while it is staked and registered, unless its stake was withdrawn before
\* it handled the unlocking, and it keeps its balance as long as it has a stake; one that
\* does not replenish twice at a time knows the balance of its worker, or that it has to
\* look; the cache of the explorer holds what was mined, and a first search finds it.
RememberedIsTrue ==
    /\ RegistrationTypeOK /\ ManagerKeepsBalance
    /\ PromptServer => ReadyIsStaked
    /\ BalancesTypeOK
    /\ ~Overlap => StaleIsFlagged
    /\ SearchTypeOK /\ CacheIsMined /\ FirstSearchFinds

\* No refill of the worker while one is pending or was mined recently ("server should
\* not repeat its actions"), and none that takes the minimum of the manager, when
\* requests and passes wait for each other; funds leave only when a removal is due or the
\* stake was withdrawn ("should not send balance immediately after unauthorize").
MoneyKept ==
  [][/\ ~Overlap => NoRepeatedRefillStep /\ ManagerKeepsMinimumStep
     /\ FundsLeaveInTimeStep]_<<balanceVars, registrationVars>>
=============================================================================
