----------------------------- MODULE ClientState -----------------------------
(***************************************************************************)
(* What an application may rely on while its requests are relayed: the     *)
(* accounts it was handed and the paymaster it asked for, the receipts of  *)
(* its requests, and the fees they offer.  The three do not share state;   *)
(* what they promise is asked for in one place.                            *)
(***************************************************************************)
EXTENDS ClientInit, ProviderReceipts, GasFees

\* When nothing is called during an init, accounts handed to the application keep signing,
\* and after init(true) requests are made with the token paymaster.  A request that was
\* executed has the receipt of its execution, whatever was mined around it, what was mined
\* is found as long as it is in reach, and a success stands.  Fees the client computed from
\* the same answer of a node as the minima of the server pass its own filter unless they are
\* above the maximum of the server, when the client adds no less than the server asks, and
\* what passed the filter is refused only for fees that were refreshed, given too low, or
\* different on a chain with one price.
ClientKeeps ==
    /\ [](/\ SetupTypeOK /\ (~Eager => KeysKept /\ TokenPaymasterKept)
          /\ ReceiptsTypeOK /\ ReceiptIsTrue /\ MinedIsFound
          /\ FeesTypeOK /\ RefusedForAReason /\ (FactorsFit => OwnFeesPass))
    /\ [][SuccessStandsStep]_receiptVars
=============================================================================
