------------------------------- MODULE GasFees -------------------------------
(***************************************************************************)
(* What a client offers for its request and what the server asks.  Both    *)
(* ask their own node for the fees of the network, at different times.     *)
(* The server keeps two minima and refreshes them once a block; the client *)
(* adds a factor to what it read, compares the fees with the answer of the *)
(* server to a ping, and sends the request; the server compares again.     *)
(* The client compares once more, when the transaction comes back.         *)
(*                                                                         *)
(* Fees are numbers of a unit of the network's currency.  On a chain       *)
(* without base fees (legacy) a node names one price of gas.               *)
(***************************************************************************)
EXTENDS Integers

CONSTANTS Prices,              \* what a node may name, and what a caller may give
          Givens,              \* what callers give: "both", "gasPrice", "one", "none"
          Chains,              \* subset of {"legacy", "typeTwo"}
          GasPriceFactorPercent,    \* the client's
          MinMaxPriorityFeePerGas,  \* the client's
          ServerFactorPercent,      \* gasPriceFactor of the server, in percent
          DefaultPriorityFee,       \* the server's
          MaxMaxFeePerGas,          \* the server's
          EnvironmentFactor,        \* getGasPriceFactor
          MaxChanges           \* bound on changes of the network's fees

ASSUME GasFeesAssumption ==
    /\ Prices \subseteq Nat /\ Prices # {}
    /\ Givens \subseteq {"both", "gasPrice", "one", "none"}
    /\ Chains \subseteq {"legacy", "typeTwo"}
    /\ {GasPriceFactorPercent, MinMaxPriorityFeePerGas, ServerFactorPercent,
        DefaultPriorityFee, MaxMaxFeePerGas, EnvironmentFactor, MaxChanges} \subseteq Nat

VARIABLES chainKind,  \* the kind of chain
          network,    \* what a node would answer now
          server,     \* minima, readiness, and the answer they were made from
          client,     \* where the client's request is, its fees, and what it knows
          feeChanges

feeVars == <<chainKind, network, server, client, feeChanges>>

Fees(b, p) == [base |-> b, priority |-> p]
NetworkFees == [base : Nat, priority : Nat]

\* getGasFees: one price on a legacy chain; the price of getGasPrice has the factor.
GasFees(n) ==
    IF chainKind = "legacy" THEN Fees(n.base * EnvironmentFactor, n.base * EnvironmentFactor) ELSE n

\* Math.round of n with pct percent added
Raised(n, pct) == (2 * n * (pct + 100) + 100) \div 200

NoTx == [type |-> "none", maxFee |-> 0, priority |-> 0]

FeesInit ==
    /\ chainKind \in Chains
    /\ network \in {Fees(b, p) : b \in Prices, p \in Prices}
    /\ server = [minMaxFee |-> 0, minPriority |-> 0, ready |-> FALSE, from |-> Fees(0, 0)]
    /\ client = [at |-> "idle", given |-> "none", maxFee |-> 0, priority |-> 0,
                 from |-> Fees(0, 0), fresh |-> FALSE, tx |-> NoTx]
    /\ feeChanges = 0

FeesTypeOK ==
    /\ chainKind \in Chains /\ feeChanges \in 0..MaxChanges
    /\ network \in [base : Prices, priority : Prices]
    /\ server \in [minMaxFee : Nat, minPriority : Nat, ready : BOOLEAN, from : NetworkFees]
    /\ client \in [at : {"idle", "fees", "pinged", "filtered", "refused", "unready", "answered",
                         "done", "error"},
                   given : {"both", "gasPrice", "one", "none"}, maxFee : Nat, priority : Nat,
                   from : NetworkFees, fresh : BOOLEAN,
                   tx : [type : {"none", "legacy", "typeTwo"}, maxFee : Nat, priority : Nat]]

-----------------------------------------------------------------------------
(* The network and the server *)

FeesChange(b, p) ==
    /\ feeChanges < MaxChanges
    /\ network' = Fees(b, p) /\ network' # network
    /\ feeChanges' = feeChanges + 1
    /\ UNCHANGED <<chainKind, server, client>>

\* Math.floor of the network's priority fee with the server's factor, or the default.
ServerPriority(f) ==
    LET p == (f.priority * ServerFactorPercent) \div 100
    IN  IF p = 0 THEN DefaultPriorityFee ELSE p

\* The minima are kept even when they are above the maximum, and the pass fails.
RefreshGasFees ==
    LET f == GasFees(network)
        p == ServerPriority(f)
    IN  /\ server' = [minMaxFee |-> f.base, minPriority |-> p, from |-> network,
                      ready |-> p <= MaxMaxFeePerGas /\ f.base <= MaxMaxFeePerGas]
        /\ client' = [client EXCEPT !.fresh = @ /\ f = GasFees(server.from)]
        /\ UNCHANGED <<chainKind, network, feeChanges>>

-----------------------------------------------------------------------------
(* The client *)

\* Faulty: the priority fee the user is asked for is not part of the fee.
FeesWithoutPriority(f) ==
    [maxFee |-> Raised(f.base, GasPriceFactorPercent),
     priority |-> Raised(f.priority, GasPriceFactorPercent)]

CalculateGasFees(f) ==
    LET p == Raised(f.priority, GasPriceFactorPercent)
        priority == IF p < MinMaxPriorityFeePerGas THEN MinMaxPriorityFeePerGas ELSE p
        maxFee == Raised(f.base + priority, GasPriceFactorPercent)
    IN  [maxFee |-> IF maxFee = 0 THEN priority ELSE maxFee, priority |-> priority]

\* _fixGasFees of the provider: a caller gives both fees, a price, or nothing.
FixGasFees ==
    /\ client.at = "idle"
    /\ \E given \in Givens :
         \/ given = "one" /\ client' = [client EXCEPT !.at = "error", !.given = given]
         \/ /\ given = "none"
            /\ LET f == CalculateGasFees(GasFees(network))
               IN  client' = [client EXCEPT !.at = "fees", !.given = given, !.from = network,
                                            !.maxFee = f.maxFee, !.priority = f.priority]
         \/ /\ given \in {"both", "gasPrice"}
            /\ \E x \in Prices, y \in Prices :
                 /\ given = "gasPrice" => x = y
                 /\ client' = [client EXCEPT !.at = "fees", !.given = given,
                                             !.maxFee = x, !.priority = y]
    /\ UNCHANGED <<chainKind, network, server, feeChanges>>

\* Faulty: the client does not look at the fee as a whole.
FilterPriority ==
    /\ client.priority >= server.minPriority
    /\ client.maxFee <= MaxMaxFeePerGas

\* GasPricePingFilter
PingFilter ==
    /\ client.priority >= server.minPriority
    /\ client.maxFee <= MaxMaxFeePerGas
    /\ client.maxFee >= server.minMaxFee

Ping ==
    /\ client.at = "fees"
    /\ client' = [client EXCEPT !.fresh = TRUE,
                     !.at = IF ~server.ready THEN "unready"
                            ELSE IF PingFilter THEN "pinged" ELSE "filtered"]
    /\ UNCHANGED <<chainKind, network, server, feeChanges>>

\* validateRequestTxType and validateGasFees of the server
TypeFits == chainKind = "legacy" => client.maxFee = client.priority

FeesFit ==
    /\ client.priority >= server.minPriority
    /\ client.maxFee >= server.minMaxFee
    /\ client.maxFee <= MaxMaxFeePerGas
    /\ client.maxFee >= client.priority

\* The transaction the server signs: one price on a legacy chain.
ServerTx ==
    [type |-> chainKind, maxFee |-> client.maxFee,
     priority |-> IF chainKind = "legacy" THEN client.maxFee ELSE client.priority]

RequestRelay ==
    /\ client.at = "pinged"
    /\ \/ ~server.ready /\ client' = [client EXCEPT !.at = "unready"]
       \/ server.ready /\ ~(TypeFits /\ FeesFit) /\ client' = [client EXCEPT !.at = "refused"]
       \/ server.ready /\ TypeFits /\ FeesFit
          /\ client' = [client EXCEPT !.at = "answered", !.tx = ServerTx]
    /\ UNCHANGED <<chainKind, network, server, feeChanges>>

\* _validateGasPrice: the fees of the transaction cover those of the request.
GasPriceValid ==
    \/ client.tx.type = "legacy" /\ client.tx.maxFee >= client.maxFee
    \/ /\ client.tx.type = "typeTwo"
       /\ client.tx.priority >= client.priority
       /\ client.tx.maxFee >= client.maxFee

Validate ==
    /\ client.at = "answered"
    /\ client' = [client EXCEPT !.at = IF GasPriceValid THEN "done" ELSE "error"]
    /\ UNCHANGED <<chainKind, network, server, feeChanges>>

FeesNext ==
    \/ \E b \in Prices, p \in Prices : FeesChange(b, p)
    \/ RefreshGasFees
    \/ FixGasFees \/ Ping \/ RequestRelay \/ Validate

FeesSpec == FeesInit /\ [][FeesNext]_feeVars

-----------------------------------------------------------------------------
(* Properties *)

\* A request that passed the filter is refused for its fees only when the server has
\* refreshed to other fees since, or the caller gave a fee below its own priority fee, or
\* the chain has one price and the fees differ.
RefusedForAReason ==
    client.at = "refused" =>
        \/ ~client.fresh
        \/ client.maxFee < client.priority
        \/ chainKind = "legacy" /\ client.maxFee # client.priority

\* The client adds no less to a fee than the server asks of it, as by default: 20 percent,
\* and both start from one priority fee.
FactorsFit ==
    /\ ServerFactorPercent <= 100 + GasPriceFactorPercent
    /\ DefaultPriorityFee <= MinMaxPriorityFeePerGas

\* Fees the client computed from the same answer of a node as the server's minima pass the
\* client's own filter, unless they are above the server's maximum.
OwnFeesPass ==
    client.at = "filtered" /\ client.given = "none" /\ client.from = server.from /\ client.fresh
        => client.maxFee > MaxMaxFeePerGas

=============================================================================
