------------------------------ MODULE ClientInit ------------------------------
(***************************************************************************)
(* Initialising the relay client and the accounts it signs for.            *)
(*                                                                         *)
(* An application calls init(), with or without the token paymaster, asks  *)
(* for ephemeral accounts, signs and sends with them.  init() awaits the   *)
(* network several times and then installs the client's dependencies, the  *)
(* account manager with its keys among them; sending initialises a client  *)
(* that is not initialised yet.                                            *)
(***************************************************************************)
EXTENDS Integers

CONSTANTS AppCalls,     \* the application's calls
          KindOf,       \* what each call is: init, tokenInit, account, sign or send
          Eager,        \* whether calls are made while an init is under way
          MaxInitFailures   \* bound on failing awaits

ASSUME InitAssumption ==
    /\ KindOf \in [AppCalls -> {"init", "tokenInit", "account", "sign", "send"}]
    /\ Eager \in BOOLEAN /\ MaxInitFailures \in Nat

VARIABLES callAt,       \* where each call is
          initialized,  \* RelayClient.initialized
          config,       \* the paymaster of RelayClient.config
          resolved,     \* the paymaster in the configuration each init resolved
          deps,         \* RelayClient.dependencies: its number, paymaster and accounts
          handed,       \* the ephemeral accounts the application has
          initFailures

setupVars == <<callAt, initialized, config, resolved, deps, handed, initFailures>>

PaymasterKinds == {"none", "plain", "token"}
Accounts == {c \in AppCalls : KindOf[c] = "account"}    \* each call's account
Starts == {"config", "deps", "check"}

SetupTypeOK ==
    /\ callAt \in [AppCalls -> {"idle", "relay", "done", "thrown", "wallet"} \cup Starts]
    /\ initialized \in BOOLEAN
    /\ config \in PaymasterKinds /\ resolved \in [AppCalls -> PaymasterKinds]
    /\ deps \in [paymaster : PaymasterKinds, accounts : SUBSET Accounts]
    /\ handed \subseteq Accounts /\ initFailures \in 0..MaxInitFailures
    /\ initialized => deps.paymaster # "none"

SetupInit ==
    /\ callAt = [c \in AppCalls |-> "idle"]
    /\ initialized = FALSE /\ config = "none" /\ resolved = [c \in AppCalls |-> "none"]
    /\ deps = [paymaster |-> "none", accounts |-> {}]
    /\ handed = {} /\ initFailures = 0

GoOn(c, where) == callAt' = [callAt EXCEPT ![c] = where]

\* The application waits for an init to end, or does not.
MayCall(c) == callAt[c] = "idle" /\ (Eager \/ \A other \in AppCalls : callAt[other] \notin Starts)

-----------------------------------------------------------------------------
(* init.                                                                   *)

\* Faulty: a client that is initialised is initialised again.
AlreadyNever == FALSE
Already == initialized

\* init() throws when there was one, and is under way otherwise.
StartInit(c) ==
    /\ MayCall(c) /\ KindOf[c] \in {"init", "tokenInit"}
    /\ GoOn(c, IF Already THEN "thrown" ELSE "config")
    /\ UNCHANGED <<initialized, config, resolved, deps, handed, initFailures>>

\* Faulty: every send resolves the configuration.
SendAlways == TRUE
SendInits == ~initialized

\* relayTransaction initialises the client first.
StartSend(c) ==
    /\ MayCall(c) /\ KindOf[c] = "send"
    /\ GoOn(c, IF SendInits THEN "config" ELSE "relay")
    /\ UNCHANGED <<initialized, config, resolved, deps, handed, initFailures>>

\* _resolveConfiguration; the paymaster is replaced when the caller asked so.
ResolveConfiguration(c) ==
    /\ callAt[c] = "config"
    /\ config' = IF KindOf[c] = "tokenInit" THEN "token" ELSE "plain"
    /\ resolved' = [resolved EXCEPT ![c] = config']
    /\ GoOn(c, "deps")
    /\ UNCHANGED <<initialized, deps, handed, initFailures>>

\* _resolveDependencies creates the account manager.
ResolveDependencies(c) ==
    /\ callAt[c] = "deps"
    /\ deps' = [paymaster |-> resolved[c], accounts |-> {}]
    /\ GoOn(c, "check")
    /\ UNCHANGED <<initialized, config, resolved, handed, initFailures>>

\* The contracts' interfaces were checked; the caller goes on.
EndInit(c) ==
    /\ callAt[c] = "check"
    /\ initialized' = TRUE
    /\ GoOn(c, IF KindOf[c] = "send" THEN "relay" ELSE "done")
    /\ UNCHANGED <<config, resolved, deps, handed, initFailures>>

\* Whatever an init awaits may fail; its caller gets the error.
FailInit(c) ==
    /\ callAt[c] \in Starts /\ initFailures < MaxInitFailures
    /\ initFailures' = initFailures + 1
    /\ GoOn(c, "thrown")
    /\ UNCHANGED <<initialized, config, resolved, deps, handed>>

-----------------------------------------------------------------------------
(* Accounts.                                                               *)

\* newAccount needs an initialised client.
NewAccount(c) ==
    /\ MayCall(c) /\ KindOf[c] = "account"
    /\ \/ /\ initialized
          /\ deps' = [deps EXCEPT !.accounts = @ \cup {c}]
          /\ handed' = handed \cup {c}
          /\ GoOn(c, "done")
       \/ /\ ~initialized /\ GoOn(c, "thrown") /\ UNCHANGED <<deps, handed>>
    /\ UNCHANGED <<initialized, config, resolved, initFailures>>

\* isEphemeralAccount: keys the client has sign here, the wallet is asked for
\* the others.
Signed(account) == IF account \in deps.accounts THEN "done" ELSE "wallet"

\* eth_sign, eth_signTransaction, eth_signTypedData.
SignData(c) ==
    /\ MayCall(c) /\ KindOf[c] = "sign"
    /\ \E account \in handed : GoOn(c, Signed(account))
    /\ UNCHANGED <<initialized, config, resolved, deps, handed, initFailures>>

\* A request from an account of the application is signed for the relay.
SignRequest(c) ==
    /\ callAt[c] = "relay"
    /\ \/ \E account \in handed : GoOn(c, Signed(account))
       \/ handed = {} /\ GoOn(c, "done")
    /\ UNCHANGED <<initialized, config, resolved, deps, handed, initFailures>>

InitStep(c) == ResolveConfiguration(c) \/ ResolveDependencies(c) \/ EndInit(c) \/ FailInit(c)
SetupNext == \E c \in AppCalls : StartInit(c) \/ StartSend(c) \/ InitStep(c) \/ NewAccount(c) \/ SignData(c) \/ SignRequest(c)

SetupSpec == SetupInit /\ [][SetupNext]_setupVars

-----------------------------------------------------------------------------
(* Properties.                                                             *)

\* Accounts handed to the application keep signing: none is passed to the
\* wallet, which does not have its key.
KeysKept == \A c \in AppCalls : callAt[c] # "wallet"

\* After init(true) returned, requests are made with the token paymaster.
TokenPaymasterKept ==
    (\E c \in AppCalls : KindOf[c] = "tokenInit" /\ callAt[c] = "done") => deps.paymaster = "token"

=============================================================================
