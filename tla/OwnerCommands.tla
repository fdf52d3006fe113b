---------------------------- MODULE OwnerCommands ----------------------------
(***************************************************************************)
(* The owner's command that registers a relay server: it funds the         *)
(* server's manager, waits until the server has set its owner, buys,       *)
(* approves and stakes the token, authorizes the hub, and waits until the  *)
(* server says that it is ready.                                           *)
(*                                                                         *)
(* Each transaction and each wait is a step.  A transaction may fail, a    *)
(* wait may end, and the command may be stopped; the owner then runs it    *)
(* again, with the same options or with others.  One terminal runs one     *)
(* command at a time.                                                      *)
(***************************************************************************)
EXTENDS Integers

CONSTANTS Commands,      \* terminals in which the command is run
          Askable,       \* the options it is run with
          MinimumStake,  \* the hub's for the token
          MinimumDelay,  \* the hub's minimumUnstakeDelay
          MaxRuns,       \* bound on runs
          MaxFailures    \* bound on transactions that fail, waits that end and runs stopped

OptionRecords == [stake : Nat, delay : Nat, funds : Nat, wrap : BOOLEAN, owner : BOOLEAN]

CommandsAssumption ==
    /\ {MinimumStake, MinimumDelay} \subseteq Nat \ {0} /\ {MaxRuns, MaxFailures} \subseteq Nat
    /\ Askable \subseteq OptionRecords

VARIABLES stake,        \* StakeManager: the stake of the manager,
          delay,        \*   its unstake delay,
          owned,        \*   its owner is set,
          authorized,   \*   and the hub is authorized
          balance,      \* the manager's account
          tokens,       \* the owner's tokens
          allowance,    \* what StakeManager may take of them
          ready,        \* the server's answer to a ping
          command,      \* the runs
          runs, funded, spent, stepFailures,
          asked         \* the options of the runs so far

staking == <<stake, delay, owned, authorized>>
purse == <<tokens, allowance>>
counts == <<runs, funded, spent, stepFailures, asked>>
commandVars == <<staking, balance, purse, ready, command, counts>>

Steps == {"idle", "info", "fund", "owner", "check", "wrap", "approve", "stake", "verify", "wait"}
Results == {"none", "success", "nothing", "failed", "refused"}

\* A run: how far it is, its options, what it read of stake, delay and owner, its outcome.
RunRecords == [at : Steps, options : OptionRecords, seen : Nat \X Nat \X BOOLEAN, result : Results]

CommandsTypeOK ==
    /\ stake \in Nat /\ delay \in {0} \union {o.delay : o \in asked}
    /\ {owned, authorized, ready} \subseteq BOOLEAN
    /\ {balance, tokens, allowance, funded, spent} \subseteq Nat
    /\ balance = funded - spent /\ asked \subseteq Askable
    /\ runs \in 0..MaxRuns /\ stepFailures \in 0..MaxFailures
    /\ command \in [Commands -> RunRecords]
    /\ \A c \in Commands : command[c].at # "idle" => command[c].options \in asked

NoOptions == [stake |-> 0, delay |-> 0, funds |-> 0, wrap |-> FALSE, owner |-> FALSE]
Resting == [at |-> "idle", options |-> NoOptions, seen |-> <<0, 0, FALSE>>, result |-> "none"]

CommandsInit ==
    /\ stake = 0 /\ delay = 0 /\ owned = FALSE /\ authorized = FALSE
    /\ balance = 0 /\ tokens = 0 /\ allowance = 0 /\ ready = FALSE
    /\ command = [c \in Commands |-> Resting]
    /\ runs = 0 /\ funded = 0 /\ spent = 0 /\ stepFailures = 0 /\ asked = {}

-----------------------------------------------------------------------------
(* The server *)

\* It sets its owner when its manager has something to pay with.
ServerSetsOwner ==
    /\ ~owned /\ balance > 0
    /\ owned' = TRUE /\ balance' = balance - 1 /\ spent' = spent + 1
    /\ UNCHANGED <<stake, delay, authorized, purse, ready, command, runs, funded, stepFailures, asked>>

\* The hub's view of the manager.
Staked == stake >= MinimumStake /\ delay >= MinimumDelay /\ authorized

ServerRegisters ==
    /\ ~ready /\ owned /\ Staked /\ balance > 0
    /\ ready' = TRUE /\ balance' = balance - 1 /\ spent' = spent + 1
    /\ UNCHANGED <<staking, purse, command, runs, funded, stepFailures, asked>>

-----------------------------------------------------------------------------
(* registerRelay *)

At(c, step) == command[c].at = step
Options(c) == command[c].options
To(c, step) == command' = [command EXCEPT ![c].at = step]
EndsRun(c, result) ==
    command' = [command EXCEPT ![c] = [Resting EXCEPT !.result = result, !.options = command[c].options]]

Run(c) ==
    /\ At(c, "idle") /\ runs < MaxRuns /\ runs' = runs + 1
    /\ \E o \in Askable :
         /\ command' = [command EXCEPT ![c] = [Resting EXCEPT !.at = "info", !.options = o]]
         /\ asked' = asked \union {o}
    /\ UNCHANGED <<staking, balance, purse, ready, funded, spent, stepFailures>>

\* The server is asked whether it is ready and who its owner is, and StakeManager what it
\* knows of the manager.
ReadStakeInfo(c) ==
    /\ At(c, "info")
    /\ \/ ready /\ EndsRun(c, "nothing")
       \/ ~ready /\ ~Options(c).owner /\ EndsRun(c, "refused")
       \/ ~ready /\ Options(c).owner /\ command' = [command EXCEPT ![c].at = "fund", ![c].seen = <<stake, delay, owned>>]
    /\ UNCHANGED <<staking, balance, purse, ready, counts>>

SeenStake(c) == command[c].seen[1]
SeenDelay(c) == command[c].seen[2]
SeenOwned(c) == command[c].seen[3]

\* A manager that has more than the funds is not funded.
Fund(c) ==
    /\ At(c, "fund") /\ To(c, IF SeenOwned(c) THEN "check" ELSE "owner")
    /\ \/ balance > Options(c).funds /\ UNCHANGED <<balance, funded>>
       \/ /\ balance <= Options(c).funds
          /\ balance' = balance + Options(c).funds /\ funded' = funded + Options(c).funds
    /\ UNCHANGED <<staking, purse, ready, runs, spent, stepFailures, asked>>

WaitForOwner(c) ==
    /\ At(c, "owner") /\ owned /\ To(c, "check")
    /\ UNCHANGED <<staking, balance, purse, ready, counts>>

\* Faulty: a stake that is enough, or a delay, makes the other unimportant.
AlreadyStakedOrDelayed(c) == SeenDelay(c) >= Options(c).delay \/ SeenStake(c) >= Options(c).stake

AlreadyStaked(c) == SeenDelay(c) >= Options(c).delay /\ SeenStake(c) >= Options(c).stake

\* Faulty: the minimum itself is not enough.
EligibleAbove(o) == o.stake > MinimumStake /\ o.delay >= MinimumDelay

Eligible(o) == o.stake >= MinimumStake /\ o.delay >= MinimumDelay

Check(c) ==
    /\ At(c, "check")
    /\ \/ AlreadyStaked(c) /\ To(c, "verify")
       \/ ~AlreadyStaked(c) /\ Eligible(Options(c)) /\ To(c, "wrap")
       \/ ~AlreadyStaked(c) /\ ~Eligible(Options(c)) /\ EndsRun(c, "refused")
    /\ UNCHANGED <<staking, balance, purse, ready, counts>>

\* Faulty: the stake there is already is staked once more.
StakeValueWhole(c) == Options(c).stake

StakeValue(c) == Options(c).stake - SeenStake(c)

\* The whole value is wrapped when the tokens the owner has are too few.
Wrap(c) ==
    /\ At(c, "wrap") /\ To(c, "approve")
    /\ tokens' = IF tokens < StakeValue(c) /\ Options(c).wrap THEN tokens + StakeValue(c) ELSE tokens
    /\ UNCHANGED <<staking, balance, allowance, ready, counts>>

Approve(c) ==
    /\ At(c, "approve") /\ To(c, "stake")
    /\ allowance' = IF allowance < StakeValue(c) THEN StakeValue(c) ELSE allowance
    /\ UNCHANGED <<staking, balance, tokens, ready, counts>>

\* StakeManager refuses a smaller delay, and what the owner cannot pay; a negative value is
\* no argument of the call.
CanStake(c) ==
    /\ owned /\ Options(c).delay >= delay
    /\ StakeValue(c) >= 0 /\ StakeValue(c) <= tokens /\ StakeValue(c) <= allowance

StakeForRelayManager(c) ==
    /\ At(c, "stake")
    /\ \/ /\ CanStake(c) /\ To(c, "verify")
          /\ stake' = stake + StakeValue(c) /\ delay' = Options(c).delay
          /\ tokens' = tokens - StakeValue(c) /\ allowance' = allowance - StakeValue(c)
       \/ ~CanStake(c) /\ EndsRun(c, "refused") /\ UNCHANGED <<stake, delay, purse>>
    /\ UNCHANGED <<owned, authorized, balance, ready, counts>>

\* Faulty: the hub is authorized only when it was not staked for before.
AuthorizeFirst(c) ==
    /\ At(c, "verify") /\ To(c, "wait")
    /\ authorized' = (authorized \/ SeenStake(c) = 0)
    /\ UNCHANGED <<stake, delay, owned, balance, purse, ready, counts>>

\* Whatever the hub finds missing, it is authorized again.
AuthorizeHubByOwner(c) ==
    /\ At(c, "verify") /\ To(c, "wait")
    /\ authorized' = TRUE
    /\ UNCHANGED <<stake, delay, owned, balance, purse, ready, counts>>

WaitForRelay(c) ==
    /\ At(c, "wait") /\ ready /\ EndsRun(c, "success")
    /\ UNCHANGED <<staking, balance, purse, ready, counts>>

\* A transaction fails, a wait is over, or the command is stopped.
Fails(c) ==
    /\ ~At(c, "idle") /\ stepFailures < MaxFailures /\ stepFailures' = stepFailures + 1
    /\ EndsRun(c, "failed")
    /\ UNCHANGED <<staking, balance, purse, ready, runs, funded, spent, asked>>

Step(c) ==
    \/ ReadStakeInfo(c) \/ Fund(c) \/ WaitForOwner(c) \/ Check(c) \/ Wrap(c) \/ Approve(c)
    \/ StakeForRelayManager(c) \/ AuthorizeHubByOwner(c) \/ WaitForRelay(c)

CommandsNext ==
    \/ \E c \in Commands : Run(c) \/ Step(c) \/ Fails(c)
    \/ ServerSetsOwner \/ ServerRegisters

CommandsSpec == CommandsInit /\ [][CommandsNext]_commandVars

\* A run that was started goes on, and the server does its part.
FairCommands ==
    /\ CommandsSpec /\ WF_commandVars(ServerSetsOwner) /\ WF_commandVars(ServerRegisters)
    /\ \A c \in Commands : WF_commandVars(Step(c))

-----------------------------------------------------------------------------
(* Properties *)

\* However often the command fails and is run again, no more is staked than the most it was
\* asked for.
NoOverstake == stake = 0 \/ \E o \in asked : stake <= o.stake

\* A run that reports success leaves at least the stake and the delay it was asked for.
SuccessIsStaked ==
    \A c \in Commands : command[c].result = "success" =>
        stake >= command[c].options.stake /\ delay >= command[c].options.delay /\ Staked

\* The command was only run with the same options, that are eligible, and wraps.
SameAgain == \E o \in asked :
    asked = {o} /\ o.stake >= MinimumStake /\ o.delay >= MinimumDelay /\ o.wrap /\ o.owner

\* It is not refused then, whatever step the runs before failed at.
RetryNotRefused == SameAgain => \A c \in Commands : command[c].result # "refused"

\* Runs that fail and are repeated stake no more than was asked for, a run that reports
\* success leaves what it was asked for, and a command that was eligible is not refused
\* when it is repeated (registerRelay).
StakeAsAsked == CommandsTypeOK /\ NoOverstake /\ SuccessIsStaked /\ RetryNotRefused

\* A command was run, and neither is the server ready nor has the run failed.
RunUnfinished(c) == runs > 0 /\ ~(At(c, "idle") /\ (ready \/ command[c].result = "failed"))

=============================================================================
