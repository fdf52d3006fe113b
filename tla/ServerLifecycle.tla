--------------------------- MODULE ServerLifecycle ---------------------------
(***************************************************************************)
(* Starting and stopping a relay server in the process of a test           *)
(* environment.  startGsn stops the server it has, deploys, makes a new    *)
(* server, registers it, and waits until it answers that it is ready.      *)
(* Each server runs its passes from a timer that the end of a pass sets    *)
(* again, and counts the time it was ready.                                *)
(*                                                                         *)
(* The callback of listen comes before any other work of the process: a    *)
(* server listens and runs in one step.  What a pass does is in the        *)
(* modules of the server; here it may send a transaction, and it leaves    *)
(* the server ready or not.                                                *)
(***************************************************************************)
EXTENDS Integers, FiniteSets

CONSTANTS MaxStarts,  \* bound on calls of startGsn
          MaxTime,    \* the clock stops here, and timeouts are cut to it
          Timeout     \* of waitForRelay

ASSUME LifecycleAssumption == {MaxStarts, MaxTime, Timeout} \subseteq Nat \ {0}

VARIABLES env,      \* where the environment's call is, its httpServer, its deadline
          made,     \* servers made so far: server s exists when s <= made
          server,   \* the servers
          now,
          readyFor  \* the time each server was ready, for the properties

lifecycleVars == <<env, made, server, now, readyFor>>

Servers == 1..MaxStarts
NoServer == 0

Resting == {"idle", "failed", "done"}
Served == {"register", "wait", "client", "done"}

NewServer ==
    [listening |-> FALSE, running |-> FALSE, timers |-> 0, passes |-> 0, ready |-> FALSE,
     store |-> {}, runningSince |-> 0, currentStateTimestamp |-> 0,
     totalReadyTime |-> 0, totalNotReadyTime |-> 0]

LifecycleInit ==
    /\ env = [at |-> "idle", starts |-> 0, httpServer |-> NoServer, deadline |-> 0]
    /\ made = 0
    /\ server = [s \in Servers |-> NewServer]
    /\ now = 0
    /\ readyFor = [s \in Servers |-> 0]

Places == Resting \cup Served \cup {"stop", "clear", "stopFirst", "clearFirst", "deploy", "run"}
ServerType ==
    [listening : BOOLEAN, running : BOOLEAN, timers : Nat, passes : Nat, ready : BOOLEAN,
     store : SUBSET {"tx"}, runningSince : Nat, currentStateTimestamp : Nat,
     totalReadyTime : Nat, totalNotReadyTime : Nat]

LifecycleTypeOK ==
    /\ env \in [at : Places, starts : 0..MaxStarts, httpServer : 0..MaxStarts, deadline : 0..MaxTime]
    /\ made \in 0..MaxStarts /\ env.httpServer <= made
    /\ server \in [Servers -> ServerType]
    /\ now \in 0..MaxTime
    /\ readyFor \in [Servers -> Nat]

-----------------------------------------------------------------------------
(* The environment *)

EnvGoes(at) == env' = [env EXCEPT !.at = at]

StartGsn ==
    /\ env.at \in Resting /\ env.starts < MaxStarts
    /\ env' = [env EXCEPT !.at = "stopFirst", !.starts = @ + 1]
    /\ UNCHANGED <<made, server, now, readyFor>>

StopGsn ==
    /\ env.at \in Resting /\ EnvGoes("stop")
    /\ UNCHANGED <<made, server, now, readyFor>>

\* Faulty: the http server is stopped and the relay behind it is not.
StopHttpOnly ==
    /\ env.at \in {"stop", "stopFirst"} /\ env.httpServer # NoServer
    /\ server' = [server EXCEPT ![env.httpServer].listening = FALSE]
    /\ EnvGoes(IF env.at = "stop" THEN "clear" ELSE "clearFirst")
    /\ UNCHANGED <<made, now, readyFor>>

\* stopGsn with a server: stop, close, then clearAll and forgetting it.
StopServer ==
    /\ env.at \in {"stop", "stopFirst"} /\ env.httpServer # NoServer
    /\ server' = [server EXCEPT ![env.httpServer].listening = FALSE,
                                ![env.httpServer].running = FALSE]
    /\ EnvGoes(IF env.at = "stop" THEN "clear" ELSE "clearFirst")
    /\ UNCHANGED <<made, now, readyFor>>

\* Faulty: the environment keeps the server it stopped.
ClearOnly ==
    /\ env.at \in {"clear", "clearFirst"}
    /\ server' = [server EXCEPT ![env.httpServer].store = {}]
    /\ env' = [env EXCEPT !.at = IF @ = "clear" THEN "idle" ELSE "deploy"]
    /\ UNCHANGED <<made, now, readyFor>>

ClearAll ==
    /\ env.at \in {"clear", "clearFirst"}
    /\ server' = [server EXCEPT ![env.httpServer].store = {}]
    /\ env' = [env EXCEPT !.httpServer = NoServer,
                          !.at = IF @ = "clear" THEN "idle" ELSE "deploy"]
    /\ UNCHANGED <<made, now, readyFor>>

NothingToStop ==
    /\ env.at \in {"stop", "stopFirst"} /\ env.httpServer = NoServer
    /\ EnvGoes(IF env.at = "stop" THEN "idle" ELSE "deploy")
    /\ UNCHANGED <<made, server, now, readyFor>>

DeployGsn ==
    /\ env.at = "deploy"
    /\ EnvGoes("run") \/ EnvGoes("failed")
    /\ UNCHANGED <<made, server, now, readyFor>>

\* The constructor sets the statistics; init may fail; the server then listens and runs.
RunServer ==
    /\ env.at = "run"
    /\ IF env.httpServer # NoServer
       THEN EnvGoes("register") /\ UNCHANGED <<made, server>>
       ELSE /\ made' = made + 1
            /\ LET new == [NewServer EXCEPT !.runningSince = now, !.currentStateTimestamp = now]
                   started == [new EXCEPT !.listening = TRUE, !.running = TRUE, !.timers = 1]
               IN  \/ /\ server' = [server EXCEPT ![made + 1] = started]
                      /\ env' = [env EXCEPT !.at = "register", !.httpServer = made + 1]
                   \/ server' = [server EXCEPT ![made + 1] = new] /\ EnvGoes("failed")
    /\ UNCHANGED <<now, readyFor>>

Sooner(x, y) == IF x < y THEN x ELSE y

RegisterRelay ==
    /\ env.at = "register"
    /\ \/ env' = [env EXCEPT !.at = "wait", !.deadline = Sooner(now + Timeout, MaxTime)]
       \/ EnvGoes("failed")
    /\ UNCHANGED <<made, server, now, readyFor>>

\* Faulty: the relay is asked until it answers.
WaitWithoutEnd ==
    /\ env.at = "wait"
    /\ server[env.httpServer].listening /\ server[env.httpServer].ready /\ EnvGoes("client")
    /\ UNCHANGED <<made, server, now, readyFor>>

\* waitForRelay: a ping every three seconds.
WaitForRelay ==
    /\ env.at = "wait"
    /\ \/ server[env.httpServer].listening /\ server[env.httpServer].ready /\ EnvGoes("client")
       \/ now >= env.deadline /\ EnvGoes("failed")
    /\ UNCHANGED <<made, server, now, readyFor>>

InitClient ==
    /\ env.at = "client"
    /\ EnvGoes("done") \/ EnvGoes("failed")
    /\ UNCHANGED <<made, server, now, readyFor>>

-----------------------------------------------------------------------------
(* The servers *)

\* The timer fires: the handler begins a pass, whether the server still runs or not.
IntervalHandler(s) ==
    /\ server[s].timers > 0
    /\ server' = [server EXCEPT ![s].timers = @ - 1, ![s].passes = @ + 1]
    /\ UNCHANGED <<env, made, now, readyFor>>

\* Faulty: the state's time begins when the server did.
CountedFromStart(r, isReady) ==
    IF r.ready = isReady THEN r
    ELSE [r EXCEPT !.ready = isReady,
             !.totalReadyTime = IF isReady THEN @ ELSE @ + now - r.currentStateTimestamp,
             !.totalNotReadyTime = IF isReady THEN @ + now - r.currentStateTimestamp ELSE @]

\* setReadyState
Counted(r, isReady) ==
    IF r.ready = isReady THEN r
    ELSE [r EXCEPT !.ready = isReady,
             !.totalReadyTime = IF isReady THEN @ ELSE @ + now - r.currentStateTimestamp,
             !.totalNotReadyTime = IF isReady THEN @ + now - r.currentStateTimestamp ELSE @,
             !.currentStateTimestamp = now]

\* Faulty: the timer is set whatever stop asked.
RearmedAlways(r) == [r EXCEPT !.timers = @ + 1]

\* Faulty: the timer is set by the pass that ends and by the state it reports.
RearmedTwice(r) == [r EXCEPT !.timers = IF r.running THEN @ + 2 ELSE @]

Rearmed(r) == [r EXCEPT !.timers = IF r.running THEN @ + 1 ELSE @]

\* The end of a pass: what it sent is in the store, and the timer is set while running.
EndPass(s, isReady, sent) ==
    /\ server[s].passes > 0
    /\ server' = [server EXCEPT ![s] =
            Rearmed([Counted(server[s], isReady) EXCEPT !.passes = @ - 1, !.store = @ \union sent])]
    /\ UNCHANGED <<env, made, now, readyFor>>

\* statsHandler: what was accumulated, and the time since the last change.
Stats(s) ==
    LET r == server[s]
        sinceThen == now - r.currentStateTimestamp
    IN  [uptime |-> now - r.runningSince,
         ready |-> r.totalReadyTime + (IF r.ready THEN sinceThen ELSE 0),
         notReady |-> r.totalNotReadyTime + (IF r.ready THEN 0 ELSE sinceThen)]

Tick ==
    /\ now < MaxTime
    /\ now' = now + 1
    /\ readyFor' = [s \in Servers |-> IF server[s].ready THEN readyFor[s] + 1 ELSE readyFor[s]]
    /\ UNCHANGED <<env, made, server>>

EnvStep ==
    \/ StopServer \/ ClearAll \/ NothingToStop \/ DeployGsn \/ RunServer
    \/ RegisterRelay \/ WaitForRelay \/ InitClient

PassEnds(s) == \E isReady \in BOOLEAN, sent \in SUBSET {"tx"} : EndPass(s, isReady, sent)

LifecycleNext ==
    \/ StartGsn \/ StopGsn \/ EnvStep
    \/ \E s \in Servers : IntervalHandler(s) \/ PassEnds(s)
    \/ Tick

LifecycleSpec == LifecycleInit /\ [][LifecycleNext]_lifecycleVars

\* Timers fire, what is awaited returns, and time passes.
FairLifecycleSpec ==
    /\ LifecycleSpec
    /\ WF_lifecycleVars(EnvStep) /\ WF_lifecycleVars(Tick)
    /\ \A s \in Servers : WF_lifecycleVars(IntervalHandler(s)) /\ WF_lifecycleVars(PassEnds(s))

-----------------------------------------------------------------------------
(* Properties *)

\* The times the server reports on /stats are those it spent ready and not ready, and they
\* add up to the time it has run.
StatsAreTrue ==
    \A s \in 1..made :
        /\ Stats(s).ready = readyFor[s]
        /\ Stats(s).ready + Stats(s).notReady = Stats(s).uptime

\* A server never has two passes, or a pass and a timer: no pass begins before one ended.
OneLoop == \A s \in Servers : server[s].timers + server[s].passes <= 1

\* However often an environment is started, fails or is stopped, one server runs at most.
OneServerRuns == Cardinality({s \in Servers : server[s].running}) <= 1

\* From the start of its server to its end, a call of startGsn has a server that runs.
EnvironmentServes ==
    env.at \in Served => env.httpServer # NoServer /\ server[env.httpServer].running

\* However often an environment is started, fails or is stopped, one server runs at
\* most, and one runs until a call of startGsn ends; it never has two passes, or a
\* pass and a timer; and the times it reports on /stats are those it was ready and
\* not ready.
OneServerAtWork ==
    /\ LifecycleTypeOK
    /\ OneServerRuns
    /\ EnvironmentServes
    /\ OneLoop
    /\ StatsAreTrue

\* A server was told to stop, and has a timer or a pass.
StopsNoisily == \E s \in 1..made :
    ~server[s].running /\ (server[s].timers # 0 \/ server[s].passes # 0)

\* A call of startGsn is under way.
Starting == env.at \notin Resting

=============================================================================
