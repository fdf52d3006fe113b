------------------------------ MODULE MCClient ------------------------------
(* The parts of the client and of the command line side by side: a behaviour
   is one of one component.  All are extended and have their constants in the
   configuration, with the largest of the relay client; its scenarios take less
   of them. *)
EXTENDS RelayClient, OwnerCommands, LogPages, Deployments, ClientState, TLC

\* Three relays, of which two may advertise the same URL, or the first may be alone;
\* two relays, one, or none.
ThreeServers == ("u1" :> "m1") @@ ("u2" :> "m2") @@ ("u3" :> "m3")
Info(u, m) == [url |-> u, manager |-> m]
ThreeRelays == {{Info("u1", "m1"), Info("u2", "m2"), Info("u3", "m3")},
                {Info("u1", "m1"), Info("u3", "m2"), Info("u3", "m3")},
                {Info("u1", "m1")}}
TwoRelays == {{Info("u1", "m1"), Info("u2", "m2")}, {Info("u1", "m1")}, {}}
AllRelays == ThreeRelays \cup TwoRelays
ThirdPreferred == <<"u3">>

\* What an application calls: two ways to initialise, two accounts, a signature
\* and two requests.
AllKinds == ("init" :> "init") @@ ("token" :> "tokenInit") @@ ("a" :> "account")
            @@ ("b" :> "account") @@ ("sign" :> "sign") @@ ("s1" :> "send") @@ ("s2" :> "send")
AllCalls == DOMAIN AllKinds

\* What an owner asks for: less than the hub's minimum, the minimum, more stake and a longer
\* delay, no tokens, another owner.
Ask(s, d, w, o) == [stake |-> s, delay |-> d, funds |-> 3, wrap |-> w, owner |-> o]
AllAsked == {Ask(1, 1, TRUE, TRUE), Ask(2, 1, TRUE, TRUE), Ask(3, 2, TRUE, TRUE), Ask(3, 1, FALSE, TRUE),
             Ask(2, 1, TRUE, FALSE)}

\* The fees of another component's behaviour.
OneFee == chainKind = "typeTwo" /\ network = Fees(10, 10)

VARIABLE component   \* the one this behaviour is of

allVars == <<component, vars, setupVars, receiptVars, feeVars, resolutionVars, pageVars, commandVars,
              deploymentVars>>

Order == INSTANCE RelayClient WITH
    Preferred <- <<"u3">>, SliceSize <- 2, Requests <- {"a"}, Registrar <- ThreeRelays
Parallel == INSTANCE RelayClient WITH
    Preferred <- <<>>, SliceSize <- 1, Registrar <- TwoRelays

ASSUME Order!ClientAssumption /\ Parallel!ClientAssumption

\* The chain of another component's behaviour, for what is extended.
OneChain ==
    /\ hubOf = [p \in Paymasters |-> "h1"] /\ oldVersion = {} /\ baseFee = FALSE
    /\ dep = Nothing

ClientsInit ==
    /\ component \in {"order", "parallel", "setup", "receipts", "fees", "resolution",
                      "pages", "register", "deploy"}
    /\ Init /\ CommandsInit
    /\ SetupInit /\ ReceiptsInit
    /\ FeesInit /\ (component # "fees" => OneFee)
    /\ ResolutionInit /\ (component # "resolution" => OneChain)
    /\ PagesInit /\ (component # "pages" => logged = <<0>>)
    /\ DeploymentInit

ClientsNext ==
    /\ UNCHANGED component
    /\ CASE component = "order" -> Order!Next
         [] component = "parallel" -> Parallel!Next
         [] OTHER -> UNCHANGED vars
    /\ IF component = "setup" THEN SetupNext ELSE UNCHANGED setupVars
    /\ IF component = "receipts" THEN ReceiptsNext ELSE UNCHANGED receiptVars
    /\ IF component = "fees" THEN FeesNext ELSE UNCHANGED feeVars
    /\ IF component = "resolution" THEN ResolutionNext ELSE UNCHANGED resolutionVars
    /\ IF component = "pages" THEN PagesNext ELSE UNCHANGED pageVars
    /\ IF component = "register" THEN CommandsNext ELSE UNCHANGED commandVars
    /\ IF component = "deploy" THEN DeploymentNext ELSE UNCHANGED deploymentVars

ClientsSpec == ClientsInit /\ [][ClientsNext]_allVars
=============================================================================
