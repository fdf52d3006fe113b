------------------------------ MODULE Penalizer ------------------------------
(***************************************************************************)
(* The penalizer of a relay server.  A client that was given a signed      *)
(* transaction asks another server to audit it.  That server compares it   *)
(* with the transaction its worker mined with the same nonce, commits to a *)
(* penalization, and reveals it when the contract's delay is over.         *)
(*                                                                         *)
(* Each await is a step.  Audits run at the same time, and so do passes of *)
(* the interval handler: the timer does not wait for a pass to end.        *)
(*                                                                         *)
(* One worker is audited.  Its transactions are records of a nonce, a      *)
(* content and a fee; an illegal one calls something other than the hub.   *)
(* A penalization is known by its number, which stands for its random      *)
(* value and so for its commit hash.                                       *)
(***************************************************************************)
EXTENDS Integers, Sequences, FiniteSets

CONSTANTS Audits,        \* calls of auditHandler
          Intervals,     \* passes of intervalHandler that can be under way
          Histories,     \* what the worker may have signed
          Explorer,      \* an Etherscan URL is configured
          Delay,         \* penalizeBlockDelay
          Expiration,    \* penalizeBlockExpiration
          Prompt,        \* blocks do not outrun the passes until a commit expires
          MaxBroadcastFailures, \* bound on broadcasts that fail
          MaxRestarts    \* bound on restarts of the server

ASSUME PenalizerAssumption ==
    /\ IsFiniteSet(Audits)
    /\ {Delay, Expiration} \subseteq Nat \ {0} /\ {MaxBroadcastFailures, MaxRestarts} \subseteq Nat
    /\ {Explorer, Prompt} \subseteq BOOLEAN
    /\ \A h \in Histories : \A t \in h :
         t.nonce \in Nat /\ t.legal \in BOOLEAN /\ {"nonce", "content", "fee", "legal"} = DOMAIN t

VARIABLES workerTxs,   \* the worker's transactions
          minedTxs,    \* those mined, by nonce
          initialized,
          audit,       \* the audits
          pens,        \* the penalizations, in the order they were made
          scheduled,   \* scheduledPenalizations
          known,       \* those whose readyBlockNumber is set
          pass,        \* the passes
          commitsSent, \* commits broadcast and not mined
          left,        \* blocks until a mined commit is ready
          reveals,     \* how often a penalization was broadcast
          waiting,     \* penalizations broadcast and not mined
          slashed,     \* the worker's manager has lost its stake
          failures, restarts

audited == <<workerTxs, minedTxs>>
inServer == <<initialized, audit, pens, scheduled, known, pass>>
contract == <<commitsSent, left, waiting, slashed>>
budget == <<failures, restarts>>
penalizerVars == <<audited, inServer, contract, reveals, budget>>

Ids == 1..Cardinality(Audits)
Made == 1..Len(pens)
NotMined == Delay + 1
Committed == {i \in Ids : left[i] # NotMined}
NoTx == [nonce |-> -1]

AuditPlaces == {"idle", "validate", "mined", "nonce", "lookup", "illegal", "view", "send", "done"}
AuditType == [at : AuditPlaces, tx : workerTxs \union {NoTx}, id : {0} \union Made]
PenType == [kind : {"repeated", "illegal"}, tx : workerTxs, other : workerTxs \union {NoTx}]
PassType == [at : {"idle", "events", "block", "next", "send"}, unconfirmed : SUBSET Made, todo : SUBSET Made]

PenalizerTypeOK ==
    /\ workerTxs \in Histories /\ minedTxs \in Seq(workerTxs)
    /\ audit \in [Audits -> AuditType]
    /\ \A a \in Audits : audit[a].at = "idle" \/ audit[a].tx \in workerTxs
    /\ pens \in Seq(PenType) /\ Len(pens) <= Cardinality(Audits)
    /\ scheduled \subseteq Made
    /\ known \subseteq Committed
    /\ pass \in [Intervals -> PassType]
    /\ commitsSent \subseteq Made /\ left \in [Ids -> -Expiration..NotMined]
    /\ commitsSent \intersect Committed = {}
    /\ waiting \subseteq Made /\ reveals \in [Ids -> Nat]
    /\ \A i \in waiting : reveals[i] > 0
    /\ {slashed, initialized} \subseteq BOOLEAN
    /\ failures \in 0..MaxBroadcastFailures /\ restarts \in 0..MaxRestarts

NoAudit == [at |-> "idle", tx |-> NoTx, id |-> 0]
NoPass == [at |-> "idle", unconfirmed |-> {}, todo |-> {}]

PenalizerInit ==
    /\ workerTxs \in Histories /\ minedTxs = <<>>
    /\ initialized = FALSE
    /\ audit = [a \in Audits |-> NoAudit]
    /\ pens = <<>> /\ scheduled = {} /\ known = {}
    /\ pass = [p \in Intervals |-> NoPass]
    /\ commitsSent = {} /\ left = [i \in Ids |-> NotMined] /\ waiting = {}
    /\ reveals = [i \in Ids |-> 0]
    /\ slashed = FALSE /\ failures = 0 /\ restarts = 0

Initialize ==
    /\ ~initialized /\ initialized' = TRUE
    /\ UNCHANGED <<audited, audit, pens, scheduled, known, pass, contract, reveals, budget>>

-----------------------------------------------------------------------------
(* What the contract checks *)

\* Faulty: the data of the two transactions is not compared.
RepeatedAnyData(t, u) == t.nonce = u.nonce

Repeated(t, u) == t.nonce = u.nonce /\ t.content # u.content

Illegal(t) == ~t.legal

IsOffence(pen) == IF pen.kind = "repeated" THEN Repeated(pen.tx, pen.other) ELSE Illegal(pen.tx)

\* One more block: every commit is one block closer to its ready block.
BlockOn == [i \in Ids |-> IF left[i] = NotMined THEN NotMined
                       ELSE IF left[i] > -Expiration THEN left[i] - 1 ELSE left[i]]

\* The blocks wait for what is to be revealed, with one left for each penalization.
InTime ==
    Prompt => \A i \in Committed :
                reveals[i] = 0 \/ i \in waiting => left[i] > Cardinality(Audits) + 1 - Expiration

EmptyBlock ==
    /\ InTime /\ left' = BlockOn /\ left' # left
    /\ UNCHANGED <<audited, inServer, commitsSent, waiting, slashed, reveals, budget>>

MineCommit(i) ==
    /\ i \in commitsSent /\ InTime
    /\ commitsSent' = commitsSent \ {i} /\ left' = [BlockOn EXCEPT ![i] = Delay]
    /\ UNCHANGED <<audited, inServer, waiting, slashed, reveals, budget>>

\* readyBlockNumber < block.number and not yet expired, in the block that is mined.
CommitRevealOnly(i) == i \in Committed /\ BlockOn[i] < 0 /\ BlockOn[i] > -Expiration

MineReveal(i) ==
    /\ i \in waiting
    /\ waiting' = waiting \ {i} /\ left' = BlockOn
    /\ slashed' = (slashed \/ (CommitRevealOnly(i) /\ IsOffence(pens[i])))
    /\ UNCHANGED <<audited, inServer, commitsSent, reveals, budget>>

\* The worker's next transaction is mined.
MineWorkerTx(t) ==
    /\ t \in workerTxs /\ t.nonce = Len(minedTxs) /\ minedTxs' = Append(minedTxs, t)
    /\ UNCHANGED <<workerTxs, inServer, contract, reveals, budget>>

-----------------------------------------------------------------------------
(* auditHandler *)

AuditGoes(a, at) == audit' = [audit EXCEPT ![a].at = at]

AuditOnly == UNCHANGED <<audited, initialized, pens, scheduled, known, pass, contract, reveals, budget>>

\* Without an explorer the repeated nonce is not looked for.
StartAudit(a, t) ==
    /\ audit[a].at = "idle" /\ t \in workerTxs
    /\ audit' = [audit EXCEPT ![a] = [at |-> IF ~initialized THEN "done"
                                             ELSE IF Explorer THEN "validate" ELSE "illegal",
                                      tx |-> t, id |-> 0]]
    /\ AuditOnly

\* A worker whose manager has no stake is not penalized.
ValidateTransaction(a) ==
    /\ audit[a].at = "validate"
    /\ AuditGoes(a, IF slashed THEN "illegal" ELSE "mined")
    /\ AuditOnly

IsTransactionMined(a) ==
    /\ audit[a].at = "mined"
    /\ AuditGoes(a, IF \E n \in 1..Len(minedTxs) : minedTxs[n] = audit[a].tx THEN "illegal" ELSE "nonce")
    /\ AuditOnly

\* The pending transactions may count: some of the worker's that follow are in the pool.
CheckNonce(a) ==
    /\ audit[a].at = "nonce"
    /\ \E currentNonce \in {Len(minedTxs)} \union {t.nonce + 1 : t \in {u \in workerTxs : u.nonce = Len(minedTxs)}} :
         AuditGoes(a, IF audit[a].tx.nonce > currentNonce THEN "illegal" ELSE "lookup")
    /\ AuditOnly

\* commitAndScheduleReveal: scheduled first, then broadcast.
Schedule(a, pen) ==
    /\ pens' = Append(pens, pen)
    /\ scheduled' = scheduled \union {Len(pens) + 1}
    /\ audit' = [audit EXCEPT ![a].at = "send", ![a].id = Len(pens) + 1]
    /\ UNCHANGED <<audited, initialized, known, pass, contract, reveals, budget>>

\* The mined transaction is looked up and the penalization tried in view mode; what that
\* shows is not looked at.  A nonce that is not mined throws, and ends the audit.
PenalizeRepeatedNonce(a) ==
    /\ audit[a].at = "lookup" /\ audit[a].tx.nonce < Len(minedTxs)
    /\ Schedule(a, [kind |-> "repeated", tx |-> audit[a].tx, other |-> minedTxs[audit[a].tx.nonce + 1]])

LookupFails(a) ==
    /\ audit[a].at = "lookup" /\ audit[a].tx.nonce >= Len(minedTxs)
    /\ AuditGoes(a, "done") /\ AuditOnly

ValidateIllegal(a) ==
    /\ audit[a].at = "illegal"
    /\ AuditGoes(a, IF slashed THEN "done" ELSE "view")
    /\ AuditOnly

PenalizeIllegalTransaction(a) ==
    /\ audit[a].at = "view"
    /\ \/ /\ Illegal(audit[a].tx) /\ ~slashed
          /\ Schedule(a, [kind |-> "illegal", tx |-> audit[a].tx, other |-> NoTx])
       \/ /\ ~Illegal(audit[a].tx) \/ slashed
          /\ AuditGoes(a, "done") /\ AuditOnly

BroadcastCommit(a) ==
    /\ audit[a].at = "send" /\ AuditGoes(a, "done")
    /\ commitsSent' = commitsSent \union {audit[a].id}
    /\ UNCHANGED <<audited, initialized, pens, scheduled, known, pass, left, waiting, slashed, reveals, budget>>

CommitFails(a) ==
    /\ audit[a].at = "send" /\ AuditGoes(a, "done")
    /\ failures < MaxBroadcastFailures /\ failures' = failures + 1
    /\ UNCHANGED <<audited, initialized, pens, scheduled, known, pass, contract, reveals, restarts>>

-----------------------------------------------------------------------------
(* intervalHandler *)

PassOnly == UNCHANGED <<audited, initialized, audit, pens, contract, budget>>

EnterInterval(p) ==
    /\ initialized /\ pass[p].at = "idle" /\ scheduled # {}
    /\ LET unconfirmed == scheduled \ known IN
         pass' = [pass EXCEPT ![p].at = IF unconfirmed = {} THEN "block" ELSE "events",
                              ![p].unconfirmed = unconfirmed]
    /\ PassOnly /\ UNCHANGED <<scheduled, known, reveals>>

\* Faulty: the events of the first commitment only are looked at.
QueryFirst(p) ==
    /\ pass[p].at = "events"
    /\ known' = known \union (pass[p].unconfirmed \intersect Committed \intersect {1})
    /\ pass' = [pass EXCEPT ![p].at = "block"]
    /\ PassOnly /\ UNCHANGED <<scheduled, reveals>>

QueryReadyBlocksForMinedCommitments(p) ==
    /\ pass[p].at = "events"
    /\ known' = known \union (pass[p].unconfirmed \intersect Committed)
    /\ pass' = [pass EXCEPT ![p].at = "block"]
    /\ PassOnly /\ UNCHANGED <<scheduled, reveals>>

\* Faulty: a penalization is due one block early.
IsReadyEarly(i) == i \in known /\ left[i] <= 1

IsReady(i) == i \in known /\ left[i] <= 0

ReadyPenalizations(p) ==
    /\ pass[p].at = "block"
    /\ pass' = [pass EXCEPT ![p].at = "next", ![p].todo = {i \in scheduled : IsReady(i)}]
    /\ PassOnly /\ UNCHANGED <<scheduled, known, reveals>>

\* Penalizations are executed in the order of the array, which is that of their numbers.
Earliest(ids) == CHOOSE i \in ids : \A j \in ids : i <= j

\* Faulty: the first entry is removed, whichever was executed.
SpliceFirst(i) == {j \in scheduled : \E k \in scheduled : k < j}

\* splice at indexOf: an entry that is gone has index -1, which is the last entry.
Splice(i) == IF i \in scheduled THEN scheduled \ {i} ELSE {j \in scheduled : \E k \in scheduled : j < k}

RemovePenalization(p) ==
    /\ pass[p].at = "next" /\ pass[p].todo # {}
    /\ scheduled' = Splice(Earliest(pass[p].todo))
    /\ pass' = [pass EXCEPT ![p].at = "send"]
    /\ PassOnly /\ UNCHANGED <<known, reveals>>

\* Faulty: a penalization that was broadcast is tried again by the same pass.
ExecuteAgain(p) ==
    LET i == Earliest(pass[p].todo) IN
    /\ pass[p].at = "send"
    /\ reveals[i] < 2
    /\ reveals' = [reveals EXCEPT ![i] = @ + 1] /\ waiting' = waiting \union {i}
    /\ \/ pass' = [pass EXCEPT ![p].at = "next", ![p].todo = @ \ {i}]
       \/ UNCHANGED pass
    /\ UNCHANGED <<audited, initialized, audit, pens, scheduled, known, commitsSent, left, slashed, budget>>

ExecuteDelayedPenalization(p) ==
    LET i == Earliest(pass[p].todo) IN
    /\ pass[p].at = "send"
    /\ reveals' = [reveals EXCEPT ![i] = @ + 1] /\ waiting' = waiting \union {i}
    /\ pass' = [pass EXCEPT ![p].at = "next", ![p].todo = @ \ {i}]
    /\ UNCHANGED <<audited, initialized, audit, pens, scheduled, known, commitsSent, left, slashed, budget>>

\* The pass ends, with its entry removed.
RevealFails(p) ==
    /\ pass[p].at = "send"
    /\ failures < MaxBroadcastFailures /\ failures' = failures + 1
    /\ pass' = [pass EXCEPT ![p] = NoPass]
    /\ UNCHANGED <<audited, initialized, audit, pens, scheduled, known, contract, reveals, restarts>>

LeaveInterval(p) ==
    /\ pass[p].at = "next" /\ pass[p].todo = {}
    /\ pass' = [pass EXCEPT ![p] = NoPass]
    /\ PassOnly /\ UNCHANGED <<scheduled, known, reveals>>

\* The schedule is kept in memory only.
Restart ==
    /\ restarts < MaxRestarts /\ restarts' = restarts + 1
    /\ initialized' = FALSE /\ scheduled' = {} /\ known' = {}
    /\ pass' = [p \in Intervals |-> NoPass]
    /\ audit' = [a \in Audits |-> IF audit[a].at = "idle" THEN NoAudit ELSE [audit[a] EXCEPT !.at = "done"]]
    /\ UNCHANGED <<audited, pens, contract, reveals, failures>>

PassStep(p) ==
    \/ EnterInterval(p) \/ QueryReadyBlocksForMinedCommitments(p) \/ ReadyPenalizations(p)
    \/ RemovePenalization(p) \/ ExecuteDelayedPenalization(p) \/ LeaveInterval(p)

AuditStep(a) ==
    \/ ValidateTransaction(a) \/ IsTransactionMined(a) \/ CheckNonce(a)
    \/ PenalizeRepeatedNonce(a) \/ LookupFails(a)
    \/ ValidateIllegal(a) \/ PenalizeIllegalTransaction(a)
    \/ BroadcastCommit(a)

PenalizerNext ==
    \/ \E a \in Audits : AuditStep(a) \/ CommitFails(a) \/ \E t \in workerTxs : StartAudit(a, t)
    \/ \E p \in Intervals : PassStep(p) \/ RevealFails(p)
    \/ \E i \in Ids : MineCommit(i) \/ MineReveal(i)
    \/ \E t \in workerTxs : MineWorkerTx(t)
    \/ EmptyBlock \/ Initialize \/ Restart

PenalizerSpec == PenalizerInit /\ [][PenalizerNext]_penalizerVars

\* The timer, the node's answers and the chain go on; clients and the worker need not.
FairPenalizerSpec ==
    /\ PenalizerSpec /\ WF_penalizerVars(Initialize) /\ WF_penalizerVars(EmptyBlock)
    /\ \A a \in Audits : WF_penalizerVars(AuditStep(a))
    /\ \A p \in Intervals : WF_penalizerVars(PassStep(p))
    /\ \A i \in Ids : WF_penalizerVars(MineCommit(i)) /\ WF_penalizerVars(MineReveal(i))

-----------------------------------------------------------------------------
(* Properties *)

\* The worker's manager loses its stake only if the worker signed an illegal transaction
\* or two of one nonce that differ in more than the fee, whatever is audited meanwhile.
HonestKept ==
    slashed => \E t, u \in workerTxs : ~t.legal \/ (t.nonce = u.nonce /\ t.content # u.content)

\* A penalization is broadcast at most once (the interval handler removes it first).
RevealedOnce == \A i \in Ids : reveals[i] <= 1

\* When a penalization is broadcast the contract does not find it too early.
NotTooSoon == \A i \in waiting : CommitRevealOnly(i) \/ BlockOn[i] <= -Expiration

\* Until a broadcast fails or the server restarts, every penalization is scheduled, being
\* revealed, or was revealed.
NoneDropped ==
    failures = 0 /\ restarts = 0 =>
        \A i \in Made : i \in scheduled \/ reveals[i] > 0
                        \/ \E p \in Intervals : pass[p].at = "send" /\ Earliest(pass[p].todo) = i

\* The interval handler removes only penalizations that are ready.
OnlyReadyRemovedStep ==
    restarts' = restarts => \A i \in scheduled \ scheduled' : IsReady(i)

\* Passes do not overlap: none outlasts the interval of the timer. Nothing in the code sees to it.
OnePass == \A p, q \in Intervals : p = q

\* A manager loses its stake only if its worker signed an illegal transaction or two
\* of one nonce that differ in more than the fee, and no penalization is broadcast too
\* early for the contract. As long as passes do not overlap every penalization is
\* broadcast at most once, is scheduled, being revealed or revealed until a broadcast
\* fails or the server restarts, and is taken off the schedule when it is ready.
PenaltiesSound ==
    /\ [](PenalizerTypeOK /\ HonestKept /\ NotTooSoon /\ (OnePass => RevealedOnce /\ NoneDropped))
    /\ [][OnePass => OnlyReadyRemovedStep]_penalizerVars

\* An offence was committed to, and the manager has its stake.
OffenceWaits == ~slashed /\ \E a \in Audits : audit[a].id # 0 /\ IsOffence(pens[audit[a].id])

=============================================================================
