------------------------ MODULE PaymasterReputation -------------------------
(***************************************************************************)
(* How a relay server judges a paymaster: RelayServer's scan of hub events *)
(* and its inAlert state, and the entry that ReputationManager keeps in    *)
(* ReputationStoreManager, which the worker and the relay requests update  *)
(* concurrently.                                                           *)
(*                                                                         *)
(* One paymaster; at most one event of it in a block; a block's timestamp  *)
(* is its number.  ReputationStoreManager.updateEntry reads the entry and  *)
(* writes it back in two steps, so an actor's update is a job: compute it, *)
(* copy the entry, write the copy with the update.                         *)
(***************************************************************************)
EXTENDS Integers, Sequences, FiniteSets

CONSTANTS PaymasterRequests,             \* relay requests that name the paymaster
          MaxBlock,             \* bound on the height of the chain
          InitialReputation, MaximumReputation, ThrottleReputation,
          BlockReputation, AbuseReputationChange, AbuseTimeWindowBlocks, AbuseTimeoutReputation,
          AlertedDelay,         \* config.alertedDelaySeconds
          LateBlocks            \* blocks may be mined between the worker's getBlock and its query

Worker == "worker"
Actors == PaymasterRequests \cup {Worker}
HubBlocks == 1..MaxBlock

ASSUME ReputationAssumption ==
    /\ {MaxBlock, AlertedDelay, InitialReputation, MaximumReputation, ThrottleReputation,
        BlockReputation, AbuseReputationChange, AbuseTimeWindowBlocks, AbuseTimeoutReputation} \subseteq Nat
    /\ InitialReputation <= MaximumReputation /\ AbuseTimeoutReputation < MaximumReputation
    /\ Worker \notin PaymasterRequests
    /\ LateBlocks \in BOOLEAN

VARIABLES events,       \* "relayed", "rejected" or "none" in each block so far
          entry,        \* the paymaster's ReputationEntry, or NoEntry
          job,          \* each actor's pending updateEntry
          at,           \* each actor's place
          scanned,      \* lastScannedBlock
          current,      \* the block the worker's pass was started for
          todo,         \* the blocks of the hub events the worker has still to handle
          inAlert, alertedAt,   \* alertedByTransactionBlockTimestamp
          handled       \* history: how often each block's event was applied

chainVars == events
scanVars == <<scanned, current, todo, inAlert, alertedAt>>
reputationVars == <<chainVars, entry, job, at, scanVars, handled>>

Height == Len(events)
NoEntry == [none |-> TRUE]
NoJob == [none |-> TRUE]
FreshEntry == [reputation |-> InitialReputation, recent |-> FALSE, abuse |-> 0, changes |-> {}]
Changes == [block : HubBlocks, change : {1, -1}, nth : Nat \ {0}]
EntryType == [reputation : Int, recent : BOOLEAN, abuse : 0..MaxBlock, changes : SUBSET Changes]

\* What an actor may have the store take, and where it goes on.
JobOf(updates, places) ==
    [update : updates, then : places] \cup [update : updates, then : places, base : EntryType]
RequestJobs ==
    JobOf([recent : {TRUE}], {"served"})
    \cup JobOf([reputation : {AbuseTimeoutReputation}, abuse : {0}], {"refused", "validated"})
WorkerJobs ==
    JobOf([abuse : HubBlocks], {"update"}) \cup JobOf([reputation : Int, changes : SUBSET Changes], {"handle"})

ReputationTypeOK ==
    /\ events \in Seq({"none", "relayed", "rejected"}) /\ Height <= MaxBlock
    /\ scanned \in 0..Height /\ current \in 0..Height
    /\ entry = NoEntry \/ entry \in EntryType
    /\ at \in [Actors -> {"new", "create", "updating", "validated", "served", "refused",
                          "idle", "query", "handle", "update"}]
    /\ job \in [Actors -> {NoJob} \cup RequestJobs \cup WorkerJobs]
    /\ \A r \in PaymasterRequests : at[r] = "updating" => job[r] \in RequestJobs
    /\ at[Worker] = "updating" => job[Worker] \in WorkerJobs
    /\ todo \subseteq 1..Height
    /\ inAlert \in BOOLEAN /\ alertedAt \in 0..Height
    /\ handled \in [HubBlocks -> Nat]

ReputationInit ==
    /\ events = <<>>
    /\ entry = NoEntry
    /\ job = [a \in Actors |-> NoJob]
    /\ at = [a \in Actors |-> IF a = Worker THEN "idle" ELSE "new"]
    /\ scanned = 0 /\ current = 0 /\ todo = {}
    /\ inAlert = FALSE /\ alertedAt = 0
    /\ handled = [b \in HubBlocks |-> 0]

Goto(a, place) == at' = [at EXCEPT ![a] = place]

\* The actor goes on at `then` once the store has taken `update`.
Submit(a, update, then) ==
    /\ job' = [job EXCEPT ![a] = [update |-> update, then |-> then]]
    /\ Goto(a, "updating")

-----------------------------------------------------------------------------
(* The environment.                                                         *)

MineHub ==
    /\ Height < MaxBlock
    /\ current = Height => at[Worker] # "query" \/ LateBlocks
    /\ \E e \in {"none", "relayed", "rejected"} : events' = Append(events, e)
    /\ UNCHANGED <<entry, job, at, scanVars, handled>>

\* throttleDelayMs pass after the last accepted request.
DelayPasses ==
    /\ entry # NoEntry /\ entry.recent
    /\ entry' = [entry EXCEPT !.recent = FALSE]
    /\ UNCHANGED <<chainVars, job, at, scanVars, handled>>

-----------------------------------------------------------------------------
(* ReputationStoreManager.updateEntry, for any actor: read, then $set all.  *)

Copy(a) ==
    /\ at[a] = "updating" /\ "base" \notin DOMAIN job[a]
    /\ job' = [job EXCEPT ![a] = [update |-> @.update, then |-> @.then, base |-> entry]]
    /\ UNCHANGED <<chainVars, entry, at, scanVars, handled>>

Assigned(base, update) ==
    [f \in DOMAIN base |-> IF f \in DOMAIN update THEN update[f] ELSE base[f]]

Write(a) ==
    /\ at[a] = "updating" /\ "base" \in DOMAIN job[a]
    /\ entry' = Assigned(job[a].base, job[a].update)
    /\ job' = [job EXCEPT ![a] = NoJob]
    /\ Goto(a, job[a].then)
    /\ UNCHANGED <<chainVars, scanVars, handled>>

-----------------------------------------------------------------------------
(* A relay request: validatePaymasterReputation and onRelayRequestAccepted. *)

\* Faulty: nothing is mutually exclusive.
MutexIgnored == TRUE

\* ReputationManager.mutex is held from the first read to the last write of
\* getPaymasterStatus, and by relay requests only.
MutexFree == \A r \in PaymasterRequests : at[r] \in {"new", "validated", "served", "refused"}
                                 \/ (at[r] = "updating" /\ job[r].then = "served")

Throttled(e) == e.reputation < ThrottleReputation /\ e.recent
Judgement(e) == IF Throttled(e) THEN "refused" ELSE "validated"
Abused(e) == e.abuse # 0 /\ scanned - e.abuse <= AbuseTimeWindowBlocks

\* The rest of getPaymasterStatus for the entry that was read.
Judge(r, e) ==
    \/ /\ e.reputation <= BlockReputation \/ Abused(e)
       /\ Goto(r, "refused")
       /\ UNCHANGED job
    \/ /\ e.reputation > BlockReputation /\ e.abuse # 0 /\ ~Abused(e)
       /\ Submit(r, [reputation |-> AbuseTimeoutReputation, abuse |-> 0], Judgement(e))
    \/ /\ e.reputation > BlockReputation /\ e.abuse = 0
       /\ Goto(r, Judgement(e))
       /\ UNCHANGED job

GetPaymasterStatus(r) ==
    /\ at[r] = "new" /\ MutexFree
    /\ \/ /\ entry = NoEntry
          /\ Goto(r, "create")
          /\ UNCHANGED job
       \/ entry # NoEntry /\ Judge(r, entry)
    /\ UNCHANGED <<chainVars, entry, scanVars, handled>>

\* createEntry: paymaster is a unique index, so the second insert throws.
CreateEntry(r) ==
    /\ at[r] = "create" /\ r # Worker
    /\ \/ /\ entry = NoEntry
          /\ entry' = FreshEntry
          /\ Judge(r, FreshEntry)
       \/ /\ entry # NoEntry
          /\ Goto(r, "refused")
          /\ UNCHANGED <<entry, job>>
    /\ UNCHANGED <<chainVars, scanVars, handled>>

\* onRelayRequestAccepted, after the view call.
Accepted(r) ==
    /\ at[r] = "validated"
    /\ Submit(r, [recent |-> TRUE], "served")
    /\ UNCHANGED <<chainVars, entry, scanVars, handled>>

-----------------------------------------------------------------------------
(* The worker's pass: _handleChanges and updatePaymasterStatus.             *)

GetBlock ==
    /\ at[Worker] = "idle" /\ Height > scanned
    /\ current' = Height
    /\ Goto(Worker, "query")
    /\ UNCHANGED <<chainVars, entry, job, scanned, todo, inAlert, alertedAt, handled>>

EventsFrom(first) == {b \in first..Height : events[b] # "none"}

\* Faulty: the scan starts after the block of this pass.
QuerySkipping ==
    /\ at[Worker] = "query"
    /\ todo' = EventsFrom(scanned + 2)
    /\ scanned' = current
    /\ Goto(Worker, "handle")
    /\ UNCHANGED <<chainVars, entry, job, current, inAlert, alertedAt, handled>>

\* getAllHubEventsSinceLastScan asks up to 'latest'; lastScannedBlock becomes
\* the pass's block before any event is handled.
Query ==
    /\ at[Worker] = "query"
    /\ todo' = EventsFrom(scanned + 1)
    /\ scanned' = current
    /\ Goto(Worker, "handle")
    /\ UNCHANGED <<chainVars, entry, job, current, inAlert, alertedAt, handled>>

\* The events come in the order of their blocks.
Block == CHOOSE b \in todo : \A c \in todo : b <= c
ChangeOf(kind) == IF kind = "relayed" THEN 1 ELSE -1
ChangeAt(b) == ChangeOf(events[b])

NetChange(changes) == Cardinality({c \in changes : c.change = 1})
                  - Cardinality({c \in changes : c.change = -1})

InWindow(changes, b) == {c \in changes : b - c.block < AbuseTimeWindowBlocks}

\* The checks of updatePaymasterStatus against the entry that was read.
Assess(e) ==
    LET loss == -NetChange(InWindow(e.changes, Block)) IN
    \/ /\ e.reputation + ChangeAt(Block) > MaximumReputation
       /\ todo' = todo \ {Block}
       /\ handled' = [handled EXCEPT ![Block] = @ + 1]
       /\ Goto(Worker, "handle")
       /\ UNCHANGED job
    \/ /\ e.reputation + ChangeAt(Block) <= MaximumReputation
       /\ loss >= AbuseReputationChange
       /\ Submit(Worker, [abuse |-> Block], "update")
       /\ UNCHANGED <<todo, handled>>
    \/ /\ e.reputation + ChangeAt(Block) <= MaximumReputation
       /\ loss < AbuseReputationChange
       /\ Goto(Worker, "update")
       /\ UNCHANGED <<job, todo, handled>>

\* Faulty: the time of the first loss is kept.
RaiseOnce == inAlert' = TRUE /\ alertedAt' = IF inAlert THEN alertedAt ELSE Block

\* _handleTransactionRejectedByPaymasterEvent.
Raise == inAlert' = TRUE /\ alertedAt' = Block

Alert == \/ events[Block] = "rejected" /\ Raise
         \/ events[Block] # "rejected" /\ UNCHANGED <<inAlert, alertedAt>>

HandleEvent ==
    /\ at[Worker] = "handle" /\ todo # {}
    /\ Alert
    /\ \/ /\ entry = NoEntry
          /\ Goto(Worker, "create")
          /\ UNCHANGED <<job, todo, handled>>
       \/ entry # NoEntry /\ Assess(entry)
    /\ UNCHANGED <<chainVars, entry, scanned, current>>

\* The insert throws when a request has made the entry: the pass is over and
\* its events are not handled.
WorkerCreatesEntry ==
    /\ at[Worker] = "create"
    /\ \/ /\ entry = NoEntry
          /\ entry' = FreshEntry
          /\ Assess(FreshEntry)
       \/ /\ entry # NoEntry
          /\ todo' = {}
          /\ Goto(Worker, "idle")
          /\ UNCHANGED <<entry, job, handled>>
    /\ UNCHANGED <<chainVars, scanned, current, inAlert, alertedAt>>

\* updatePaymasterReputation reads the entry once more.
UpdatePaymasterReputation ==
    LET change == [block |-> Block, change |-> ChangeAt(Block), nth |-> handled[Block] + 1]
        kept == {c \in entry.changes \cup {change} : c.block > Block - AbuseTimeWindowBlocks} IN
    /\ at[Worker] = "update"
    /\ Submit(Worker, [reputation |-> entry.reputation + change.change, changes |-> kept], "handle")
    /\ handled' = [handled EXCEPT ![Block] = @ + 1]
    /\ todo' = todo \ {Block}
    /\ UNCHANGED <<chainVars, entry, scanned, current, inAlert, alertedAt>>

\* The end of _handleChanges: the inAlert state is left after its delay.
FinishPass ==
    /\ at[Worker] = "handle" /\ todo = {}
    /\ inAlert' = (inAlert /\ alertedAt + AlertedDelay >= current)
    /\ Goto(Worker, "idle")
    /\ UNCHANGED <<chainVars, entry, job, scanned, current, todo, alertedAt, handled>>

WorkerPass == GetBlock \/ Query \/ HandleEvent \/ WorkerCreatesEntry \/ UpdatePaymasterReputation \/ FinishPass

ReputationNext ==
    \/ MineHub \/ DelayPasses \/ WorkerPass
    \/ \E a \in Actors : Copy(a) \/ Write(a)
    \/ \E r \in PaymasterRequests : GetPaymasterStatus(r) \/ CreateEntry(r) \/ Accepted(r)

ReputationSpec == ReputationInit /\ [][ReputationNext]_reputationVars

-----------------------------------------------------------------------------
(* Properties.                                                             *)

\* The reputation that the events up to block b add up to.
Reckoned(reputation, kind) ==
    IF kind = "none" \/ reputation + ChangeOf(kind) > MaximumReputation
    THEN reputation ELSE reputation + ChangeOf(kind)
LedgerOf(history) ==
    LET f[b \in 0..MaxBlock] ==
            IF b = 0 THEN InitialReputation
            ELSE IF b > Len(history) THEN f[b - 1] ELSE Reckoned(f[b - 1], history[b])
    IN f
Ledger == LedgerOf(events)

\* After a pass of the worker the stored reputation counts every event up to
\* lastScannedBlock exactly once.
ReputationIsLedger ==
    at[Worker] = "idle" => (IF entry = NoEntry THEN FreshEntry ELSE entry).reputation = Ledger[scanned]

\* The alerted state outlasts every loss that was seen by alertedDelaySeconds
\* (_handleChanges' last condition).
AlertedLongEnoughStep ==
    inAlert /\ ~inAlert' =>
          \A b \in 1..scanned : events[b] = "rejected" => b + AlertedDelay < current

\* Requests never meet in getPaymasterStatus: of two first requests for a
\* paymaster the second finds the entry instead of failing to insert it.
OneJudgeAtATime ==
    \A r, s \in PaymasterRequests : at[r] = "create" /\ at[s] = "create" => r = s

\* No request has touched the entry, and no block was mined between the worker's getBlock
\* and its query. Nothing in the code sees to it: a request's update may undo the worker's.
Undisturbed == ~LateBlocks /\ \A r \in PaymasterRequests : at[r] = "new"

\* Two first requests for a paymaster never collide; and as long as the worker is
\* undisturbed, after each pass the reputation of the paymaster counts every event once,
\* and the alerted state outlasts every loss that was seen by alertedDelaySeconds.
ReputationSound ==
    /\ [](ReputationTypeOK /\ OneJudgeAtATime /\ (Undisturbed => ReputationIsLedger))
    /\ [][Undisturbed => AlertedLongEnoughStep]_reputationVars

=============================================================================
