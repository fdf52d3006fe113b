----------------------------- MODULE RelayClient -----------------------------
(***************************************************************************)
(* The relay client: for every request it learns the registered relays,    *)
(* signs the request once with the sender's nonce, and offers it to one    *)
(* relay after the other until one answers with a transaction that passes  *)
(* the client's checks.  Which relay is next is decided by a race of pings *)
(* among a slice of the relays left.                                       *)
(*                                                                         *)
(* Requests of one sender run at the same time and share the relays the    *)
(* client knows and the failures it remembers.  A relay may answer with    *)
(* an error, late, or wrongly, and may have sent the transaction anyway.   *)
(***************************************************************************)
EXTENDS Integers, Sequences, SequencesExt, FiniteSets

CONSTANTS Urls, Managers,
          Registrar,    \* what the relays may have registered: sets of
                        \* [url |-> u, manager |-> m]
          ServerOf,     \* the manager of the server that answers at a URL
          Preferred,    \* config.preferredRelays
          SliceSize,    \* config.waitForSuccessSliceSize
          Requests      \* of one sender

None == "none"

ASSUME ClientAssumption ==
    /\ \A relays \in Registrar : IsFiniteSet(relays) /\ relays \subseteq [url : Urls, manager : Managers]
    /\ ServerOf \in [Urls -> Managers] /\ Preferred \in Seq(Urls)
    /\ SliceSize \in Nat \ {0} /\ None \notin Managers \cup Urls

VARIABLES known,     \* KnownRelaysManager.allRelayers
          failures,  \* relayFailures: no entry, or an entry whose latest failure
                     \* is recent or older than relayTimeoutGrace, or is gone
          call,      \* the relayTransaction calls
          nonce,     \* the sender's nonce in the forwarder
          signed,    \* what relays signed and is not mined
          executed   \* how often a request was executed

vars == <<known, failures, call, nonce, signed, executed>>

Infos == [url : Urls, manager : Managers \cup {None}]    \* RelayInfoUrl or its registration
NoRelay == [url |-> None, manager |-> None]

Before == {"idle", "refresh", "prepare", "dryRun", "init"}    \* the selection
Attempts == {"view", "send"}                                 \* of a relay that won
Ends == {"accepted", "failed"}
After == {"race"} \cup Attempts \cup Ends
Reasons == {None, "prepare", "view", "noRelays", "exhausted"}

\* The relays of a call are three groups in an order that is drawn once; what is
\* left of a group is kept as positions in it.
CallStates == [at : Before \cup After, nonce : Nat, why : Reasons, active : Infos \cup {NoRelay},
               order : [1..3 -> Seq(Infos)], left : [1..3 -> SUBSET Nat],
               pingErrors : SUBSET Urls,
               \* for the properties: how often a URL was tried (2 is 2 or more), and
               \* what was known when the first relay was chosen
               tried : [Urls -> 0..2], known : SUBSET Infos, recent : SUBSET Urls,
               clean : SUBSET Urls]

TypeOK ==
    /\ known \in Registrar \cup {{}}
    /\ failures \in [Urls -> {"none", "recent", "old", "gone"}]
    /\ nonce \in Nat
    /\ executed \in [Requests -> Nat]
    /\ signed \subseteq [request : Requests, nonce : Nat, url : Urls]
    /\ call \in [Requests -> CallStates]
    /\ \A r \in Requests :
         /\ call[r].at \in Attempts => call[r].active \in [url : Urls, manager : Managers]
         /\ \A g \in 1..3 : call[r].left[g] \subseteq DOMAIN call[r].order[g]

Fresh == [at |-> "idle", nonce |-> 0, why |-> None, active |-> NoRelay,
          order |-> [g \in 1..3 |-> <<>>], left |-> [g \in 1..3 |-> {}], pingErrors |-> {},
          tried |-> [u \in Urls |-> 0], known |-> {}, recent |-> {}, clean |-> {}]

Init ==
    /\ known = {}
    /\ failures = [u \in Urls |-> "none"]
    /\ call = [r \in Requests |-> Fresh]
    /\ nonce = 0 /\ signed = {}
    /\ executed = [r \in Requests |-> 0]

-----------------------------------------------------------------------------
(* KnownRelaysManager.                                                     *)

\* _refreshFailures filters each list of failures and keeps its key.
RefreshFailures == [u \in Urls |-> IF failures[u] = "old" THEN "gone" ELSE failures[u]]

\* Faulty: relays that failed come before those that did not.
HasNoFailure(u) == ~(failures[u] # "none")

HasFailure(u) == failures[u] # "none"

SaveRelayFailure(u) == failures' = [failures EXCEPT ![u] = "recent"]

GetRelayInfoForManager(m) == {info \in known : info.manager = m}

\* Preferred relays as configured, then the others shuffled, those with
\* failures last.
RelaysShuffled ==
    {<<[i \in DOMAIN Preferred |-> [url |-> Preferred[i], manager |-> None]], fine, failing>> :
        fine \in SetToSeqs({info \in known : ~HasFailure(info.url)}),
        failing \in SetToSeqs({info \in known : HasFailure(info.url)})}

-----------------------------------------------------------------------------
(* RelaySelectionManager.                                                  *)

RelaysLeft(left) == \E g \in 1..3 : left[g] # {}

\* The first relays of the first group that has some left.
NextGroup(left) == CHOOSE g \in 1..3 : left[g] # {} /\ \A h \in 1..g - 1 : left[h] = {}
NextSlice(left) ==
    LET group == left[NextGroup(left)] IN
    {i \in group : Cardinality({j \in group : j < i}) < SliceSize}

UrlsAt(group, slice) == {group[i].url : i \in slice}

\* One info for each URL, the last.
InfoAt(group, slice, u) ==
    group[CHOOSE i \in slice : group[i].url = u /\ \A j \in slice : group[j].url = u => j <= i]

\* A ping fails when the server is down or not ready, uses another RelayHub, or
\* asks for other gas prices.
PingErrors(urls) == SUBSET urls

\* waitForSuccess: a little after the first success, or when all have answered,
\* one of the successes so far is drawn; who has not answered is neither winner
\* nor error.
RaceResults(urls) ==
    {race \in [winner : urls \cup {None}, errors : PingErrors(urls)] :
        IF race.winner = None THEN race.errors = urls ELSE race.winner \notin race.errors}

\* What the winner's info is: a preferred relay must be registered, under
\* whatever URL, and keeps its own.
Winners(group, slice, u) ==
    IF u = None THEN {}
    ELSE IF InfoAt(group, slice, u).manager # None THEN {InfoAt(group, slice, u)}
    ELSE {[info EXCEPT !.url = u] : info \in GetRelayInfoForManager(ServerOf[u])}

\* Faulty: the winner leaves only the group it was found in.
RemovedFromGroup(order, left, winner, errors) ==
    [left EXCEPT ![NextGroup(left)] =
        {i \in @ : order[NextGroup(left)][i].url \notin errors \cup {winner}}]

\* Faulty: the losers of the race are dropped.
RemovedSlice(order, left, winner, errors) == [left EXCEPT ![NextGroup(left)] = @ \ NextSlice(left)]

\* Faulty: the winner stays.
RemovedErrors(order, left, winner, errors) ==
    [g \in 1..3 |-> {i \in left[g] : order[g][i].url \notin errors}]

\* The winner and the relays that answered with an error are not asked again.
Removed(order, left, winner, errors) ==
    [g \in 1..3 |-> {i \in left[g] : order[g][i].url \notin errors \cup {winner}}]

-----------------------------------------------------------------------------
(* relayTransaction.                                                       *)

End(r, at, why) == call' = [call EXCEPT ![r].at = at, ![r].why = why]

\* refresh: the failures are filtered at once, the relays are read later.
Begin(r) ==
    /\ call[r].at = "idle"
    /\ failures' = RefreshFailures
    /\ call' = [call EXCEPT ![r].at = "refresh"]
    /\ UNCHANGED <<known, nonce, signed, executed>>

Refresh(r) ==
    /\ call[r].at = "refresh"
    /\ known' \in Registrar
    /\ call' = [call EXCEPT ![r].at = "prepare"]
    /\ UNCHANGED <<failures, nonce, signed, executed>>

\* _prepareRelayRequest, or its error.
Prepare(r) ==
    /\ call[r].at = "prepare"
    /\ \/ call' = [call EXCEPT ![r].at = "dryRun", ![r].nonce = nonce]
       \/ End(r, "failed", "prepare")
    /\ UNCHANGED <<known, failures, nonce, signed, executed>>

\* validateRelayCall: the forwarder takes the sender's next nonce only; the
\* paymaster may refuse.
DryRun(r) ==
    /\ call[r].at = "dryRun"
    /\ \/ call[r].nonce = nonce /\ call' = [call EXCEPT ![r].at = "init"]
       \/ End(r, "failed", "view")
    /\ UNCHANGED <<known, failures, nonce, signed, executed>>

InitSelection(r) ==
    /\ call[r].at = "init"
    /\ \E order \in RelaysShuffled :
         LET left == [g \in 1..3 |-> DOMAIN order[g]] IN
         IF ~RelaysLeft(left) THEN End(r, "failed", "noRelays")
         ELSE call' = [call EXCEPT ![r].at = "race", ![r].order = order, ![r].left = left,
                                   ![r].known = known,
                                   ![r].recent = {u \in Urls : failures[u] = "recent"},
                                   ![r].clean = {u \in Urls : failures[u] = "none"}]
    /\ UNCHANGED <<known, failures, nonce, signed, executed>>

\* selectNextRelay: the pings of a slice race, until somebody wins or nobody is
\* left.
NextRelay(r, order, left) ==
    LET group == order[NextGroup(left)]
        slice == NextSlice(left)
    IN \E race \in RaceResults(UrlsAt(group, slice)) :
         LET winners == Winners(group, slice, race.winner)
             fewer == Removed(order, left, race.winner, race.errors)
             failed == call[r].pingErrors \cup race.errors
         IN \/ /\ winners = {}
               /\ call' = [call EXCEPT ![r].left = fewer, ![r].pingErrors = failed]
            \/ \E active \in winners :
                 call' = [call EXCEPT ![r].left = fewer, ![r].pingErrors = failed,
                                      ![r].at = "view", ![r].active = active]

Race(r) ==
    /\ call[r].at = "race"
    /\ IF RelaysLeft(call[r].left) THEN NextRelay(r, call[r].order, call[r].left)
                                   ELSE End(r, "failed", "exhausted")
    /\ UNCHANGED <<known, failures, nonce, signed, executed>>

\* Faulty: the nonce is read for every attempt.
SignNext(r) == nonce

\* _attemptRelay: the request is signed again for this relay's worker, with
\* the nonce it was prepared with.
Sign(r) == call[r].nonce

ViewCall(r) ==
    /\ call[r].at = "view"
    /\ \/ /\ Sign(r) = nonce
          /\ call' = [call EXCEPT ![r].at = "send", ![r].nonce = Sign(r),
                                   ![r].tried[call[r].active.url] = IF @ = 2 THEN 2 ELSE @ + 1]
       \/ End(r, "failed", "view")
    /\ UNCHANGED <<known, failures, nonce, signed, executed>>

Signs(r) == signed' = signed \cup {[request |-> r, nonce |-> call[r].nonce, url |-> call[r].active.url]}

\* The client broadcasts a valid answer too, unless its node has it.
Broadcast(r) == Signs(r)

\* The relay's answer: an error, an error that mentions a timeout, a
\* transaction that fails the checks, or a valid one.  Only the last tells
\* whether the relay sent it.
Respond(r) ==
    /\ call[r].at = "send"
    /\ \/ /\ Signs(r) \/ UNCHANGED signed
          /\ call' = [call EXCEPT ![r].at = "race"]
          /\ UNCHANGED failures \/ SaveRelayFailure(call[r].active.url)
       \/ /\ Broadcast(r)
          /\ End(r, "accepted", None)
          /\ UNCHANGED failures
    /\ UNCHANGED <<known, nonce, executed>>

-----------------------------------------------------------------------------
(* The chain and the clock.                                                *)

\* The forwarder executes a request that carries the next nonce; any other
\* signed transaction reverts.
Mine ==
    \E tx \in signed :
      /\ signed' = signed \ {tx}
      /\ IF tx.nonce = nonce
         THEN nonce' = nonce + 1 /\ executed' = [executed EXCEPT ![tx.request] = @ + 1]
         ELSE UNCHANGED <<nonce, executed>>
      /\ UNCHANGED <<known, failures, call>>

\* relayTimeoutGrace passes.
Age ==
    \E u \in Urls :
      /\ failures[u] = "recent"
      /\ failures' = [failures EXCEPT ![u] = "old"]
      /\ UNCHANGED <<known, call, nonce, signed, executed>>

Call(r) == Begin(r) \/ Refresh(r) \/ Prepare(r) \/ DryRun(r) \/ InitSelection(r) \/ Race(r) \/ ViewCall(r) \/ Respond(r)

Next == Mine \/ Age \/ \E r \in Requests : Call(r)

Spec == Init /\ [][Next]_vars

\* Every await of a call ends: HTTP requests have a timeout.
FairSpec == Spec /\ \A r \in Requests : WF_vars(Call(r))

-----------------------------------------------------------------------------
(* Properties.                                                             *)

\* However many relays signed a request, it is executed at most once.
ExecutedOnce == \A r \in Requests : executed[r] <= 1

\* One call never offers the request to the same URL twice
\* (RelaySelectionManager's promise), though URLs may be both preferred and
\* registered, or registered twice.
NoUrlTwice == \A r \in Requests, u \in Urls : call[r].tried[u] < 2

\* Whether the call has asked or pinged the relay at u in vain.
AskedAt(r, u) == u \in call[r].pingErrors \/ call[r].tried[u] > 0

\* A call gives up for want of relays only after every relay known to it was
\* tried or failed to answer its ping.
TriedAll ==
    \A r \in Requests : call[r].why = "exhausted" =>
      \A info \in call[r].known : AskedAt(r, info.url) \/ info.url \in Range(Preferred)

\* A relay that failed a short while ago is asked only after each of those
\* that never failed was asked or did not answer.
FailedLast ==
    \A r \in Requests : \A u \in call[r].recent \ Range(Preferred) : call[r].tried[u] > 0 =>
      \A info \in call[r].known : info.url \in call[r].clean \ Range(Preferred) => AskedAt(r, info.url)

\* One call never offers its request to the same URL twice, gives up only after
\* every relay it knows was tried or did not answer its ping, and asks a relay that
\* failed a short while ago last; however many relays signed a request, it is
\* executed once (relayTransaction, RelaySelectionManager).
RelaysTried == TypeOK /\ ExecutedOnce /\ NoUrlTwice /\ TriedAll /\ FailedLast

\* A call that has no outcome yet.
Calling(r) == call[r].at \notin {"idle"} \cup Ends
=============================================================================
