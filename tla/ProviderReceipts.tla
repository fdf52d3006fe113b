--------------------------- MODULE ProviderReceipts ---------------------------
(***************************************************************************)
(* Receipts of relayed requests.  The provider answers a sent request with *)
(* the request's own ID, remembers the block at which relaying began and   *)
(* the time until which the request is valid, and finds the transaction    *)
(* that carried the request by the RelayHub's events when the application  *)
(* asks for its receipt.  After a restart it has to guess the block.       *)
(*                                                                         *)
(* A request may be carried by several transactions; the forwarder lets at *)
(* most one of them execute it.                                            *)
(***************************************************************************)
EXTENDS Integers, Sequences

CONSTANTS AppRequests,
          Valid,       \* requestValidSeconds
          Lookup,      \* BLOCKS_FOR_LOOKUP
          MaxClock, LastBlock, MaxEvents   \* bounds

ASSUME ReceiptsAssumption == {Valid, Lookup, MaxClock, LastBlock, MaxEvents} \subseteq Nat

VARIABLES clock,
          head,        \* the last block
          submitted,   \* for each request: where it is, its first block, its last second
          cache,       \* submittedRelayRequests
          hubEvents,   \* the RelayHub's events with the request's ID, the oldest first
          receipt      \* the last answer for each request

receiptVars == <<clock, head, submitted, cache, hubEvents, receipt>>

Events == [name : {"relayed", "rejected"}, ok : BOOLEAN, block : Nat]
SubmittedInfo == [block : Int, validUntil : Int]
Answers == {"unasked", "null", "reverted", "success", "failure", "error"}
NotRemembered == [block |-> -1, validUntil |-> -1]
MAX_SAFE_INTEGER == 1000 * (MaxClock + Valid + 1)

ReceiptsTypeOK ==
    /\ clock \in 0..MaxClock /\ head \in 0..LastBlock
    /\ submitted \in [AppRequests -> [at : {"idle", "relaying", "sent"}, block : -1..head, validUntil : Int]]
    /\ cache \in [AppRequests -> SubmittedInfo]
    /\ hubEvents \in [AppRequests -> Seq(Events)] /\ receipt \in [AppRequests -> Answers]

ReceiptsInit ==
    /\ clock = 0 /\ head = 0
    /\ submitted = [r \in AppRequests |-> [at |-> "idle", block |-> -1, validUntil |-> -1]]
    /\ cache = [r \in AppRequests |-> NotRemembered]
    /\ hubEvents = [r \in AppRequests |-> <<>>]
    /\ receipt = [r \in AppRequests |-> "unasked"]

-----------------------------------------------------------------------------
(* Sending.                                                                *)

\* relayTransaction: the request is valid for a while, and the block is read
\* before the first relay is asked.
SendRequest(r) ==
    /\ submitted[r].at = "idle"
    /\ submitted' = [submitted EXCEPT ![r] = [at |-> "relaying", block |-> head, validUntil |-> clock + Valid]]
    /\ UNCHANGED <<clock, head, cache, hubEvents, receipt>>

\* Faulty: the block is read when a relay has answered.
DetailsAfter(r) == [block |-> head, validUntil |-> submitted[r].validUntil]

Details(r) == [block |-> submitted[r].block, validUntil |-> submitted[r].validUntil]

\* _onRelayTransactionFulfilled, cacheSubmittedTransactionDetails.
RequestSent(r) ==
    /\ submitted[r].at = "relaying"
    /\ submitted' = [submitted EXCEPT ![r].at = "sent"]
    /\ cache' = [cache EXCEPT ![r] = Details(r)]
    /\ UNCHANGED <<clock, head, hubEvents, receipt>>

\* The application is started again.
AppRestart ==
    /\ cache' = [r \in AppRequests |-> NotRemembered]
    /\ cache # cache'
    /\ UNCHANGED <<clock, head, submitted, hubEvents, receipt>>

-----------------------------------------------------------------------------
(* The chain.                                                              *)

Relayed(r) == {i \in DOMAIN hubEvents[r] : hubEvents[r][i].name = "relayed"}
HubEvent(name, ok) == [name |-> name, ok |-> ok, block |-> head + 1]

\* A transaction with the request is mined: the request is executed, well or
\* not, once and while it is valid, or it is rejected.
MineRelayed(r) ==
    /\ submitted[r].at # "idle" /\ head < LastBlock /\ Len(hubEvents[r]) < MaxEvents
    /\ head' = head + 1
    /\ \E e \in {HubEvent("relayed", ok) : ok \in BOOLEAN} \union {HubEvent("rejected", FALSE)} :
         /\ e.name = "relayed" => Relayed(r) = {} /\ clock < submitted[r].validUntil
         /\ hubEvents' = [hubEvents EXCEPT ![r] = Append(@, e)]
    /\ UNCHANGED <<clock, submitted, cache, receipt>>

BlockPasses == head < LastBlock /\ head' = head + 1 /\ UNCHANGED <<clock, submitted, cache, hubEvents, receipt>>
ClockTick == clock < MaxClock /\ clock' = clock + 1 /\ UNCHANGED <<head, submitted, cache, hubEvents, receipt>>

-----------------------------------------------------------------------------
(* Receipts.                                                               *)

\* _getSubmissionDetailsForRelayRequestId.
SubmissionDetails(r) ==
    IF cache[r] # NotRemembered THEN cache[r]
    ELSE [block |-> IF head - Lookup > 1 THEN head - Lookup ELSE 1, validUntil |-> MAX_SAFE_INTEGER]

\* The places of the events that are found.
Found(r) == {i \in DOMAIN hubEvents[r] : hubEvents[r][i].block >= SubmissionDetails(r).block}

\* Date.now() is in milliseconds, validUntilTime in seconds.
DateNow == 1000 * clock

LastOf(found) == CHOOSE i \in found : \A j \in found : j <= i

\* _pickSingleEvent: an executed request's, or else the last rejection.
PickSingleEvent(r) ==
    LET successes == Found(r) \cap Relayed(r)
    IN  LastOf(IF successes = {} THEN Found(r) ELSE successes)

\* Faulty: only rejections are failures.
TranslatedRejected(event) == IF event.name = "rejected" THEN "failure" ELSE "success"

\* _getTranslatedGsnResponseResult: what the receipt of the transaction with
\* the event says.
Translated(event) == IF event.name = "rejected" \/ ~event.ok THEN "failure" ELSE "success"

ReceiptNow(r) ==
    IF Found(r) = {}
    THEN IF SubmissionDetails(r).validUntil > DateNow THEN "null" ELSE "reverted"
    ELSE IF \E i, j \in Found(r) \cap Relayed(r) : i # j THEN "error"
    ELSE Translated(hubEvents[r][PickSingleEvent(r)])

GetReceipt(r) ==
    /\ submitted[r].at = "sent"
    /\ receipt' = [receipt EXCEPT ![r] = ReceiptNow(r)]
    /\ UNCHANGED <<clock, head, submitted, cache, hubEvents>>

ReceiptsNext ==
    \/ AppRestart \/ BlockPasses \/ ClockTick
    \/ \E r \in AppRequests : SendRequest(r) \/ RequestSent(r) \/ MineRelayed(r) \/ GetReceipt(r)

ReceiptsSpec == ReceiptsInit /\ [][ReceiptsNext]_receiptVars

-----------------------------------------------------------------------------
(* Properties.                                                             *)

Remembered(r) == cache[r] # NotRemembered
Succeeded(r) == \E i \in DOMAIN hubEvents[r] : hubEvents[r][i].ok

\* All that was mined of a request can be found: the provider remembers the request, or a
\* restarted one looks far enough back.
InReach(r) == Remembered(r) \/ \A i \in DOMAIN hubEvents[r] : hubEvents[r][i].block >= head - Lookup

\* Whatever was mined before or after it, a request that was executed has the receipt of its
\* execution when its receipt is asked for; never are two executions found ("this is
\* impossible for current Forwarder").
ReceiptIsTrue ==
    \A r \in AppRequests : submitted[r].at = "sent" =>
        /\ ReceiptNow(r) # "error"
        /\ ReceiptNow(r) = "success" => Succeeded(r)
        /\ ReceiptNow(r) = "failure" => hubEvents[r] # <<>> /\ (InReach(r) => ~Succeeded(r))

\* What was mined is found, even if it was mined before the relay answered, or before the
\* application was started again.
MinedIsFound ==
    \A r \in AppRequests : submitted[r].at = "sent" /\ InReach(r) /\ hubEvents[r] # <<>> =>
        ReceiptNow(r) \in {"success", "failure"}

\* An application that was told of a success is not told otherwise later, while what was
\* mined can be found.
SuccessStandsStep ==
    \A r \in AppRequests : receipt[r] = "success" /\ InReach(r) => receipt'[r] = "success"
=============================================================================
