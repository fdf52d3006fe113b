--------------------------- MODULE RebelRunRaffle ---------------------------
(***************************************************************************)
(* RebelRunVRFConsumer: a list of candidates and a number of tickets go to *)
(* the coordinator, random words come back once, and each word draws one   *)
(* candidate, who is paid and taken out of the list.  The answer is one    *)
(* transaction: a payment that fails undoes it, and the coordinator does   *)
(* not call again.  The consumer is a transferrer of the pools, which have *)
(* their tokens from a custom redeem method.                               *)
(***************************************************************************)
EXTENDS Counting, SequencesExt

CONSTANTS Accounts,
          Owner,         \* of the consumer
          Refusing,      \* accounts that take no ERC1155 token
          TicketPools, Ids,    \* reward pools, and ids of their asset pools
          AssetPoolById, \* [TicketPools -> [Ids -> StockPools or NoPool]]
          StockPools, NoPool,  \* asset pools, and the zero address
          FirstPool, FirstId,  \* of the constructor
          Price,         \* redeemTokenAmount, the same in all pools
          InitialStock,  \* tokens of a pool
          RequestIds,    \* bound: requests made
          Candidates,    \* bound: lists passed
          Tickets,       \* bound: numbers of tickets asked for
          Words,         \* bound: random words
          Callers        \* bound: accounts that are authorised

ASSUME RaffleAssumption ==
    /\ Owner \in Accounts /\ Refusing \subseteq Accounts /\ Callers \subseteq Accounts
    /\ \A pool \in TicketPools, id \in Ids : AssetPoolById[pool][id] \in StockPools \cup {NoPool}
    /\ FirstId \in Ids /\ AssetPoolById[FirstPool][FirstId] \in StockPools
    /\ NoPool \notin StockPools
    /\ Candidates \subseteq Seq(Accounts) /\ Tickets \subseteq Nat /\ Words \subseteq Nat
    /\ Price \in Nat /\ InitialStock \in Nat
    /\ IsFiniteSet(StockPools) /\ IsFiniteSet(RequestIds) /\ IsFiniteSet(Words)

VARIABLES authorised,  \* _authorised
          ASSET_POOL,
          ticketId,    \* REBEL_TICKET_ID
          requests,    \* requests[r]: "none", or its candidates, tickets and fate
          stock,       \* tokens each asset pool holds
          winners      \* winners[r]: who was paid by the answer to r, in order

raffleVars == <<authorised, ASSET_POOL, ticketId, requests, stock, winners>>

NoRequest == [status |-> "none", addresses |-> <<>>, tickets |-> 0]

RaffleInit ==
    /\ authorised = {}
    /\ ASSET_POOL = AssetPoolById[FirstPool][FirstId] /\ ticketId = FirstId
    /\ requests = [r \in RequestIds |-> NoRequest]
    /\ stock = [p \in StockPools |-> InitialStock]
    /\ winners = [r \in RequestIds |-> <<>>]

RaffleTypeOK ==
    /\ authorised \subseteq Accounts /\ ticketId \in Ids
    /\ ASSET_POOL \in StockPools \cup {NoPool}
    /\ \A r \in RequestIds :
         /\ requests[r].status \in {"none", "pending", "fulfilled", "failed"}
         /\ requests[r].addresses \in Seq(Accounts) /\ requests[r].tickets \in Nat
         /\ winners[r] \in Seq(Accounts)
    /\ stock \in [StockPools -> Nat]

\* Authorised.setAuthorised.
SetAuthorised(sender, caller, flag) ==
    /\ sender = Owner
    /\ authorised' = IF flag THEN authorised \cup {caller} ELSE authorised \ {caller}
    /\ UNCHANGED <<ASSET_POOL, ticketId, requests, stock, winners>>

RequestRandomWords(sender, r, addresses, amountOfTickets) ==
    /\ sender \in authorised \cup {Owner}
    /\ requests[r].status = "none"
    /\ requests' = [requests EXCEPT ![r] = [status |-> "pending", addresses |-> addresses,
                                            tickets |-> amountOfTickets]]
    /\ UNCHANGED <<authorised, ASSET_POOL, ticketId, stock, winners>>

-----------------------------------------------------------------------------
(* The loop of fulfillRandomWords *)

Lesser(a, b) == IF a < b THEN a ELSE b

\* Faulty: the list loses its last entry, whoever was drawn.
TakeOutLast(list, k) == Front(list)

\* Faulty: the length is taken down before the last entry is read.
TakeOutShort(list, k) ==
    IF Len(list) = 1 THEN <<>> ELSE Front([list EXCEPT ![k] = list[Len(list) - 1]])

\* The last entry takes the place of the k-th, and the array is shortened.
TakeOut(list, k) == Front([list EXCEPT ![k] = Last(list)])

\* The index the word draws, counted from 1.
Drawn(list, word) == (word % Len(list)) + 1

\* lists[k]: the candidates left after k draws.
Lists(addresses, words) ==
    LET lists[k \in 0..Lesser(Len(words), Len(addresses))] ==
            IF k = 0 THEN addresses
                     ELSE TakeOut(lists[k - 1], Drawn(lists[k - 1], words[k]))
    IN  lists

\* Who is drawn, in order: the loop ends with the words or with the candidates.
Draw(addresses, words) ==
    LET lists == Lists(addresses, words)
    IN  [k \in 1..Lesser(Len(words), Len(addresses)) |->
           lists[k - 1][Drawn(lists[k - 1], words[k])]]

\* transferRedeemTokenAmount works for each of them, in one pool and one price.
CanPay(drawn) ==
    drawn # <<>> => /\ ASSET_POOL # NoPool
                    /\ stock[ASSET_POOL] >= Len(drawn) * Price
                    /\ Range(drawn) \cap Refusing = {}

\* Faulty: a payment that fails ends the loop instead of the transaction.
PaidPart(drawn) ==
    IF ASSET_POOL = NoPool THEN <<>>
    ELSE SubSeq(drawn, 1, Lesser(Len(drawn), IF Price = 0 THEN Len(drawn)
                                                         ELSE stock[ASSET_POOL] \div Price))
FulfillWhatItCan(r, words) ==
    LET paid == PaidPart(Draw(requests[r].addresses, words))
    IN  /\ requests[r].status = "pending" /\ Len(words) = requests[r].tickets
        /\ requests' = [requests EXCEPT ![r].status = "fulfilled"]
        /\ winners' = [winners EXCEPT ![r] = paid]
        /\ stock' = IF paid = <<>> THEN stock ELSE [stock EXCEPT ![ASSET_POOL] = @ - Len(paid) * Price]
        /\ UNCHANGED <<authorised, ASSET_POOL, ticketId>>

\* Faulty: one price is taken for all winners.
FulfillForOnePrice(r, words) ==
    LET drawn == Draw(requests[r].addresses, words)
    IN  /\ requests[r].status = "pending" /\ Len(words) = requests[r].tickets
        /\ CanPay(drawn)
        /\ requests' = [requests EXCEPT ![r].status = "fulfilled"]
        /\ winners' = [winners EXCEPT ![r] = drawn]
        /\ stock' = IF drawn = <<>> THEN stock ELSE [stock EXCEPT ![ASSET_POOL] = @ - Price]
        /\ UNCHANGED <<authorised, ASSET_POOL, ticketId>>

\* fulfillRandomWords, when nothing in it reverts.
FulfillRandomWords(r, words) ==
    LET drawn == Draw(requests[r].addresses, words)
    IN  /\ requests[r].status = "pending" /\ Len(words) = requests[r].tickets
        /\ CanPay(drawn)
        /\ requests' = [requests EXCEPT ![r].status = "fulfilled"]
        /\ winners' = [winners EXCEPT ![r] = drawn]
        /\ stock' = IF drawn = <<>> THEN stock ELSE [stock EXCEPT ![ASSET_POOL] = @ - Len(drawn) * Price]
        /\ UNCHANGED <<authorised, ASSET_POOL, ticketId>>

\* The coordinator's call reverts; the coordinator is done with the request.
FulfillReverts(r, words) ==
    /\ requests[r].status = "pending" /\ Len(words) = requests[r].tickets
    /\ ~CanPay(Draw(requests[r].addresses, words))
    /\ requests' = [requests EXCEPT ![r].status = "failed"]
    /\ UNCHANGED <<authorised, ASSET_POOL, ticketId, stock, winners>>

-----------------------------------------------------------------------------

\* The pool is looked up with the ticket id of now, and may not be there.
SetAssetPool(sender, pool) ==
    /\ sender = Owner
    /\ ASSET_POOL' = AssetPoolById[pool][ticketId]
    /\ UNCHANGED <<authorised, ticketId, requests, stock, winners>>

\* The asset pool stays that of the old ticket id until setAssetPool.
SetRebelTicketId(sender, id) ==
    /\ sender = Owner
    /\ ticketId' = id
    /\ UNCHANGED <<authorised, ASSET_POOL, requests, stock, winners>>

WordLists(n) == [1..n -> Words]

RaffleNext ==
    \/ \E sender \in Accounts :
         \/ \E caller \in Callers, flag \in BOOLEAN : SetAuthorised(sender, caller, flag)
         \/ \E r \in RequestIds, list \in Candidates, n \in Tickets :
              RequestRandomWords(sender, r, list, n)
         \/ \E pool \in TicketPools : SetAssetPool(sender, pool)
         \/ \E id \in Ids : SetRebelTicketId(sender, id)
    \/ \E r \in RequestIds : \E words \in WordLists(requests[r].tickets) :
         FulfillRandomWords(r, words) \/ FulfillReverts(r, words)

RaffleSpec == RaffleInit /\ [][RaffleNext]_raffleVars

-----------------------------------------------------------------------------
(* Properties *)

Times(list, u) == Cardinality({k \in DOMAIN list : list[k] = u})

\* Nobody wins more often in an answer than the request lists them: a candidate that was
\* drawn is out, and none comes in with the swap.
WinsAsListed ==
    \A r \in RequestIds : \A u \in Accounts :
        Times(winners[r], u) <= Times(requests[r].addresses, u)

\* An answer draws as many as there are words or candidates, and pays all of them or
\* none: a request that failed has paid nobody.
AllOrNone ==
    \A r \in RequestIds :
        Len(winners[r]) = IF requests[r].status = "fulfilled"
                          THEN Lesser(requests[r].tickets, Len(requests[r].addresses))
                          ELSE 0

\* What the winners were paid is what the asset pools have less.
StockPaysWinners ==
    Total([p \in StockPools |-> InitialStock - stock[p]], StockPools)
        = Total([r \in RequestIds |-> Price * Len(winners[r])], RequestIds)

\* The raffle promises: wins as listed, answers that pay all or none, and every prize
\* paid once.
DrawIsFair == RaffleTypeOK /\ WinsAsListed /\ AllOrNone /\ StockPaysWinners

\* As many words have one remainder as another.
EvenOver(n) ==
    \A a, b \in 0..n - 1 :
        Cardinality({w \in Words : w % n = a}) = Cardinality({w \in Words : w % n = b})

\* Every candidate of a list of distinct ones wins for as many of the word lists as any
\* other, when the words are even over all remainders: the swap favours no place.
DrawIsEvenHanded ==
    \A r \in RequestIds :
        LET list == requests[r].addresses
            Wins(u) == Cardinality({w \in WordLists(requests[r].tickets) : u \in Range(Draw(list, w))})
        IN  /\ requests[r].status = "pending" /\ IsInjective(list)
            /\ \A n \in 1..Len(list) : EvenOver(n)
            => \A u, v \in Range(list) : Wins(u) = Wins(v)

=============================================================================
