------------------------------- MODULE LogPages -------------------------------
(***************************************************************************)
(* ContractInteractor's queries for past events: the range is cut into     *)
(* pages, a page is retried, and when the node refuses a page because it   *)
(* holds too many events the whole range is cut into smaller pages.  The   *)
(* last block of an open range is asked from a node that may lag.          *)
(*                                                                         *)
(* One query after another, each over a range of a chain that grows.  The  *)
(* events of interest are numbered in the order of the chain; a block      *)
(* holds at most MaxPerBlock of them.                                      *)
(***************************************************************************)
EXTENDS Integers, Sequences

CONSTANTS MaxBlock,       \* bound on the height of the chain
          MaxPerBlock,    \* bound on the events of a block
          MaxPageSize,    \* pastEventsQueryMaxPageSize, Unlimited when not set
          MaxPageCount,   \* pastEventsQueryMaxPageCount
          NodeLimit,      \* the node answers at most so many events
          MaxAttempts,    \* attempts for one page (100 in the code)
          MaxBlockAttempts,  \* attempts for a block number (11 in the code)
          MaxSplit,       \* pages above which a range is not split again (16)
          MaxPageFailures,   \* bound on answers that fail for another reason
          MaxQueries      \* bound on the queries

Unlimited == 0               \* Number.MAX_SAFE_INTEGER
Latest == MaxBlock + 2       \* 'latest'

LogPagesAssumption ==
    /\ {MaxBlock, MaxPerBlock, MaxPageSize, MaxPageCount, NodeLimit, MaxPageFailures,
      MaxQueries} \subseteq Nat
    /\ {MaxAttempts, MaxBlockAttempts, MaxSplit} \subseteq Nat \ {0}

VARIABLES logged,       \* the number of events in the blocks up to each block
          lastBlockNumber,
          queryAt,      \* where the query is
          range,        \* its options.fromBlock and toBlock, and the block it is sure to reach
          pages,        \* rangeParts
          nextPage,     \* the page asked for next
          pagesCurrent,
          attempts,
          parts,        \* relayEventParts, flattened: numbers of events
          pageFailures, queries

pageVars == <<logged, lastBlockNumber, queryAt, range, pages, nextPage, pagesCurrent, attempts,
              parts, pageFailures, queries>>

Height == Len(logged)
EventsUpTo(b) == IF b = 0 THEN 0 ELSE logged[b]

PagesTypeOK ==
    /\ logged \in Seq(Nat) /\ lastBlockNumber \in 0..Height /\ Height <= MaxBlock
    /\ queryAt \in {"idle", "block", "fetch", "done", "thrown"}
    /\ range.from \in 1..MaxBlock + 1 /\ range.to \in 1..Latest /\ range.known \in 0..Height
    /\ nextPage \in 0..Len(pages) + 1
    /\ pagesCurrent \in 0..MaxPageCount + 4 * MaxSplit
    /\ attempts \in 0..MaxAttempts + MaxBlockAttempts
    /\ parts \in Seq(Nat)
    /\ pageFailures \in 0..MaxPageFailures /\ queries \in 0..MaxQueries

PagesInit ==
    /\ logged \in UNION {[1..h -> 0..h * MaxPerBlock] : h \in 1..MaxBlock}
    /\ \A b \in 1..Height : EventsUpTo(b) - EventsUpTo(b - 1) \in 0..MaxPerBlock
    /\ lastBlockNumber = 0
    /\ queryAt = "idle"
    /\ range = [from |-> 1, to |-> Latest, known |-> 0]
    /\ pages = <<>> /\ nextPage = 0 /\ pagesCurrent = 0 /\ attempts = 0
    /\ parts = <<>>
    /\ pageFailures = 0 /\ queries = 0

MineEvents ==
    /\ Height < MaxBlock
    /\ \E n \in 0..MaxPerBlock : logged' = Append(logged, EventsUpTo(Height) + n)
    /\ UNCHANGED <<lastBlockNumber, queryAt, range, pages, nextPage, pagesCurrent, attempts,
                   parts, pageFailures, queries>>

PageFailure == pageFailures < MaxPageFailures /\ pageFailures' = pageFailures + 1

-----------------------------------------------------------------------------
(* Pages.                                                                  *)

CeilDiv(a, b) == (a + b - 1) \div b

\* Faulty: the split rounds down.
SplitRangeDown(from, to, n) ==
    IF n = 1 THEN <<<<from, to>>>>
    ELSE LET size == IF (to - from + 1) \div n = 0 THEN 1 ELSE (to - from + 1) \div n
         IN  [i \in 1..n |-> <<from + (i - 1) * size, from + i * size - 1>>]

\* splitRange: at most n pages of one size, the last one shorter.
SplitRange(from, to, n) ==
    IF n = 1 THEN <<<<from, to>>>>
    ELSE LET size == CeilDiv(to - from + 1, n)
             First(i) == from + (i - 1) * size
         IN  [i \in 1..CeilDiv(to - from + 1, size) |->
                 <<First(i), IF First(i + 1) - 1 < to THEN First(i + 1) - 1 ELSE to>>]

\* getLogsPagesForRange.
PagesForRange(from, to) == IF MaxPageSize = Unlimited THEN 1
                           ELSE CeilDiv(to - from + 1, MaxPageSize)

ThrowQuery ==
    /\ queryAt' = "thrown"
    /\ UNCHANGED <<pages, nextPage, pagesCurrent, attempts>>

\* splitRange needs numbers as soon as there is more than one page.
CutRange(from, to, n) ==
    \/ /\ to = Latest /\ n > 1
       /\ ThrowQuery
    \/ /\ to # Latest \/ n = 1
       /\ queryAt' = "fetch"
       /\ pages' = SplitRange(from, to, n)
       /\ nextPage' = 1 /\ attempts' = 0
       /\ pagesCurrent' = n

\* The checks of _getPastEventsPaginated once the range is known.
StartQuery(from, to) ==
    \/ /\ to # Latest /\ from > to
       /\ ThrowQuery
    \/ /\ ~(to # Latest /\ from > to)
       /\ PagesForRange(from, to) > MaxPageCount
       /\ ThrowQuery
    \/ /\ ~(to # Latest /\ from > to)
       /\ PagesForRange(from, to) <= MaxPageCount
       /\ CutRange(from, to, PagesForRange(from, to))

-----------------------------------------------------------------------------
(* A query.                                                                *)

\* The caller scans from the block after the last one it knows, or over a
\* range of known blocks.
GetPastEvents ==
    /\ queryAt \in {"idle", "done", "thrown"} /\ queries < MaxQueries
    /\ queries' = queries + 1
    /\ parts' = <<>>
    /\ \E from \in 1..Height + 1, to \in 1..Height \cup {Latest} :
          /\ range' = [from |-> from, to |-> to, known |-> IF to = Latest THEN Height ELSE to]
          /\ \/ /\ MaxPageSize # Unlimited /\ to = Latest
                /\ queryAt' = "block" /\ attempts' = 0
                /\ UNCHANGED <<pages, nextPage, pagesCurrent>>
             \/ /\ MaxPageSize = Unlimited \/ to # Latest
                /\ StartQuery(from, to)
    /\ UNCHANGED <<logged, lastBlockNumber, pageFailures>>

\* getBlockNumber: a number below the last one is asked for again.
GetBlockNumber ==
    /\ queryAt = "block"
    /\ \E n \in lastBlockNumber..Height :
          /\ lastBlockNumber' = n
          /\ LET to == IF range.from > n THEN range.from ELSE n IN
             range' = [range EXCEPT !.to = to, !.known = n] /\ StartQuery(range.from, to)
    /\ UNCHANGED <<logged, parts, pageFailures, queries>>

LaggingBlockNumber ==
    /\ queryAt = "block"
    /\ \/ lastBlockNumber > 0 /\ UNCHANGED pageFailures
       \/ lastBlockNumber = 0 /\ PageFailure
    /\ attempts' = attempts + 1
    /\ queryAt' = IF attempts' < MaxBlockAttempts THEN "block" ELSE "thrown"
    /\ UNCHANGED <<logged, lastBlockNumber, range, pages, nextPage, pagesCurrent, parts, queries>>

\* The events of some blocks, as far as they are mined.
EventsIn(from, to) ==
    LET last == IF to > Height THEN Height ELSE to
    IN  [i \in 1..EventsUpTo(last) - EventsUpTo(from - 1) |-> EventsUpTo(from - 1) + i]

Page == pages[nextPage]
Answer == EventsIn(Page[1], Page[2])

\* Faulty: the page that failed is the last one.
TurnPageEarly == IF nextPage + 1 >= Len(pages) THEN queryAt' = "done" ELSE queryAt' = "fetch"

TurnPage == IF nextPage = Len(pages) THEN queryAt' = "done" ELSE queryAt' = "fetch"

FetchPage ==
    /\ queryAt = "fetch" /\ Len(Answer) <= NodeLimit
    /\ parts' = parts \o Answer
    /\ TurnPage
    /\ nextPage' = nextPage + 1
    /\ attempts' = 0
    /\ UNCHANGED <<logged, lastBlockNumber, range, pages, pagesCurrent, pageFailures, queries>>

\* Faulty: the pages stay as they are.
SplitAgainSame == CutRange(range.from, range.to, pagesCurrent)

\* 'Too many events after splitting', or four times as many pages.
SplitAgain ==
    \/ pagesCurrent > MaxSplit /\ ThrowQuery
    \/ pagesCurrent <= MaxSplit /\ CutRange(range.from, range.to, 4 * pagesCurrent)

\* The node refuses the page; the retries see the same refusal.
TooManyEvents ==
    /\ queryAt = "fetch" /\ Len(Answer) > NodeLimit
    /\ \/ /\ attempts + 1 < MaxAttempts
          /\ attempts' = attempts + 1
          /\ UNCHANGED <<queryAt, pages, nextPage, pagesCurrent>>
       \/ /\ attempts + 1 >= MaxAttempts
          /\ SplitAgain
    /\ UNCHANGED <<logged, lastBlockNumber, range, parts, pageFailures, queries>>

FetchFails ==
    /\ queryAt = "fetch" /\ PageFailure
    /\ \/ /\ attempts + 1 < MaxAttempts
          /\ attempts' = attempts + 1
          /\ UNCHANGED <<queryAt, pages, nextPage, pagesCurrent>>
       \/ /\ attempts + 1 >= MaxAttempts
          /\ ThrowQuery
    /\ UNCHANGED <<logged, lastBlockNumber, range, parts, queries>>

QueryStep == GetBlockNumber \/ LaggingBlockNumber \/ FetchPage \/ TooManyEvents \/ FetchFails

PagesNext == MineEvents \/ GetPastEvents \/ QueryStep

PagesSpec == PagesInit /\ [][PagesNext]_pageVars
FairPages == PagesSpec /\ WF_pageVars(QueryStep)

-----------------------------------------------------------------------------
(* Properties.                                                             *)

\* The events a query is sure to find.
Wanted == EventsIn(range.from, range.known)

\* A query that was never cut again has every event of its range, in order,
\* exactly once, however often its pages were retried; what follows is of later
\* blocks (ContractInteractor.test.ts, 'should break large request into multiple
\* chunks', expects as many events as blocks).
ExactlyOnce ==
    queryAt = "done" /\ pagesCurrent = PagesForRange(range.from, range.to) =>
        /\ Len(Wanted) <= Len(parts)
        /\ \A i \in 1..Len(parts) :
              IF i <= Len(Wanted) THEN parts[i] = Wanted[i] ELSE parts[i] > EventsUpTo(range.known)

\* Nothing in the range is missing from a finished query, even after it was
\* cut again half-way.
NothingMissing ==
    queryAt = "done" => \A i \in DOMAIN Wanted : \E j \in DOMAIN parts : parts[j] = Wanted[i]

\* A finished query has every event of its range, and in order and exactly once
\* unless it was cut again.
QueriesComplete == PagesTypeOK /\ ExactlyOnce /\ NothingMissing

\* A query that was asked and has no answer yet.
QueryRuns == queryAt \in {"block", "fetch"}
===============================================================================
