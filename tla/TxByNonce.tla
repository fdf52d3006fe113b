------------------------------ MODULE TxByNonce ------------------------------
(***************************************************************************)
(* The penalizer's search for the transaction an account mined with a      *)
(* nonce.  The explorer lists the account's transactions in pages, its own *)
(* and those sent to it; each page that was read is kept in a cache on     *)
(* disk, with the number of the last page, where a later search resumes.   *)
(*                                                                         *)
(* Each request to the explorer is a step, and so is each insertion.  The  *)
(* entries of the list are the account's nonces, or Incoming.              *)
(***************************************************************************)
EXTENDS Integers, Sequences

CONSTANTS Searches,     \* calls of getTransactionByNonce
          PageSize,     \* entries of a page
          Lists,        \* the account's transactions to begin with
          MaxList,      \* bound on the account's transactions
          MaxExplorerFailures   \* bound on answers of the explorer that are errors

ListNonces == 0..MaxList
Incoming == -1
Outgoing(s) == {s[i] : i \in DOMAIN s} \ {Incoming}

\* An account mines its nonces in order.
InOrderOfNonce(l) ==
    /\ \A i, j \in DOMAIN l : i < j /\ l[i] # Incoming /\ l[j] # Incoming => l[i] < l[j]
    /\ \A n \in Outgoing(l) : 0..n \subseteq Outgoing(l)

ASSUME TxByNonceAssumption ==
    /\ PageSize \in Nat \ {0} /\ {MaxList, MaxExplorerFailures} \subseteq Nat
    /\ \A l \in Lists : l \in Seq(ListNonces \union {Incoming}) /\ Len(l) <= MaxList /\ InOrderOfNonce(l)

VARIABLES list,       \* the account's transactions
          page,       \* pagesStore: the last page queried, 0 for none
          cache,      \* txstore: the nonces
          search,     \* the searches
          searchFailures

searchVars == <<list, page, cache, search, searchFailures>>

SearchState == [at : {"idle", "resume", "query", "pages", "insert", "done"},
                nonce : ListNonces, page : Nat, got : Seq(ListNonces \union {Incoming}),
                todo : SUBSET ListNonces, answer : {"none", "found", "missing", "error"},
                was : BOOLEAN]

SearchTypeOK ==
    /\ list \in Seq(ListNonces \union {Incoming}) /\ Len(list) <= MaxList
    /\ page \in Nat /\ cache \subseteq ListNonces /\ searchFailures \in 0..MaxExplorerFailures
    /\ search \in [Searches -> SearchState]

NoSearch == [at |-> "idle", nonce |-> 0, page |-> 0, got |-> <<>>, todo |-> {},
             answer |-> "none", was |-> FALSE]

SearchInit ==
    /\ list \in Lists /\ page = 0 /\ cache = {} /\ searchFailures = 0
    /\ search = [s \in Searches |-> NoSearch]

\* The account sends, or is sent, another transaction.
MineTransaction ==
    /\ Len(list) < MaxList
    /\ \E t \in {Incoming} \union {n \in ListNonces : Outgoing(list) = 0..n - 1} : list' = Append(list, t)
    /\ UNCHANGED <<page, cache, search, searchFailures>>

PageStart(p) == (p - 1) * PageSize
PageEnd(p) == IF PageStart(p) + PageSize < Len(list) THEN PageStart(p) + PageSize ELSE Len(list)
Page(p) == SubSeq(list, PageStart(p) + 1, PageEnd(p))

Done(s, answer) ==
    search' = [search EXCEPT ![s] = [NoSearch EXCEPT !.at = "done", !.nonce = search[s].nonce,
                                                     !.answer = answer, !.was = search[s].was]]

\* "was" remembers whether the transaction was mined when the search began.
QueryCachedTransactions(s) ==
    /\ search[s].at = "idle"
    /\ \E n \in ListNonces :
         search' = [search EXCEPT
                      ![s].at = IF n \in cache THEN "done" ELSE "resume",
                      ![s].nonce = n,
                      ![s].was = n \in Outgoing(list),
                      ![s].answer = IF n \in cache THEN "found" ELSE "none"]
    /\ UNCHANGED <<list, page, cache, searchFailures>>

GetLastPageQueried(s) ==
    /\ search[s].at = "resume"
    /\ search' = [search EXCEPT ![s].at = "query", ![s].page = page + 1]
    /\ UNCHANGED <<list, page, cache, searchFailures>>

QueryEtherscan(s) ==
    /\ search[s].at = "query"
    /\ search' = [search EXCEPT ![s].at = "pages", ![s].got = Page(search[s].page)]
    /\ UNCHANGED <<list, page, cache, searchFailures>>

QueryFails(s) ==
    /\ search[s].at = "query" /\ searchFailures < MaxExplorerFailures /\ searchFailures' = searchFailures + 1
    /\ Done(s, "error")
    /\ UNCHANGED <<list, page, cache>>

\* Faulty: the transactions sent to the account are kept as its own, by position.
PutAllTransactions(s) ==
    /\ search[s].at = "pages"
    /\ page' = IF page = 0 THEN search[s].page ELSE page
    /\ search' = [search EXCEPT ![s].at = "insert",
                                ![s].todo = {PageStart(search[s].page) + i - 1 : i \in DOMAIN search[s].got}]
    /\ UNCHANGED <<list, cache, searchFailures>>

\* The page is recorded once; a later page leaves the record as it is.
PutTransactions(s) ==
    /\ search[s].at = "pages"
    /\ IF page # 0 /\ page >= search[s].page
       THEN Done(s, "error") /\ UNCHANGED page
       ELSE /\ page' = IF page = 0 THEN search[s].page ELSE page
            /\ search' = [search EXCEPT ![s].at = "insert", ![s].todo = Outgoing(search[s].got)]
    /\ UNCHANGED <<list, cache, searchFailures>>

\* One entry after the other, in the order of the page, which is that of the nonces;
\* txstore's hashes are unique: an entry that is there throws.
InsertTransaction(s) ==
    /\ search[s].at = "insert"
    /\ \E n \in search[s].todo :
         /\ \A m \in search[s].todo : n <= m
         /\ IF n \in cache
            THEN Done(s, "error") /\ UNCHANGED cache
            ELSE /\ cache' = cache \union {n}
                 /\ search' = [search EXCEPT ![s].todo = @ \ {n}]
    /\ UNCHANGED <<list, page, searchFailures>>

\* Faulty: the search ends with the first page.
LastPageFirst(s) == Len(search[s].got) >= 0

\* A page that is not full is the last one.
LastPage(s) == Len(search[s].got) < PageSize

\* The transaction is looked for in the page; then the next page, while this one was full.
NextPage(s) ==
    /\ search[s].at = "insert" /\ search[s].todo = {}
    /\ \/ search[s].nonce \in Outgoing(search[s].got) /\ Done(s, "found")
       \/ search[s].nonce \notin Outgoing(search[s].got) /\ LastPage(s) /\ Done(s, "missing")
       \/ /\ search[s].nonce \notin Outgoing(search[s].got) /\ ~LastPage(s)
          /\ search' = [search EXCEPT ![s].at = "query", ![s].page = @ + 1]
    /\ UNCHANGED <<list, page, cache, searchFailures>>

SearchStep(s) ==
    \/ QueryCachedTransactions(s) \/ GetLastPageQueried(s) \/ QueryEtherscan(s) \/ QueryFails(s)
    \/ PutTransactions(s) \/ InsertTransaction(s) \/ NextPage(s)

SearchNext == MineTransaction \/ \E s \in Searches : SearchStep(s)

SearchSpec == SearchInit /\ [][SearchNext]_searchVars

-----------------------------------------------------------------------------
(* Properties *)

\* What is cached, and so what a search may find, was mined by the account.
CacheIsMined == cache \subseteq Outgoing(list)

FirstSearch(s) == \A o \in Searches \ {s} : search[o].at = "idle"

\* The first search finds every transaction that was mined before it, on whatever page.
FirstSearchFinds ==
    \A s \in Searches : FirstSearch(s) /\ search[s].was => search[s].answer \notin {"missing"}
=============================================================================
