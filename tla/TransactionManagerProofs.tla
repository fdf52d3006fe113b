---------------------- MODULE TransactionManagerProofs ----------------------
(***************************************************************************)
(* No nonce is used twice, proved for any number of signers, calls, fees   *)
(* and faults.                                                             *)
(*                                                                         *)
(* What makes it true: a nonce below the one a call signs is covered, it   *)
(* is in the store or settled in the chain, and a nonce the node calls     *)
(* free is not settled.  So a call whose key the unique index lets in      *)
(* meets no transaction of another call anywhere.                          *)
(***************************************************************************)
EXTENDS TransactionManager, FiniteSetTheorems, SequenceTheorems, WellFoundedInduction, TLAPS

\* How deep a nonce is mined, and what the chain does not give back any more.
Depth(s, n) == IF n < MinedCount(s) THEN chain[s][n + 1].depth ELSE 0
Settled(s, n) == Depth(s, n) >= Old
Covered(s, n) == <<s, n>> \in StoredKeys \/ Settled(s, n)

\* Calls that were given a nonce.  There are fewer nonces than that.
SignedCalls == {c \in Calls : signed[c] # None}
Handed == Cardinality(SignedCalls)

\* Every version of a transaction that is somewhere or on its way to the node.
OnTheWay == {signed[c] : c \in {d \in Calls : pc[d] = "stored"}}
            \cup (IF worker.at = "send" THEN {worker.tx} ELSE {})
Stored == {e.tx : e \in store}
Everywhere == Mined \cup mempool \cup Stored \cup OnTheWay

CallsInOrder ==
    \A c \in Calls :
        /\ pc[c] \in {"new", "locked"} => signed[c] = None
        /\ pc[c] \in {"locked", "signed"} => mutex = c
        /\ pc[c] \in {"signed", "stored"} => signed[c] # None
        /\ signed[c] # None => /\ signed[c].nonce < Handed
                               /\ signed[c].tip <= signed[c].fee

ChainInOrder ==
    \A s \in Signers : \A i \in DOMAIN chain[s] :
        /\ Key(chain[s][i].tx) = <<s, i - 1>>
        /\ \A j \in 1..i : chain[s][j].depth >= chain[s][i].depth

NoncesHanded ==
    /\ \A s \in Signers : nonces[s] <= Handed
    /\ \A t \in Everywhere : t.nonce < Handed /\ t.tip <= t.fee

\* What the pass is about to resend is in the store.
PassStored ==
    /\ worker.at \in {"resend", "send"} =>
         \A n \in worker.todo : <<SignerOrder[worker.turn], n>> \in StoredKeys
    /\ worker.at = "resend" => worker.todo # {}

TypeInv == TypeOK /\ CallsInOrder /\ ChainInOrder /\ NoncesHanded /\ PassStored

-----------------------------------------------------------------------------

UniqueKeys == \A e, f \in store : Key(e.tx) = Key(f.tx) => e = f

PendingIsNext ==
    /\ \A t \in mempool : t.nonce >= MinedCount(t.signer)
    /\ \A t, u \in mempool : Key(t) = Key(u) => t = u

\* A recorded age is that of the block, or more by what a reorg added.
AgesBounded ==
    \A e \in store : e.age <= Depth(e.tx.signer, e.tx.nonce) + MaxOrphanAge

AllCovered == \A t \in Everywhere : Covered(t.signer, t.nonce)

\* Nothing is missing below a nonce that is used or handed out next.
NoGaps ==
    /\ \A e \in store : \A n \in 0..e.tx.nonce - 1 : Covered(e.tx.signer, n)
    /\ \A c \in Calls : pc[c] = "signed" =>
          \A n \in 0..signed[c].nonce - 1 : Covered(signed[c].signer, n)
    /\ \A s \in Signers : \A n \in 0..nonces[s] - 1 :
          \/ Covered(s, n)
          \/ \E c \in Calls : pc[c] = "signed" /\ Key(signed[c]) = <<s, n>>

\* The key of a signed transaction stays in the store until the mutex is released.
SignedInTime ==
    \A c \in Calls : pc[c] = "signed" =>
        LET t == signed[c] IN
        /\ Settled(t.signer, t.nonce) => Key(t) \in StoredKeys
        /\ Depth(t.signer, t.nonce) < Archivable
        /\ \A e \in store : Key(e.tx) = Key(t) => e.age < Archivable

OneCall == \A t, u \in Everywhere : Key(t) = Key(u) => t.call = u.call

\* The nonce that the pass asked the node for is not settled and archived before it
\* reads the store.
LoadInTime ==
    worker.at = "load" =>
        LET s == SignerOrder[worker.turn] IN
        Settled(s, worker.nonce) => <<s, worker.nonce>> \in StoredKeys

\* The price was made for the oldest transaction.  If it had nothing to add, it is
\* the highest there is.
PriceCovers ==
    worker.at = "resend" /\ "oldest" \in DOMAIN worker =>
        \/ worker.price = [fee |-> MaxMaxFeePerGas, tip |-> MaxMaxFeePerGas]
        \/ \A e \in store :
              /\ e.tx.signer = SignerOrder[worker.turn] /\ e.tx.nonce \in worker.todo
              /\ \A n \in worker.todo : e.tx.nonce <= n
              => /\ e.tx.fee <= worker.price.fee /\ e.tx.tip <= worker.price.tip
                 /\ Underpriced(e.tx)

SafeInv == /\ UniqueKeys /\ PendingIsNext /\ AgesBounded /\ AllCovered /\ NoGaps
           /\ SignedInTime /\ OneCall /\ LoadInTime /\ PriceCovers

IInv == TypeInv /\ SafeInv

-----------------------------------------------------------------------------
(* Numbers, nonces and the choices the code makes among them.               *)

\* A set of numbers that is not empty has a least one.
LEMMA LeastNumber ==
    ASSUME NEW S \in SUBSET Nat, S # {}
    PROVE  \E m \in S : \A k \in S : m <= k
  <1> DEFINE T == {0..k : k \in S}
             R == StrictSubsetOrdering(Nat)
  <1>1. T \subseteq FiniteSubsetsOf(Nat) /\ T # {}
    <2>1. ASSUME NEW k \in S
          PROVE  IsFiniteSet(0..k) /\ 0..k \in SUBSET Nat
      BY FS_Interval
    <2> QED
      BY <2>1 DEF FiniteSubsetsOf
  <1>2. IsWellFoundedOn(R, FiniteSubsetsOf(Nat))
    BY FS_StrictSubsetOrderingWellFounded
  <1> HIDE DEF R, T
  <1>3. PICK X \in T : \A Y \in T : ~ (<<Y, X>> \in R)
    BY <1>1, <1>2, WFMin
  <1>4. PICK m \in S : X = 0..m
    BY <1>3 DEF T
  <1>5. ASSUME NEW k \in S, k < m
        PROVE  FALSE
    <2>1. 0..k \in T
      BY DEF T
    <2>2. 0..k \subseteq 0..m /\ 0..k # 0..m /\ 0..m \in SUBSET Nat /\ 0..k \in SUBSET Nat
      <3>1. m \in 0..m /\ m \notin 0..k
        BY <1>5
      <3> QED
        BY <3>1, <1>5
    <2>3. <<0..k, 0..m>> \in R
      BY <2>2 DEF R, StrictSubsetOrdering
    <2> QED
      BY <2>1, <2>3, <1>3, <1>4
  <1> QED
    BY <1>5

LEMMA NoneIsNoTx == None \notin Txs
  <1>1. SUFFICES ASSUME None \in Txs
                 PROVE  FALSE
    OBVIOUS
  <1>2. "signer" \in DOMAIN None
    BY <1>1 DEF Txs
  <1> QED
    BY <1>2 DEF None

LEMMA TxFields ==
    ASSUME NEW t \in Txs
    PROVE  /\ t.signer \in Signers /\ t.nonce \in Nonces /\ t.nonce \in Nat /\ t.call \in Calls
           /\ t.fee \in Levels /\ t.tip \in Levels /\ t.fee \in Nat /\ t.tip \in Nat
           /\ t.fee <= MaxMaxFeePerGas /\ t.tip <= MaxMaxFeePerGas
           /\ Key(t) = <<t.signer, t.nonce>>
  BY TransactionManagerAssumption, FS_CardinalityType DEF Txs, Nonces, Levels, Key

LEMMA EntryFields ==
    ASSUME NEW e \in Entries
    PROVE  /\ e.tx \in Txs /\ e.stale \in BOOLEAN /\ e.minedBlock \in {"none", "first", "moved"}
           /\ e.age \in 0..Archivable /\ e.age \in Nat
           /\ e = [tx |-> e.tx, stale |-> e.stale, minedBlock |-> e.minedBlock, age |-> e.age]
  BY DEF Entries, Archivable

\* At most as many nonces are handed out as there are calls.
LEMMA HandedType ==
    /\ IsFiniteSet(SignedCalls)
    /\ Handed \in Nat /\ Handed <= Cardinality(Calls) /\ Cardinality(Calls) \in Nat
  BY TransactionManagerAssumption, FS_Subset, FS_CardinalityType DEF SignedCalls, Handed

\* A call that was not given a nonce yet makes it one more.
LEMMA HandedGrows ==
    ASSUME NEW c \in Calls, signed[c] = None,
           signed'[c] # None, \A d \in Calls \ {c} : signed'[d] = signed[d]
    PROVE  Handed' = Handed + 1 /\ Handed + 1 <= Cardinality(Calls)
  <1>1. SignedCalls' = SignedCalls \cup {c} /\ c \notin SignedCalls
    BY DEF SignedCalls
  <1>2. Handed' = Handed + 1
    BY <1>1, HandedType, FS_AddElement DEF Handed
  <1>3. SignedCalls' \subseteq Calls
    BY DEF SignedCalls
  <1>4. Handed' <= Cardinality(Calls)
    BY <1>3, TransactionManagerAssumption, FS_Subset DEF Handed
  <1> QED
    BY <1>2, <1>4

LEMMA ChainFields ==
    ASSUME TypeOK, ChainInOrder, NEW s \in Signers
    PROVE  /\ chain[s] \in Seq(Blocks) /\ MinedCount(s) \in Nat /\ DOMAIN chain[s] = 1..MinedCount(s)
           /\ \A i \in 1..MinedCount(s) :
                /\ chain[s][i] \in Blocks /\ chain[s][i].tx \in Txs
                /\ chain[s][i].tx.signer = s /\ chain[s][i].tx.nonce = i - 1
                /\ chain[s][i].tx \in Mined
                /\ chain[s][i].depth \in 0..Archivable /\ chain[s][i].moved \in BOOLEAN
  <1>1. chain[s] \in Seq(Blocks)
    BY DEF TypeOK
  <1>2. MinedCount(s) \in Nat /\ DOMAIN chain[s] = 1..MinedCount(s)
    BY <1>1 DEF MinedCount
  <1>3. ASSUME NEW i \in 1..MinedCount(s)
        PROVE  /\ chain[s][i] \in Blocks /\ chain[s][i].tx \in Txs
               /\ chain[s][i].tx.signer = s /\ chain[s][i].tx.nonce = i - 1
               /\ chain[s][i].tx \in Mined
               /\ chain[s][i].depth \in 0..Archivable /\ chain[s][i].moved \in BOOLEAN
    <2>1. chain[s][i] \in Blocks
      BY <1>1, <1>2, <1>3, ElementOfSeq DEF MinedCount
    <2>2. Key(chain[s][i].tx) = <<s, i - 1>>
      BY <1>2, <1>3 DEF ChainInOrder
    <2> QED
      BY <2>1, <2>2, <1>2, <1>3 DEF Blocks, Key, Mined
  <1> QED
    BY <1>1, <1>2, <1>3

LEMMA EverywhereTxs ==
    ASSUME TypeOK, CallsInOrder, ChainInOrder
    PROVE  Everywhere \subseteq Txs
  <1>1. Mined \subseteq Txs
    BY ChainFields DEF Mined
  <1>2. Stored \subseteq Txs
    BY EntryFields DEF Stored, TypeOK
  <1>3. ASSUME NEW c \in Calls, pc[c] = "stored"
        PROVE  signed[c] \in Txs
    BY <1>3 DEF TypeOK, CallsInOrder
  <1>4. worker.at = "send" => worker.tx \in Txs
    BY DEF TypeOK, Passes
  <1> QED
    BY <1>1, <1>2, <1>3, <1>4 DEF Everywhere, OnTheWay, TypeOK

LEMMA MinedBelowHanded ==
    ASSUME TypeInv, NEW s \in Signers
    PROVE  MinedCount(s) \in Nat /\ MinedCount(s) <= Handed
  <1>1. CASE MinedCount(s) = 0
    BY <1>1, HandedType
  <1>2. CASE MinedCount(s) # 0
    <2>1. MinedCount(s) \in 1..MinedCount(s)
      BY <1>2, ChainFields DEF TypeInv
    <2>2. /\ chain[s][MinedCount(s)].tx \in Everywhere
          /\ chain[s][MinedCount(s)].tx.nonce = MinedCount(s) - 1
      BY <2>1, ChainFields DEF TypeInv, Everywhere
    <2> QED
      BY <2>1, <2>2, HandedType, ChainFields DEF TypeInv, NoncesHanded
  <1> QED
    BY <1>1, <1>2, ChainFields DEF TypeInv

LEMMA PendingCountBounds ==
    ASSUME TypeInv, NEW s \in Signers
    PROVE  /\ PendingCount(s) \in Nat
           /\ MinedCount(s) <= PendingCount(s) /\ PendingCount(s) <= Handed
           /\ \A m \in MinedCount(s)..PendingCount(s) - 1 : <<s, m>> \in MempoolKeys
  <1> DEFINE Free == {n \in Nat : n >= MinedCount(s) /\ <<s, n>> \notin MempoolKeys}
             IsPending(n) == /\ \A m \in MinedCount(s)..n - 1 : <<s, m>> \in MempoolKeys
                             /\ <<s, n>> \notin MempoolKeys
  <1>1. <<s, Handed>> \notin MempoolKeys
    <2> SUFFICES ASSUME NEW t \in mempool, Key(t) = <<s, Handed>>
                 PROVE  FALSE
      BY DEF MempoolKeys
    <2>1. t.nonce < Handed /\ t \in Txs
      BY DEF TypeInv, TypeOK, NoncesHanded, Everywhere
    <2> QED
      BY <2>1, HandedType, TxFields
  <1>2. Handed \in Free
    BY <1>1, MinedBelowHanded, HandedType
  <1>3. PICK n \in Free : \A k \in Free : n <= k
    <2>1. Free \subseteq Nat /\ Free # {}
      BY <1>2
    <2> HIDE DEF Free
    <2> QED
      BY <2>1, LeastNumber
  <1>4. n \in MinedCount(s)..Cardinality(Calls) + 1 /\ IsPending(n)
    BY <1>2, <1>3, HandedType, MinedBelowHanded
  <1>5. PendingCount(s) \in MinedCount(s)..Cardinality(Calls) + 1 /\ IsPending(PendingCount(s))
    BY <1>4 DEF PendingCount
  <1>6. PendingCount(s) <= Handed
    BY <1>1, <1>5, MinedBelowHanded, HandedType
  <1> QED
    BY <1>5, <1>6, MinedBelowHanded

\* The chain settles from its start: what it has not settled is not below SettledCount.
LEMMA SettledBelowCount ==
    ASSUME TypeInv, NEW s \in Signers
    PROVE  /\ SettledCount(s) \in Nat
           /\ \A n \in Nat : n >= SettledCount(s) => ~Settled(s, n)
  <1> DEFINE D == {i \in DOMAIN chain[s] : chain[s][i].depth >= Old}
  <1>1. D \subseteq 1..MinedCount(s) /\ MinedCount(s) \in Nat
    BY ChainFields DEF TypeInv
  <1>2. IsFiniteSet(D) /\ Cardinality(D) \in Nat
    <2>1. IsFiniteSet(1..MinedCount(s))
      BY <1>1, FS_Interval
    <2> HIDE DEF D
    <2> QED
      BY <1>1, <2>1, FS_Subset, FS_CardinalityType
  <1>3. ASSUME NEW n \in Nat, Settled(s, n)
        PROVE  n < Cardinality(D)
    <2>1. n + 1 \in 1..MinedCount(s) /\ chain[s][n + 1].depth >= Old
      BY <1>1, <1>3 DEF Settled, Depth, Old
    <2>2. ASSUME NEW j \in 1..n + 1
          PROVE  j \in D
      <3>1. chain[s][j].depth >= chain[s][n + 1].depth
        BY <2>1, <1>1, ChainFields DEF TypeInv, ChainInOrder
      <3>2. j \in 1..MinedCount(s)
        BY <2>1, <1>1
      <3> QED
        BY <2>1, <3>1, <3>2, ChainFields DEF TypeInv, Old
    <2>3. 1..n + 1 \subseteq D
      BY <2>2
    <2>4. Cardinality(1..n + 1) = n + 1
      BY FS_Interval
    <2>5. Cardinality(1..n + 1) <= Cardinality(D)
      BY <2>3, <1>2, FS_Subset
    <2> QED
      BY <2>4, <2>5, <1>2
  <1> QED
    BY <1>2, <1>3 DEF SettledCount

LEMMA TurnOfSigner ==
    ASSUME TypeOK, worker.at \in {"count", "load", "resend", "send"}
    PROVE  /\ worker.turn \in Turns /\ SignerOrder[worker.turn] \in Signers
           /\ Len(SignerOrder) \in Nat \ {0}
  <1>1. worker.turn \in Turns
    BY DEF TypeOK, Passes
  <1>2. SignerOrder[worker.turn] \in Signers
    BY <1>1, ElementOfSeq, TransactionManagerAssumption DEF Turns
  <1> QED
    BY <1>1, <1>2, TransactionManagerAssumption DEF Turns

LEMMA OldestIsPending ==
    ASSUME TypeOK, worker.at = "load", PendingEntries # {}
    PROVE  /\ OldestPending \in PendingEntries
           /\ \A f \in PendingEntries : OldestPending.tx.nonce <= f.tx.nonce
  <1> DEFINE N == {e.tx.nonce : e \in PendingEntries}
  <1>1. N \subseteq Nat /\ N # {}
    BY EntryFields, TxFields DEF TypeOK, PendingEntries, EntriesOf
  <1>2. PICK n \in N : \A k \in N : n <= k
    <2> HIDE DEF N
    <2> QED
      BY <1>1, LeastNumber
  <1>3. PICK e \in PendingEntries : e.tx.nonce = n
    BY <1>2
  <1>4. \A f \in PendingEntries : e.tx.nonce <= f.tx.nonce
    BY <1>2, <1>3
  <1> HIDE DEF N
  <1> QED
    BY <1>3, <1>4 DEF OldestPending

LEMMA NextIsStored ==
    ASSUME TypeOK, PassStored, worker.at = "resend"
    PROVE  /\ NextToResend \in store /\ NextToResend.tx.signer = SignerOrder[worker.turn]
           /\ NextToResend.tx.nonce \in worker.todo
           /\ \A n \in worker.todo : NextToResend.tx.nonce <= n
  <1>1. worker.todo \subseteq Nat /\ worker.todo # {}
    BY DEF TypeOK, Passes, PassStored
  <1>2. PICK n \in worker.todo : \A k \in worker.todo : n <= k
    BY <1>1, LeastNumber
  <1>3. PICK e \in store : Key(e.tx) = <<SignerOrder[worker.turn], n>>
    BY <1>2 DEF PassStored, StoredKeys
  <1>4. e.tx.signer = SignerOrder[worker.turn] /\ e.tx.nonce = n
    BY <1>3 DEF Key
  <1> QED
    BY <1>2, <1>3, <1>4 DEF NextToResend, EntriesOf

-----------------------------------------------------------------------------
(* Types, and the order of calls and blocks.                                *)

LEMMA CallsKept ==
    ASSUME CallsInOrder, UNCHANGED <<pc, mutex, signed>>
    PROVE  CallsInOrder' /\ Handed' = Handed
  BY DEF CallsInOrder, Handed, SignedCalls

LEMMA ChainKept ==
    ASSUME ChainInOrder, UNCHANGED chain
    PROVE  ChainInOrder' /\ Mined' = Mined
  BY DEF ChainInOrder, Mined

LEMMA NoncesKept ==
    ASSUME NoncesHanded, UNCHANGED nonces, Handed' = Handed,
           \A t \in Everywhere' : t \in Everywhere \/ (t.nonce < Handed /\ t.tip <= t.fee)
    PROVE  NoncesHanded'
  BY DEF NoncesHanded

LEMMA PassKept ==
    ASSUME PassStored, UNCHANGED worker, StoredKeys \subseteq StoredKeys'
    PROVE  PassStored'
  BY DEF PassStored

\* What is known after a step was known before, or replaces a version of the same call,
\* or is inserted for a nonce the store does not know.
NothingNew ==
    \A t \in Everywhere' :
        \/ \E u \in Everywhere : Key(t) = Key(u) /\ t.call = u.call
        \/ \E c \in Calls : PutTx(c) /\ t = signed[c] /\ Key(t) \notin StoredKeys

LEMMA SameKnown ==
    ASSUME Everywhere' \subseteq Everywhere
    PROVE  NothingNew
  BY DEF NothingNew

\* A transaction that is broadcast joins the node's pool, or nothing changes.
LEMMA BroadcastOutcome ==
    ASSUME NEW tx, NEW acknowledged, Broadcast(tx, acknowledged)
    PROVE  \/ UNCHANGED mempool
           \/ Acceptable(tx) /\ mempool' = {t \in mempool : Key(t) # Key(tx)} \cup {tx}
  BY DEF Broadcast, Accept

LEMMA RefuseTypes ==
    ASSUME TypeInv, NEW c \in Calls, Refuse(c)
    PROVE  TypeInv' /\ NothingNew
  <1> USE DEF TypeInv
  <1>1. TypeOK'
    BY DEF TypeOK, Refuse
  <1>2. CallsInOrder' /\ Handed' = Handed
    BY DEF TypeOK, Refuse, CallsInOrder, Handed, SignedCalls
  <1>3. Everywhere' = Everywhere
    BY DEF TypeOK, Refuse, Everywhere, OnTheWay, Stored, Mined
  <1> QED
    BY <1>1, <1>2, <1>3, ChainKept, NoncesKept, SameKnown, PassKept DEF Refuse, StoredKeys

LEMMA AcquireTypes ==
    ASSUME TypeInv, NEW c \in Calls, Acquire(c)
    PROVE  TypeInv' /\ NothingNew
  <1> USE DEF TypeInv
  <1>1. TypeOK'
    BY DEF TypeOK, Acquire
  <1>2. CallsInOrder' /\ Handed' = Handed
    BY TransactionManagerAssumption DEF TypeOK, Acquire, CallsInOrder, Handed, SignedCalls
  <1>3. Everywhere' = Everywhere
    BY DEF TypeOK, Acquire, Everywhere, OnTheWay, Stored, Mined
  <1> QED
    BY <1>1, <1>2, <1>3, ChainKept, NoncesKept, SameKnown, PassKept DEF Acquire, StoredKeys

\* What a call signs: a nonce no lower than the node's answer and this process's own.
LEMMA SignedNonce ==
    ASSUME TypeInv, NEW c \in Calls, Sign(c)
    PROVE  \E answer \in Nat, offer \in Offers, n \in Nat :
             LET s == SignerOf[c]
                 tx == [signer |-> s, nonce |-> n, call |-> c, fee |-> offer[1], tip |-> offer[2]] IN
             /\ SettledCount(s) <= answer /\ answer <= PendingCount(s)
             /\ n = IF answer > nonces[s] THEN answer ELSE nonces[s]
             /\ n <= Handed
             /\ s \in Signers /\ tx \in Txs /\ tx.tip <= tx.fee
             /\ signed' = [signed EXCEPT ![c] = tx]
             /\ nonces' = [nonces EXCEPT ![s] = n + 1]
             /\ Handed' = Handed + 1 /\ n + 1 \in Nonces
  <1> DEFINE s == SignerOf[c]
  <1>1. s \in Signers
    BY TransactionManagerAssumption
  <1>2. PICK answer \in SettledCount(s)..PendingCount(s), offer \in Offers :
          /\ signed' = [signed EXCEPT ![c] = [signer |-> s, nonce |-> PollNonce(s, answer), call |-> c,
                                              fee |-> offer[1], tip |-> offer[2]]]
          /\ nonces' = [nonces EXCEPT ![s] = PollNonce(s, answer) + 1]
    BY DEF Sign
  <1>3. SettledCount(s) \in Nat /\ PendingCount(s) \in Nat /\ PendingCount(s) <= Handed
    BY <1>1, SettledBelowCount, PendingCountBounds
  <1>4. answer \in Nat /\ SettledCount(s) <= answer /\ answer <= PendingCount(s)
    BY <1>2, <1>3
  <1>5. nonces[s] \in Nat /\ nonces[s] <= Handed
    BY <1>1, HandedType DEF TypeInv, TypeOK, NoncesHanded, Nonces
  <1> DEFINE n == PollNonce(s, answer)
             tx == [signer |-> s, nonce |-> n, call |-> c, fee |-> offer[1], tip |-> offer[2]]
  <1>6. n \in Nat /\ n <= Handed /\ n = IF answer > nonces[s] THEN answer ELSE nonces[s]
    BY <1>3, <1>4, <1>5, HandedType DEF PollNonce
  <1>7. signed[c] = None /\ signed \in [Calls -> Txs \cup {None}]
    BY DEF TypeInv, TypeOK, CallsInOrder, Sign
  <1>8. offer[1] \in Levels /\ offer[2] \in Levels /\ offer[2] <= offer[1]
    BY TransactionManagerAssumption
  <1>9. tx # None
    <2>1. tx.signer = s /\ "signer" \in DOMAIN tx
      OBVIOUS
    <2>2. "signer" \notin DOMAIN None
      BY DEF None
    <2> QED
      BY <2>1, <2>2
  <1> HIDE DEF s, n, tx
  <1>10. signed' = [signed EXCEPT ![c] = tx]
    BY <1>2 DEF n, tx
  <1>11. Handed' = Handed + 1 /\ Handed + 1 <= Cardinality(Calls)
    <2>1. signed'[c] # None /\ \A d \in Calls \ {c} : signed'[d] = signed[d]
      BY <1>7, <1>9, <1>10
    <2> QED
      BY <1>7, <2>1, HandedGrows
  <1>12. n \in Nonces /\ n + 1 \in Nonces
    BY <1>6, <1>11, HandedType DEF Nonces
  <1>13. tx \in Txs /\ tx.tip <= tx.fee
    BY <1>1, <1>8, <1>12 DEF Txs, tx
  <1>14. nonces' = [nonces EXCEPT ![s] = n + 1]
    BY <1>2 DEF n
  <1> QED
    BY <1>1, <1>4, <1>6, <1>10, <1>11, <1>12, <1>13, <1>14 DEF s, tx

LEMMA SignTypes ==
    ASSUME TypeInv, NEW c \in Calls, Sign(c)
    PROVE  TypeInv' /\ NothingNew
  <1> USE DEF TypeInv
  <1>1. PICK n \in Nat, offer \in Offers :
          LET s == SignerOf[c]
              tx == [signer |-> s, nonce |-> n, call |-> c, fee |-> offer[1], tip |-> offer[2]] IN
          /\ n <= Handed /\ s \in Signers /\ tx \in Txs /\ tx.tip <= tx.fee
          /\ signed' = [signed EXCEPT ![c] = tx] /\ nonces' = [nonces EXCEPT ![s] = n + 1]
          /\ Handed' = Handed + 1 /\ n + 1 \in Nonces
    BY SignedNonce
  <1> DEFINE s == SignerOf[c]
             tx == [signer |-> s, nonce |-> n, call |-> c, fee |-> offer[1], tip |-> offer[2]]
  <1>2. tx.nonce = n
    OBVIOUS
  <1> HIDE DEF s, tx
  <1>3. /\ n <= Handed /\ s \in Signers /\ tx \in Txs /\ tx.tip <= tx.fee
        /\ signed' = [signed EXCEPT ![c] = tx] /\ nonces' = [nonces EXCEPT ![s] = n + 1]
        /\ Handed' = Handed + 1 /\ n + 1 \in Nonces
    BY <1>1 DEF s, tx
  <1>4. /\ pc[c] = "locked" /\ pc' = [pc EXCEPT ![c] = "signed"]
        /\ UNCHANGED <<mutex, store, mempool, chain, worker, faults>>
    BY DEF Sign
  <1>5. TypeOK'
    BY <1>3, <1>4 DEF TypeOK
  <1>6. CallsInOrder'
    <2> SUFFICES ASSUME NEW d \in Calls
                 PROVE  /\ pc'[d] \in {"new", "locked"} => signed'[d] = None
                        /\ pc'[d] \in {"locked", "signed"} => mutex' = d
                        /\ pc'[d] \in {"signed", "stored"} => signed'[d] # None
                        /\ signed'[d] # None => /\ signed'[d].nonce < Handed'
                                                /\ signed'[d].tip <= signed'[d].fee
      BY DEF CallsInOrder
    <2>1. CASE d = c
      BY <1>2, <1>3, <1>4, <2>1, NoneIsNoTx, HandedType DEF TypeOK, CallsInOrder
    <2>2. CASE d # c
      <3>1. pc'[d] = pc[d] /\ signed'[d] = signed[d]
        BY <1>3, <1>4, <2>2 DEF TypeOK
      <3>2. signed[d] # None => signed[d] \in Txs
        BY DEF TypeOK
      <3> QED
        BY <1>3, <1>4, <3>1, <3>2, TxFields, HandedType DEF CallsInOrder
    <2> QED
      BY <2>1, <2>2
  <1>7. Everywhere' = Everywhere
    <2>1. OnTheWay' = OnTheWay
      <3>1. ASSUME NEW d \in Calls
            PROVE  (pc'[d] = "stored") = (pc[d] = "stored") /\ (pc[d] = "stored" => signed'[d] = signed[d])
        BY <1>3, <1>4 DEF TypeOK
      <3> QED
        BY <1>4, <3>1 DEF OnTheWay
    <2> QED
      BY <1>4, <2>1 DEF Everywhere, Mined, Stored
  <1>8. NoncesHanded'
    <2>1. \A r \in Signers : nonces'[r] <= Handed'
      BY <1>3, HandedType DEF TypeOK, NoncesHanded, Nonces
    <2>2. \A t \in Everywhere : t.nonce \in Nat
      BY EverywhereTxs, TxFields
    <2> QED
      BY <1>3, <1>7, <2>1, <2>2, HandedType DEF NoncesHanded
  <1> QED
    BY <1>4, <1>5, <1>6, <1>7, <1>8, ChainKept, PassKept, SameKnown DEF StoredKeys

LEMMA NewEntryTypes ==
    ASSUME NEW tx \in Txs
    PROVE  NewEntry(tx) \in Entries /\ NewEntry(tx).tx = tx /\ NewEntry(tx).age = 0
           /\ NewEntry(tx).minedBlock = "none"
  BY DEF NewEntry, Entries, Archivable

\* Calls that are past their signature leave the mutex, the others did not have it.
LEMMA CallsLeave ==
    ASSUME CallsInOrder, TypeOK, NEW c \in Calls, NEW at \in {"stored", "sent", "failed"},
           pc[c] \in {"signed", "stored"}, pc' = [pc EXCEPT ![c] = at],
           pc[c] = "signed" => mutex' = None, pc[c] = "stored" => UNCHANGED mutex,
           UNCHANGED signed
    PROVE  CallsInOrder' /\ Handed' = Handed
  <1>1. Handed' = Handed
    BY DEF Handed, SignedCalls
  <1>2. ASSUME NEW d \in Calls
        PROVE  /\ pc'[d] \in {"new", "locked"} => signed'[d] = None
               /\ pc'[d] \in {"locked", "signed"} => mutex' = d
               /\ pc'[d] \in {"signed", "stored"} => signed'[d] # None
               /\ signed'[d] # None => /\ signed'[d].nonce < Handed'
                                       /\ signed'[d].tip <= signed'[d].fee
    <2>1. CASE d = c
      BY <1>1, <2>1 DEF CallsInOrder, TypeOK
    <2>2. CASE d # c
      <3>1. pc'[d] = pc[d]
        BY <2>2 DEF TypeOK
      <3>2. pc[d] \in {"locked", "signed"} => mutex' = d
        <4>1. pc[c] = "signed" => mutex = c
          BY DEF CallsInOrder
        <4>2. pc[d] \in {"locked", "signed"} => mutex = d
          BY DEF CallsInOrder
        <4> QED
          BY <2>2, <4>1, <4>2
      <3> QED
        BY <1>1, <3>1, <3>2 DEF CallsInOrder
    <2> QED
      BY <2>1, <2>2
  <1> QED
    BY <1>1, <1>2 DEF CallsInOrder

LEMMA PutTxTypes ==
    ASSUME TypeInv, NEW c \in Calls, PutTx(c)
    PROVE  TypeInv' /\ NothingNew
  <1> USE DEF TypeInv
  <1>1. /\ pc[c] = "signed" /\ mutex' = None
        /\ pc' = [pc EXCEPT ![c] = IF Key(signed[c]) \in StoredKeys THEN "failed" ELSE "stored"]
        /\ store' = IF Key(signed[c]) \in StoredKeys THEN store ELSE store \cup {NewEntry(signed[c])}
        /\ UNCHANGED <<nonces, signed, mempool, chain, worker, faults>>
    BY DEF PutTx
  <1>2. signed[c] \in Txs
    BY <1>1 DEF TypeOK, CallsInOrder
  <1>3. TypeOK'
    BY <1>1, <1>2, NewEntryTypes DEF TypeOK
  <1>4. CallsInOrder' /\ Handed' = Handed
    BY <1>1, CallsLeave
  <1>5. \A t \in Everywhere' : t \in Everywhere \/ t = signed[c]
    <2>1. Stored' \subseteq Stored \cup {signed[c]}
      BY <1>1, <1>2, NewEntryTypes DEF Stored
    <2>2. OnTheWay' \subseteq OnTheWay \cup {signed[c]}
      BY <1>1 DEF OnTheWay, TypeOK
    <2> QED
      BY <1>1, <2>1, <2>2 DEF Everywhere, Mined
  <1>6. NoncesHanded'
    <2>1. signed[c].nonce < Handed /\ signed[c].tip <= signed[c].fee
      BY <1>2, NoneIsNoTx DEF CallsInOrder
    <2> QED
      BY <1>1, <1>4, <1>5, <2>1, NoncesKept, SameKnown
  <1>7. StoredKeys \subseteq StoredKeys'
    BY <1>1 DEF StoredKeys
  <1>8. NothingNew
    <2>1. CASE Key(signed[c]) \in StoredKeys
      <3>1. Stored' = Stored /\ OnTheWay' \subseteq OnTheWay
        BY <1>1, <2>1 DEF Stored, OnTheWay, TypeOK
      <3> QED
        BY <1>1, <3>1, SameKnown DEF Everywhere, Mined
    <2>2. CASE Key(signed[c]) \notin StoredKeys
      BY <1>5, <2>2 DEF NothingNew
    <2> QED
      BY <2>1, <2>2
  <1> QED
    BY <1>1, <1>3, <1>4, <1>6, <1>7, <1>8, ChainKept, PassKept

LEMMA BroadcastTypes ==
    ASSUME TypeInv, NEW c \in Calls, BroadcastTransaction(c)
    PROVE  TypeInv' /\ NothingNew
  <1> USE DEF TypeInv
  <1>1. PICK at \in {"sent", "failed"} :
          /\ pc[c] = "stored" /\ pc' = [pc EXCEPT ![c] = at]
          /\ UNCHANGED <<nonces, mutex, signed, store, chain, worker>>
    BY DEF BroadcastTransaction
  <1>2. mempool' \subseteq mempool \cup {signed[c]}
    BY BroadcastOutcome DEF BroadcastTransaction
  <1>3. signed[c] \in Txs /\ signed[c] \in Everywhere
    BY <1>1 DEF TypeOK, CallsInOrder, Everywhere, OnTheWay
  <1>4. TypeOK'
    BY <1>1, <1>2, <1>3 DEF TypeOK
  <1>5. CallsInOrder' /\ Handed' = Handed
    BY <1>1, CallsLeave
  <1>6. Everywhere' \subseteq Everywhere
    <2>1. OnTheWay' \subseteq OnTheWay
      BY <1>1 DEF OnTheWay, TypeOK
    <2> QED
      BY <1>1, <1>2, <1>3, <2>1 DEF Everywhere, Mined, Stored
  <1> QED
    BY <1>1, <1>4, <1>5, <1>6, ChainKept, NoncesKept, SameKnown, PassKept DEF StoredKeys

LEMMA SendTypes ==
    ASSUME TypeInv, NEW c \in Calls, Send(c)
    PROVE  TypeInv' /\ NothingNew
  BY RefuseTypes, AcquireTypes, SignTypes, PutTxTypes, BroadcastTypes DEF Send

\* A pass that moves on without a transaction in its hands.
LEMMA PassMoves ==
    ASSUME TypeInv, worker' \in Passes, worker'.at \notin {"resend", "send"},
           store' \subseteq Entries, Stored' \subseteq Stored,
           UNCHANGED <<nonces, mutex, pc, signed, mempool, chain>>
    PROVE  TypeInv' /\ NothingNew
  <1> USE DEF TypeInv
  <1>1. TypeOK'
    BY DEF TypeOK
  <1>2. Everywhere' \subseteq Everywhere
    BY DEF Everywhere, OnTheWay, Mined
  <1>3. PassStored'
    BY DEF PassStored
  <1>4. CallsInOrder' /\ Handed' = Handed
    BY CallsKept
  <1> QED
    BY <1>1, <1>2, <1>3, <1>4, ChainKept, NoncesKept, SameKnown

LEMMA NextTurnTypes ==
    ASSUME TypeOK, worker.at \in {"count", "load", "resend", "send"}
    PROVE  NextTurn \in Passes /\ NextTurn.at \in {"count", "idle"}
  <1>1. worker.turn \in 1..Len(SignerOrder) /\ Len(SignerOrder) \in Nat
    BY TurnOfSigner DEF Turns
  <1>2. CASE worker.turn < Len(SignerOrder)
    <2>1. worker.turn + 1 \in Turns
      BY <1>1, <1>2 DEF Turns
    <2> QED
      BY <1>2, <2>1 DEF NextTurn, Passes
  <1>3. CASE ~(worker.turn < Len(SignerOrder))
    BY <1>3 DEF NextTurn, Idle, Passes
  <1> QED
    BY <1>2, <1>3

\* Looking an entry up changes neither its transaction nor its timeout.
LEMMA FilledTypes ==
    ASSUME TypeOK, ChainInOrder, NEW e \in store
    PROVE  /\ Filled(e) \in Entries /\ Filled(e).tx = e.tx
           /\ IsMined(e.tx) => /\ e.tx.nonce + 1 \in 1..MinedCount(e.tx.signer)
                               /\ DepthOf(e.tx) \in 0..Archivable
           /\ Filled(e).age = e.age \/ (IsMined(e.tx) /\ Filled(e).age = DepthOf(e.tx))
  <1>1. e \in Entries
    BY DEF TypeOK
  <1>2. ASSUME IsMined(e.tx)
        PROVE  /\ e.tx.nonce + 1 \in 1..MinedCount(e.tx.signer)
               /\ DepthOf(e.tx) \in 0..Archivable /\ BlockOf(e.tx) \in {"first", "moved"}
    <2>1. e.tx.signer \in Signers /\ e.tx.nonce \in Nat
      BY <1>1, EntryFields, TxFields
    <2>2. MinedCount(e.tx.signer) \in Nat
      BY <2>1, ChainFields
    <2>3. e.tx.nonce + 1 \in 1..MinedCount(e.tx.signer)
      BY <1>2, <2>1, <2>2 DEF IsMined
    <2> QED
      BY <2>1, <2>3, ChainFields DEF DepthOf, BlockOf
  <1>3. CASE (e.minedBlock = "none" \/ e.age >= Old) /\ IsMined(e.tx)
    <2> DEFINE d == DepthOf(e.tx)
               b == BlockOf(e.tx)
    <2> HIDE DEF d, b
    <2>1. Filled(e) = [e EXCEPT !.minedBlock = b, !.age = d]
      BY <1>3 DEF Filled, d, b
    <2>2. d \in 0..Archivable /\ b \in {"first", "moved"}
      BY <1>2, <1>3 DEF d, b
    <2>3. Filled(e) \in Entries /\ Filled(e).tx = e.tx /\ Filled(e).age = d
      BY <1>1, <2>1, <2>2 DEF Entries
    <2> QED
      BY <1>2, <1>3, <2>3 DEF d
  <1>4. CASE ~((e.minedBlock = "none" \/ e.age >= Old) /\ IsMined(e.tx))
    BY <1>1, <1>2, <1>4 DEF Filled
  <1> QED
    BY <1>3, <1>4

LEMMA FillTypes ==
    ASSUME TypeInv, FillMinedBlockDetails
    PROVE  TypeInv' /\ NothingNew
  <1>1. store' \subseteq Entries /\ Stored' \subseteq Stored
    BY FilledTypes DEF TypeInv, FillMinedBlockDetails, Stored
  <1>2. worker' \in Passes /\ worker'.at = "prune"
    BY DEF FillMinedBlockDetails, Passes
  <1> QED
    BY <1>1, <1>2, PassMoves DEF FillMinedBlockDetails

LEMMA RemoveTypes ==
    ASSUME TypeInv, RemoveArchivedTransactions
    PROVE  TypeInv' /\ NothingNew
  <1>1. store' \subseteq store /\ store' \subseteq Entries /\ Stored' \subseteq Stored
    BY DEF TypeInv, TypeOK, RemoveArchivedTransactions, Stored
  <1>2. 1 \in Turns
    BY TransactionManagerAssumption DEF Turns
  <1>3. worker' \in Passes /\ worker'.at = "count"
    BY <1>2 DEF RemoveArchivedTransactions, Passes
  <1> QED
    BY <1>1, <1>3, PassMoves DEF RemoveArchivedTransactions

LEMMA CountTypes ==
    ASSUME TypeInv, CountMined
    PROVE  TypeInv' /\ NothingNew
  <1>1. worker.turn \in Turns /\ SignerOrder[worker.turn] \in Signers
    BY TurnOfSigner DEF TypeInv, CountMined
  <1>2. PICK n \in SettledCount(SignerOrder[worker.turn])..MinedCount(SignerOrder[worker.turn]) :
          worker' = [at |-> "load", turn |-> worker.turn, nonce |-> n]
    BY DEF CountMined
  <1>3. n \in Nat
    BY <1>1, <1>2, SettledBelowCount, MinedBelowHanded
  <1>4. worker' \in Passes /\ worker'.at = "load"
    BY <1>1, <1>2, <1>3 DEF Passes
  <1> QED
    BY <1>4, PassMoves DEF CountMined, Stored, TypeInv, TypeOK

LEMMA StartTypes ==
    ASSUME TypeInv, StartPass
    PROVE  TypeInv' /\ NothingNew
  <1>1. worker' \in Passes /\ worker'.at = "fill"
    BY DEF StartPass, Passes
  <1> QED
    BY <1>1, PassMoves DEF StartPass, Stored, TypeInv, TypeOK

\* The new price is a price, and no lower than the old one.
LEMMA PriceTypes ==
    ASSUME NEW fee \in Levels, NEW tip \in Levels, NEW m \in Minima, tip <= fee
    PROVE  LET p == ResolveNewGasPrice(fee, tip, m[1], m[2]) IN
           /\ p \in Prices /\ fee <= p.fee /\ tip <= p.tip
           /\ p = [fee |-> MaxMaxFeePerGas, tip |-> MaxMaxFeePerGas] \/ fee < p.fee \/ tip < p.tip
  <1> DEFINE f == LowerOf(HigherOf(fee + 1, m[1]), MaxMaxFeePerGas)
             g == LowerOf(HigherOf(tip + 1, m[2]), f)
             p == ResolveNewGasPrice(fee, tip, m[1], m[2])
  <1>1. m[1] \in Levels /\ m[2] \in Levels
    BY TransactionManagerAssumption
  <1>2. /\ f \in Levels /\ fee <= f /\ g \in Levels /\ tip <= g /\ g <= f
        /\ (f = MaxMaxFeePerGas /\ g = MaxMaxFeePerGas) \/ fee < f \/ tip < g
    BY <1>1, TransactionManagerAssumption DEF Levels, LowerOf, HigherOf
  <1>3. p = [fee |-> f, tip |-> g]
    BY DEF ResolveNewGasPrice
  <1> HIDE DEF f, g, p
  <1>4. p \in Prices /\ p.fee = f /\ p.tip = g
    BY <1>2, <1>3 DEF Prices
  <1> QED
    BY <1>2, <1>3, <1>4 DEF p

\* The boost that LoadPending starts: the price is for the oldest transaction, which
\* is the one the node waits for.
LEMMA BoostStarts ==
    ASSUME TypeInv, worker.at = "load", BoostIsDue, LoadPending
    PROVE  \E p \in Prices :
             /\ OldestPending \in PendingEntries /\ OldestPending.tx.nonce = worker.nonce
             /\ \A f \in PendingEntries : worker.nonce <= f.tx.nonce
             /\ OldestPending.tx.fee <= p.fee /\ OldestPending.tx.tip <= p.tip
             /\ \/ p = [fee |-> MaxMaxFeePerGas, tip |-> MaxMaxFeePerGas]
                \/ OldestPending.tx.fee < p.fee \/ OldestPending.tx.tip < p.tip
             /\ worker' = [at |-> "resend", turn |-> worker.turn, oldest |-> worker.nonce,
                           price |-> p, todo |-> {e.tx.nonce : e \in PendingEntries}]
  <1>1. OldestPending \in PendingEntries /\ \A f \in PendingEntries : OldestPending.tx.nonce <= f.tx.nonce
    BY OldestIsPending DEF TypeInv, BoostIsDue
  <1>2. OldestPending.tx.nonce = worker.nonce
    BY DEF BoostIsDue, MissingNonce
  <1> DEFINE o == OldestPending.tx
  <1>3. PICK m \in Minima :
          worker' = [at |-> "resend", turn |-> worker.turn, oldest |-> worker.nonce,
                     price |-> ResolveNewGasPrice(o.fee, o.tip, m[1], m[2]),
                     todo |-> {e.tx.nonce : e \in PendingEntries}]
    BY DEF LoadPending, BoostIsDue
  <1>4. o \in Txs /\ o \in Everywhere
    BY <1>1, EntryFields DEF PendingEntries, EntriesOf, TypeInv, TypeOK, Everywhere, Stored
  <1>5. o.fee \in Levels /\ o.tip \in Levels /\ o.tip <= o.fee
    BY <1>4, TxFields DEF TypeInv, NoncesHanded
  <1> QED
    BY <1>1, <1>2, <1>3, <1>5, PriceTypes

LEMMA LoadTypes ==
    ASSUME TypeInv, LoadPending
    PROVE  TypeInv' /\ NothingNew
  <1> USE DEF TypeInv
  <1>1. /\ worker.at = "load"
        /\ UNCHANGED <<nonces, mutex, pc, signed, store, mempool, chain, faults>>
    BY DEF LoadPending
  <1>2. CASE worker' \in {NextTurn, Idle}
    <2>1. NextTurn \in Passes /\ NextTurn.at \in {"count", "idle"}
      BY <1>1, NextTurnTypes
    <2>2. Idle \in Passes /\ Idle.at = "idle"
      BY DEF Idle, Passes
    <2>3. worker' \in Passes /\ worker'.at \notin {"resend", "send"}
      BY <1>2, <2>1, <2>2
    <2> QED
      BY <1>1, <2>3, PassMoves DEF Stored, TypeOK
  <1>3. CASE BoostIsDue
    <2>1. PICK p \in Prices :
            /\ OldestPending \in PendingEntries
            /\ worker' = [at |-> "resend", turn |-> worker.turn, oldest |-> worker.nonce,
                          price |-> p, todo |-> {e.tx.nonce : e \in PendingEntries}]
      BY <1>1, <1>3, BoostStarts
    <2>2. worker.turn \in Turns /\ worker.nonce \in Nat
      BY <1>1 DEF TypeOK, Passes
    <2> DEFINE N == {e.tx.nonce : e \in PendingEntries}
    <2>3. \A n \in N : n \in Nat /\ <<SignerOrder[worker.turn], n>> \in StoredKeys
      <3>1. ASSUME NEW e \in PendingEntries
            PROVE  /\ e.tx.nonce \in Nat /\ e \in store
                   /\ Key(e.tx) = <<SignerOrder[worker.turn], e.tx.nonce>>
        BY EntryFields, TxFields DEF PendingEntries, EntriesOf, TypeOK
      <3> QED
        BY <3>1 DEF StoredKeys
    <2>4. N # {} /\ N \in SUBSET Nat
      BY <2>1, <2>3
    <2> HIDE DEF N
    <2>5. worker' = [at |-> "resend", turn |-> worker.turn, oldest |-> worker.nonce,
                     price |-> p, todo |-> N]
      BY <2>1 DEF N
    <2>6. worker' \in Passes
      BY <2>2, <2>4, <2>5 DEF Passes
    <2>7. TypeOK'
      BY <1>1, <2>6 DEF TypeOK
    <2>8. PassStored'
      BY <1>1, <2>3, <2>4, <2>5 DEF PassStored, StoredKeys
    <2>9. Everywhere' \subseteq Everywhere
      BY <1>1, <2>5 DEF Everywhere, OnTheWay, Stored, Mined
    <2> QED
      BY <1>1, <2>7, <2>8, <2>9, CallsKept, ChainKept, NoncesKept, SameKnown
  <1> QED
    BY <1>2, <1>3 DEF LoadPending

LEMMA RefusedTypes ==
    ASSUME TypeInv, ResendRefused
    PROVE  TypeInv' /\ NothingNew
  <1> USE DEF TypeInv
  <1> DEFINE rest == worker.todo \ {NextToResend.tx.nonce}
  <1>1. /\ worker.at = "resend"
        /\ UNCHANGED <<nonces, mutex, pc, signed, store, mempool, chain>>
        /\ \/ worker' = Idle \/ worker' = NextTurn
           \/ rest # {} /\ worker' = [worker EXCEPT !.todo = rest]
    BY DEF ResendRefused
  <1>2. CASE worker' \in {NextTurn, Idle}
    <2>1. NextTurn \in Passes /\ NextTurn.at \in {"count", "idle"}
      BY <1>1, NextTurnTypes
    <2>2. Idle \in Passes /\ Idle.at = "idle"
      BY DEF Idle, Passes
    <2>3. worker' \in Passes /\ worker'.at \notin {"resend", "send"}
      BY <1>2, <2>1, <2>2
    <2> QED
      BY <1>1, <2>3, PassMoves DEF Stored, TypeOK
  <1>3. CASE rest # {} /\ worker' = [worker EXCEPT !.todo = rest]
    <2> HIDE DEF rest
    <2>1. rest \subseteq worker.todo
      BY DEF rest
    <2>2. /\ worker' \in Passes /\ worker'.at = "resend" /\ worker'.turn = worker.turn
          /\ worker'.todo = rest
      BY <1>1, <1>3, <2>1 DEF TypeOK, Passes
    <2>3. TypeOK'
      BY <1>1, <2>2 DEF TypeOK
    <2>4. PassStored'
      BY <1>1, <1>3, <2>1, <2>2 DEF PassStored, StoredKeys
    <2>5. Everywhere' \subseteq Everywhere
      BY <1>1, <2>2 DEF Everywhere, OnTheWay, Stored, Mined
    <2> QED
      BY <1>1, <2>3, <2>4, <2>5, CallsKept, ChainKept, NoncesKept, SameKnown
  <1> QED
    BY <1>1, <1>2, <1>3

\* A new version has the key and the call of the old one, and fees in order.
LEMMA BoostedTypes ==
    ASSUME TypeOK, NEW tx \in Txs, worker.at = "resend", tx.tip <= tx.fee
    PROVE  LET b == Boosted(tx) IN
           /\ b \in Txs /\ b.signer = tx.signer /\ b.nonce = tx.nonce /\ b.call = tx.call
           /\ b.tip <= b.fee
           /\ b = tx \/ (b.fee = worker.price.fee /\ b.tip = worker.price.tip /\ Underpriced(tx))
  <1>1. worker.price \in Prices
    BY DEF TypeOK, Passes
  <1>2. worker.price.fee \in Levels /\ worker.price.tip \in Levels
        /\ worker.price.tip <= worker.price.fee
    BY <1>1 DEF Prices
  <1> QED
    BY <1>2 DEF Boosted, Txs

\* What storing an attempt does: one entry is replaced by one with the same key, and
\* its transaction is in the pass's hands.
LEMMA AttemptStored ==
    ASSUME TypeInv, StoreAttempt
    PROVE  \E e \in store, b \in Entries :
             /\ e = NextToResend /\ e.tx.nonce \in worker.todo
             /\ e.tx.signer = SignerOrder[worker.turn]
             /\ b.tx = Boosted(e.tx) /\ b.age = e.age /\ b.minedBlock = e.minedBlock
             /\ Key(b.tx) = Key(e.tx) /\ b.tx.call = e.tx.call /\ b.tx.tip <= b.tx.fee
             /\ store' = (store \ {e}) \cup {b}
             /\ worker' = [at |-> "send", turn |-> worker.turn, price |-> worker.price,
                           todo |-> worker.todo \ {e.tx.nonce}, old |-> e.tx, tx |-> b.tx]
             /\ worker' \in Passes
  <1> USE DEF TypeInv
  <1> DEFINE e == NextToResend
             b == [e EXCEPT !.tx = Boosted(e.tx), !.stale = FALSE]
  <1>1. worker.at = "resend"
    BY DEF StoreAttempt
  <1>2. /\ e \in store /\ e.tx.signer = SignerOrder[worker.turn] /\ e.tx.nonce \in worker.todo
        /\ e \in Entries
    BY <1>1, NextIsStored DEF TypeOK
  <1>3. e.tx \in Txs /\ e.tx \in Everywhere
    BY <1>2, EntryFields DEF Everywhere, Stored
  <1>4. /\ Boosted(e.tx) \in Txs /\ Boosted(e.tx).signer = e.tx.signer
        /\ Boosted(e.tx).nonce = e.tx.nonce /\ Boosted(e.tx).call = e.tx.call
        /\ Boosted(e.tx).tip <= Boosted(e.tx).fee
    BY <1>1, <1>3, BoostedTypes DEF NoncesHanded
  <1> DEFINE x == Boosted(e.tx)
  <1>5. /\ store' = (store \ {e}) \cup {b}
        /\ worker' = [at |-> "send", turn |-> worker.turn, price |-> worker.price,
                      todo |-> worker.todo \ {e.tx.nonce}, old |-> e.tx, tx |-> b.tx]
    BY DEF StoreAttempt
  <1> HIDE DEF e, x
  <1>6. b \in Entries /\ b.tx = x /\ b.age = e.age /\ b.minedBlock = e.minedBlock
    BY <1>2, <1>4 DEF Entries, x
  <1>7. Key(b.tx) = Key(e.tx) /\ b.tx.call = e.tx.call /\ b.tx.tip <= b.tx.fee
    BY <1>4, <1>6 DEF Key, x
  <1> HIDE DEF b
  <1>8. worker' \in Passes
    <2>1. worker.turn \in Turns /\ worker.price \in Prices /\ worker.todo \in SUBSET Nat
      BY <1>1 DEF TypeOK, Passes
    <2>2. e.tx \in Txs /\ b.tx \in Txs /\ worker.todo \ {e.tx.nonce} \in SUBSET Nat
      BY <1>3, <1>6, <2>1, EntryFields
    <2> QED
      BY <1>5, <2>1, <2>2 DEF Passes
  <1> QED
    BY <1>2, <1>5, <1>6, <1>7, <1>8 DEF e, x

LEMMA AttemptTypes ==
    ASSUME TypeInv, StoreAttempt
    PROVE  TypeInv' /\ NothingNew
  <1> USE DEF TypeInv
  <1>1. PICK e \in store, b \in Entries :
          /\ Key(b.tx) = Key(e.tx) /\ b.tx.tip <= b.tx.fee /\ b.tx.call = e.tx.call
          /\ store' = (store \ {e}) \cup {b}
          /\ worker' = [at |-> "send", turn |-> worker.turn, price |-> worker.price,
                        todo |-> worker.todo \ {e.tx.nonce}, old |-> e.tx, tx |-> b.tx]
          /\ worker' \in Passes
    BY AttemptStored
  <1>2. worker.at = "resend" /\ UNCHANGED <<nonces, mutex, pc, signed, mempool, chain, faults>>
    BY DEF StoreAttempt
  <1>3. TypeOK'
    BY <1>1, <1>2 DEF TypeOK
  <1>4. StoredKeys' = StoredKeys
    BY <1>1 DEF StoredKeys
  <1>5. PassStored'
    BY <1>1, <1>2, <1>4 DEF PassStored
  <1>6. Everywhere' \subseteq Everywhere \cup {b.tx}
    <2>1. Stored' \subseteq Stored \cup {b.tx}
      BY <1>1 DEF Stored
    <2>2. OnTheWay' \subseteq OnTheWay \cup {b.tx}
      BY <1>1, <1>2 DEF OnTheWay
    <2> QED
      BY <1>2, <2>1, <2>2 DEF Everywhere, Mined
  <1>7. b.tx.nonce < Handed
    <2>1. e.tx \in Everywhere /\ b.tx.nonce = e.tx.nonce
      BY <1>1 DEF Everywhere, Stored, Key
    <2> QED
      BY <2>1 DEF NoncesHanded
  <1>8. NothingNew
    <2>1. e.tx \in Everywhere
      BY DEF Everywhere, Stored
    <2> QED
      BY <1>1, <1>6, <2>1 DEF NothingNew
  <1> QED
    BY <1>1, <1>2, <1>3, <1>5, <1>6, <1>7, <1>8, CallsKept, ChainKept, NoncesKept

LEMMA RebroadcastTypes ==
    ASSUME TypeInv, BroadcastAttempt
    PROVE  TypeInv' /\ NothingNew
  <1> USE DEF TypeInv
  <1>1. /\ worker.at = "send" /\ worker' \in {AfterResend, Idle}
        /\ UNCHANGED <<nonces, mutex, pc, signed, store, chain>>
    BY DEF BroadcastAttempt
  <1>2. mempool' \subseteq mempool \cup {worker.tx}
    BY BroadcastOutcome DEF BroadcastAttempt
  <1>3. worker.tx \in Txs /\ worker.tx \in Everywhere
    BY <1>1 DEF TypeOK, Passes, Everywhere, OnTheWay
  <1>4. /\ worker' \in Passes /\ worker'.at # "send"
        /\ worker'.at = "resend" => /\ worker'.turn = worker.turn /\ worker'.todo = worker.todo
                                    /\ worker.todo # {}
    <2>1. NextTurn \in Passes /\ NextTurn.at \in {"count", "idle"}
      BY <1>1, NextTurnTypes
    <2>2. Idle \in Passes /\ Idle.at = "idle"
      BY DEF Idle, Passes
    <2>3. CASE worker.todo = {}
      BY <1>1, <2>1, <2>2, <2>3 DEF AfterResend
    <2>4. CASE worker.todo # {} /\ worker' = AfterResend
      <3>1. worker.turn \in Turns /\ worker.price \in Prices /\ worker.todo \in SUBSET Nat
        BY <1>1 DEF TypeOK, Passes
      <3>2. worker' = [at |-> "resend", turn |-> worker.turn, price |-> worker.price,
                       todo |-> worker.todo]
        BY <2>4 DEF AfterResend
      <3> QED
        BY <2>4, <3>1, <3>2 DEF Passes
    <2> QED
      BY <1>1, <2>2, <2>3, <2>4
  <1>5. TypeOK'
    BY <1>1, <1>2, <1>3, <1>4 DEF TypeOK
  <1>6. PassStored'
    BY <1>1, <1>4 DEF PassStored, StoredKeys
  <1>7. Everywhere' \subseteq Everywhere
    BY <1>1, <1>2, <1>3, <1>4 DEF Everywhere, OnTheWay, Stored, Mined
  <1> QED
    BY <1>1, <1>5, <1>6, <1>7, CallsKept, ChainKept, NoncesKept, SameKnown

LEMMA PassTypes ==
    ASSUME TypeInv, Pass
    PROVE  TypeInv' /\ NothingNew
  BY StartTypes, FillTypes, RemoveTypes, CountTypes, LoadTypes, RefusedTypes, AttemptTypes,
     RebroadcastTypes DEF Pass

\* A block's transaction is appended to the chain of its signer.
LEMMA ChainGrows ==
    ASSUME TypeOK, ChainInOrder, NEW s \in Signers, NEW b \in Blocks,
           Key(b.tx) = <<s, MinedCount(s)>>, b.depth = 0,
           chain' = [chain EXCEPT ![s] = Append(@, b)]
    PROVE  /\ chain' \in [Signers -> Seq(Blocks)] /\ ChainInOrder'
           /\ MinedCount(s)' = MinedCount(s) + 1 /\ chain'[s][MinedCount(s) + 1] = b
           /\ \A i \in 1..MinedCount(s) : chain'[s][i] = chain[s][i]
           /\ \A r \in Signers \ {s} : chain'[r] = chain[r]
           /\ Mined' \subseteq Mined \cup {b.tx}
  <1> DEFINE n == MinedCount(s)
  <1>1. /\ chain[s] \in Seq(Blocks) /\ n \in Nat /\ n = Len(chain[s])
        /\ \A i \in 1..n : chain[s][i] \in Blocks /\ chain[s][i].depth \in Nat
    BY ChainFields DEF Archivable, MinedCount
  <1>2. chain'[s] = Append(chain[s], b) /\ \A r \in Signers \ {s} : chain'[r] = chain[r]
    BY DEF TypeOK
  <1>3. /\ chain'[s] \in Seq(Blocks) /\ Len(chain'[s]) = n + 1 /\ chain'[s][n + 1] = b
        /\ DOMAIN chain'[s] = 1..n + 1
        /\ \A i \in 1..n : chain'[s][i] = chain[s][i]
    <2> HIDE DEF n
    <2> QED
      BY <1>1, <1>2, AppendProperties
  <1>4. chain' \in [Signers -> Seq(Blocks)]
    BY <1>2, <1>3 DEF TypeOK
  <1>5. ChainInOrder'
    <2> SUFFICES ASSUME NEW r \in Signers, NEW i \in DOMAIN chain'[r]
                 PROVE  /\ Key(chain'[r][i].tx) = <<r, i - 1>>
                        /\ \A j \in 1..i : chain'[r][j].depth >= chain'[r][i].depth
      BY DEF ChainInOrder
    <2>1. CASE r # s
      BY <1>2, <2>1 DEF ChainInOrder
    <2>2. CASE r = s /\ i # n + 1
      <3>1. i \in 1..n /\ i \in DOMAIN chain[s] /\ \A j \in 1..i : j \in 1..n
        BY <1>1, <1>3, <2>2
      <3> QED
        BY <1>3, <2>2, <3>1 DEF ChainInOrder
    <2>3. CASE r = s /\ i = n + 1
      <3>1. \A j \in 1..n : chain'[s][j].depth >= 0
        BY <1>1, <1>3
      <3> QED
        BY <1>1, <1>3, <2>3, <3>1
    <2> QED
      BY <2>1, <2>2, <2>3
  <1>6. Mined' \subseteq Mined \cup {b.tx}
    <2> SUFFICES ASSUME NEW r \in Signers, NEW i \in DOMAIN chain'[r]
                 PROVE  chain'[r][i].tx \in Mined \cup {b.tx}
      BY DEF Mined
    <2>1. CASE r # s
      BY <1>2, <2>1 DEF Mined
    <2>2. CASE r = s
      BY <1>1, <1>3, <2>2 DEF Mined
    <2> QED
      BY <2>1, <2>2
  <1> QED
    BY <1>2, <1>3, <1>4, <1>5, <1>6 DEF MinedCount

LEMMA FrontFields ==
    ASSUME NEW S, NEW q \in Seq(S), q # <<>>
    PROVE  /\ Len(q) \in Nat \ {0} /\ q[Len(q)] \in S
           /\ SubSeq(q, 1, Len(q) - 1) \in Seq(S)
           /\ Len(SubSeq(q, 1, Len(q) - 1)) = Len(q) - 1
           /\ \A i \in 1..Len(q) - 1 : SubSeq(q, 1, Len(q) - 1)[i] = q[i]
  <1> DEFINE n == Len(q) - 1
             f == SubSeq(q, 1, n)
  <1>1. /\ Len(q) \in Nat \ {0} /\ n \in Int /\ 1 \in Int /\ n \in Nat
        /\ \A i \in 1..Len(q) : q[i] \in S
    BY EmptySeq
  <1> HIDE DEF f, n
  <1>2. \A i \in 1..n : q[i] \in S
    BY <1>1 DEF n
  <1>3. /\ SubSeq(q, 1, n) \in Seq(S)
        /\ Len(SubSeq(q, 1, n)) = IF 1 <= n THEN n - 1 + 1 ELSE 0
        /\ \A i \in 1..n - 1 + 1 : SubSeq(q, 1, n)[i] = q[1 + i - 1]
    <2>1. ASSUME NEW a \in Int, NEW b \in Int, \A i \in a..b : q[i] \in S
          PROVE  /\ SubSeq(q, a, b) \in Seq(S)
                 /\ Len(SubSeq(q, a, b)) = IF a <= b THEN b - a + 1 ELSE 0
                 /\ \A i \in 1..b - a + 1 : SubSeq(q, a, b)[i] = q[a + i - 1]
      BY <2>1, SubSeqProperties
    <2> QED
      BY <1>1, <1>2, <2>1, Zenon
  <1>4. f \in Seq(S) /\ Len(f) = (IF 1 <= n THEN n - 1 + 1 ELSE 0)
        /\ \A i \in 1..n - 1 + 1 : f[i] = q[1 + i - 1]
    BY <1>3, Zenon DEF f
  <1>5. f \in Seq(S) /\ Len(f) = n /\ \A i \in 1..n : f[i] = q[i]
    BY <1>1, <1>4
  <1>6. q[Len(q)] \in S
    BY <1>1
  <1> QED
    BY <1>1, <1>5, <1>6, Zenon DEF f, n

\* The last block of a signer is taken off.
LEMMA ChainShrinks ==
    ASSUME TypeOK, ChainInOrder, NEW s \in Signers, chain[s] # <<>>, NEW front \in Seq(Blocks),
           Len(front) = MinedCount(s) - 1, \A i \in 1..MinedCount(s) - 1 : front[i] = chain[s][i],
           chain' = [chain EXCEPT ![s] = front]
    PROVE  /\ chain' \in [Signers -> Seq(Blocks)] /\ ChainInOrder'
           /\ MinedCount(s) \in Nat \ {0} /\ MinedCount(s)' = MinedCount(s) - 1
           /\ \A i \in 1..MinedCount(s) - 1 : chain'[s][i] = chain[s][i]
           /\ \A r \in Signers \ {s} : chain'[r] = chain[r]
           /\ Mined' \subseteq Mined
  <1> DEFINE n == MinedCount(s)
  <1>1. chain[s] \in Seq(Blocks) /\ n \in Nat \ {0} /\ n = Len(chain[s]) /\ DOMAIN chain[s] = 1..n
    BY ChainFields, EmptySeq DEF MinedCount
  <1>2. chain'[s] = front /\ \A r \in Signers \ {s} : chain'[r] = chain[r]
    BY DEF TypeOK
  <1>3. /\ chain'[s] \in Seq(Blocks) /\ Len(chain'[s]) = n - 1
        /\ DOMAIN chain'[s] = 1..n - 1
        /\ \A i \in 1..n - 1 : chain'[s][i] = chain[s][i]
    BY <1>1, <1>2
  <1>4. chain' \in [Signers -> Seq(Blocks)]
    BY <1>2, <1>3 DEF TypeOK
  <1>5. ChainInOrder'
    <2> SUFFICES ASSUME NEW r \in Signers, NEW i \in DOMAIN chain'[r]
                 PROVE  /\ Key(chain'[r][i].tx) = <<r, i - 1>>
                        /\ \A j \in 1..i : chain'[r][j].depth >= chain'[r][i].depth
      BY DEF ChainInOrder
    <2>1. CASE r # s
      BY <1>2, <2>1 DEF ChainInOrder
    <2>2. CASE r = s
      <3>1. i \in 1..n - 1 /\ i \in DOMAIN chain[s] /\ \A j \in 1..i : j \in 1..n - 1
        BY <1>1, <1>3, <2>2
      <3> QED
        BY <1>3, <2>2, <3>1 DEF ChainInOrder
    <2> QED
      BY <2>1, <2>2
  <1>6. Mined' \subseteq Mined
    <2> SUFFICES ASSUME NEW r \in Signers, NEW i \in DOMAIN chain'[r]
                 PROVE  chain'[r][i].tx \in Mined
      BY DEF Mined
    <2>1. CASE r # s
      <3>1. chain'[r] = chain[r]
        BY <1>2, <2>1
      <3> QED
        BY <3>1 DEF Mined
    <2>2. CASE r = s
      <3>1. i \in DOMAIN chain[s] /\ chain'[s][i] = chain[s][i]
        BY <1>1, <1>3, <2>2
      <3> QED
        BY <2>2, <3>1 DEF Mined
    <2> QED
      BY <2>1, <2>2
  <1> QED
    BY <1>1, <1>2, <1>3, <1>4, <1>5, <1>6 DEF MinedCount

\* A block's transaction changes in place: it gets deeper, or is in another block.
LEMMA ChainChanges ==
    ASSUME TypeOK, ChainInOrder, NEW s \in Signers, NEW k \in 1..MinedCount(s), NEW b \in Blocks,
           b.tx = chain[s][k].tx, b.depth >= chain[s][k].depth,
           \A j \in 1..k - 1 : chain[s][j].depth >= b.depth,
           chain'[s] \in Seq(Blocks), Len(chain'[s]) = MinedCount(s), chain'[s][k] = b,
           \A i \in 1..MinedCount(s) : i # k => chain'[s][i] = chain[s][i],
           \A r \in Signers \ {s} : chain'[r] = chain[r],
           chain' = [r \in Signers |-> chain'[r]]
    PROVE  /\ chain' \in [Signers -> Seq(Blocks)] /\ ChainInOrder'
           /\ Mined' \subseteq Mined
  <1> DEFINE n == MinedCount(s)
  <1>1. /\ n \in Nat /\ DOMAIN chain[s] = 1..n
        /\ \A i \in 1..n : chain[s][i].depth \in Nat /\ chain[s][i].tx \in Mined
    BY ChainFields DEF Archivable
  <1>2. DOMAIN chain'[s] = 1..n /\ b.depth \in Nat
    BY DEF Blocks, Archivable
  <1>3. \A i \in 1..n : chain'[s][i].tx = chain[s][i].tx
    OBVIOUS
  <1>4. chain' \in [Signers -> Seq(Blocks)]
    BY DEF TypeOK
  <1>5. ChainInOrder'
    <2> SUFFICES ASSUME NEW r \in Signers, NEW i \in DOMAIN chain'[r]
                 PROVE  /\ Key(chain'[r][i].tx) = <<r, i - 1>>
                        /\ \A j \in 1..i : chain'[r][j].depth >= chain'[r][i].depth
      BY DEF ChainInOrder
    <2>1. CASE r # s
      BY <2>1 DEF ChainInOrder
    <2>2. CASE r = s
      <3>1. i \in 1..n /\ Key(chain'[s][i].tx) = <<s, i - 1>>
        BY <1>1, <1>2, <1>3, <2>2 DEF ChainInOrder
      <3>2. ASSUME NEW j \in 1..i
            PROVE  chain'[s][j].depth >= chain'[s][i].depth
        <4>1. j \in 1..n /\ chain[s][j].depth >= chain[s][i].depth
          BY <1>1, <3>1 DEF ChainInOrder
        <4>2. CASE i = k /\ j = k
          BY <1>2, <4>2
        <4>3. CASE i = k /\ j # k
          BY <3>1, <4>1, <4>3
        <4>4. CASE i # k /\ j = k
          <5>1. chain'[s][j].depth >= chain[s][j].depth /\ chain'[s][i].depth = chain[s][i].depth
            BY <3>1, <4>4
          <5> QED
            BY <1>1, <1>2, <3>1, <4>1, <4>4, <5>1
        <4>5. CASE i # k /\ j # k
          BY <3>1, <4>1, <4>5
        <4> QED
          BY <4>2, <4>3, <4>4, <4>5
      <3> QED
        BY <2>2, <3>1, <3>2
    <2> QED
      BY <2>1, <2>2
  <1>6. Mined' \subseteq Mined
    <2> SUFFICES ASSUME NEW r \in Signers, NEW i \in DOMAIN chain'[r]
                 PROVE  chain'[r][i].tx \in Mined
      BY DEF Mined
    <2>1. CASE r # s
      BY <2>1 DEF Mined
    <2>2. CASE r = s
      BY <1>1, <1>2, <1>3, <2>2
    <2> QED
      BY <2>1, <2>2
  <1> QED
    BY <1>4, <1>5, <1>6

\* The node, the chain and time change neither the calls nor the pass.
LEMMA WorldTypes ==
    ASSUME TypeInv, UNCHANGED <<nonces, mutex, pc, signed, worker>>,
           store' \subseteq Entries, Stored' = Stored,
           mempool' \subseteq mempool \cup Mined, Mined' \subseteq Mined \cup mempool,
           chain' \in [Signers -> Seq(Blocks)], ChainInOrder'
    PROVE  TypeInv' /\ NothingNew
  <1> USE DEF TypeInv
  <1>1. Everywhere' \subseteq Everywhere
    BY DEF Everywhere, OnTheWay
  <1>2. mempool' \subseteq Txs
    BY EverywhereTxs DEF Everywhere
  <1>3. TypeOK'
    BY <1>2 DEF TypeOK
  <1>4. StoredKeys' = StoredKeys
    BY DEF StoredKeys, Stored
  <1> QED
    BY <1>1, <1>3, <1>4, CallsKept, NoncesKept, SameKnown, PassKept

LEMMA CrashTypes ==
    ASSUME TypeInv, Crash
    PROVE  TypeInv' /\ NothingNew
  <1> USE DEF TypeInv
  <1>1. Handed' = Handed
    BY DEF Crash, Handed, SignedCalls
  <1>2. /\ nonces' = [s \in Signers |-> 0] /\ mutex' = None /\ worker' = Idle
        /\ pc' = [c \in Calls |-> IF pc[c] \in {"locked", "signed", "stored"} THEN "lost" ELSE pc[c]]
        /\ UNCHANGED <<signed, store, mempool, chain>>
    BY DEF Crash
  <1>3. \A c \in Calls : /\ pc'[c] \notin {"locked", "signed", "stored"}
                         /\ pc'[c] = "new" => pc[c] = "new"
                         /\ pc'[c] \in {"new", "sent", "failed", "lost"}
    BY <1>2 DEF TypeOK
  <1>4. 0 \in Nonces
    BY HandedType DEF Nonces
  <1>5. TypeOK'
    <2>1. pc' \in [Calls -> {"new", "locked", "signed", "stored", "sent", "failed", "lost"}]
      BY <1>2, <1>3
    <2>2. worker' \in Passes
      BY <1>2 DEF Idle, Passes
    <2> QED
      BY <1>2, <1>4, <2>1, <2>2 DEF TypeOK
  <1>6. CallsInOrder'
    BY <1>1, <1>2, <1>3 DEF CallsInOrder
  <1>7. Everywhere' \subseteq Everywhere
    BY <1>2, <1>3 DEF Everywhere, OnTheWay, Mined, Stored, Idle
  <1>8. NoncesHanded'
    BY <1>1, <1>2, <1>7, HandedType DEF NoncesHanded
  <1>9. PassStored'
    BY <1>2 DEF PassStored, Idle
  <1> QED
    BY <1>2, <1>5, <1>6, <1>7, <1>8, <1>9, ChainKept, SameKnown

LEMMA MineTypes ==
    ASSUME TypeInv, NEW s \in Signers, Mine(s)
    PROVE  TypeInv' /\ NothingNew
  <1>1. PICK tx \in mempool :
          /\ tx.signer = s /\ tx.nonce = MinedCount(s)
          /\ chain' = [chain EXCEPT ![s] = Append(@, [tx |-> tx, moved |-> FALSE, depth |-> 0])]
          /\ mempool' = mempool \ {tx}
          /\ UNCHANGED <<nonces, mutex, pc, signed, store, worker, faults>>
    BY DEF Mine
  <1> DEFINE b == [tx |-> tx, moved |-> FALSE, depth |-> 0]
  <1>2. b \in Blocks /\ b.tx = tx /\ b.depth = 0 /\ Key(b.tx) = <<s, MinedCount(s)>>
    BY <1>1 DEF TypeInv, TypeOK, Blocks, Archivable, Key
  <1>3. chain' = [chain EXCEPT ![s] = Append(@, b)]
    BY <1>1
  <1> HIDE DEF b
  <1>4. chain' \in [Signers -> Seq(Blocks)] /\ ChainInOrder' /\ Mined' \subseteq Mined \cup {tx}
    BY <1>2, <1>3, ChainGrows DEF TypeInv
  <1> QED
    BY <1>1, <1>4, WorldTypes DEF TypeInv, TypeOK, Stored

LEMMA DropTypes ==
    ASSUME TypeInv, Drop
    PROVE  TypeInv' /\ NothingNew
  <1>1. /\ mempool' \subseteq mempool
        /\ UNCHANGED <<nonces, mutex, pc, signed, store, chain, worker>>
    BY DEF Drop
  <1> QED
    BY <1>1, WorldTypes, ChainKept DEF TypeInv, TypeOK, Stored

LEMMA TimeOutTypes ==
    ASSUME TypeInv, TimeOut
    PROVE  TypeInv' /\ NothingNew
  <1>1. PICK e \in store :
          /\ store' = (store \ {e}) \cup {[e EXCEPT !.stale = TRUE]}
          /\ UNCHANGED <<nonces, mutex, pc, signed, mempool, chain, worker, faults>>
    BY DEF TimeOut
  <1>2. [e EXCEPT !.stale = TRUE] \in Entries /\ [e EXCEPT !.stale = TRUE].tx = e.tx
    BY DEF TypeInv, TypeOK, Entries
  <1>3. store' \subseteq Entries /\ Stored' = Stored
    BY <1>1, <1>2 DEF TypeInv, TypeOK, Stored
  <1> QED
    BY <1>1, <1>3, WorldTypes, ChainKept DEF TypeInv, TypeOK

\* Aging changes nothing but ages, by one.
LEMMA AgedFields ==
    ASSUME TypeOK, NEW key
    PROVE  /\ Aged(key) \subseteq Entries
           /\ \A f \in Aged(key) : \E e \in store :
                /\ f.tx = e.tx /\ f.minedBlock = e.minedBlock /\ f.stale = e.stale
                /\ f.age = IF Key(e.tx) = key /\ e.minedBlock # "none" /\ e.age < Archivable
                           THEN e.age + 1 ELSE e.age
           /\ \A e \in store : \E f \in Aged(key) : f.tx = e.tx
  <1> DEFINE Grows(e) == Key(e.tx) = key /\ e.minedBlock # "none" /\ e.age < Archivable
             One(e) == IF Grows(e) THEN [e EXCEPT !.age = @ + 1] ELSE e
  <1>1. Aged(key) = {One(e) : e \in store}
    BY DEF Aged
  <1>2. ASSUME NEW e \in store
        PROVE  /\ One(e) \in Entries /\ One(e).tx = e.tx /\ One(e).minedBlock = e.minedBlock
               /\ One(e).stale = e.stale /\ One(e).age = IF Grows(e) THEN e.age + 1 ELSE e.age
    <2>1. e \in Entries
      BY DEF TypeOK
    <2>2. CASE Grows(e)
      <3>1. e.age + 1 \in 0..Archivable
        BY <2>1, <2>2, EntryFields DEF Archivable
      <3> QED
        BY <2>1, <2>2, <3>1 DEF Entries
    <2>3. CASE ~Grows(e)
      BY <2>1, <2>3
    <2> QED
      BY <2>2, <2>3
  <1>3. \A f \in Aged(key) : \E e \in store : f = One(e)
    BY <1>1
  <1>4. \A e \in store : One(e) \in Aged(key)
    BY <1>1
  <1> HIDE DEF One
  <1> QED
    BY <1>2, <1>3, <1>4

LEMMA AgedStored ==
    ASSUME TypeOK, NEW key, store' = Aged(key)
    PROVE  store' \subseteq Entries /\ Stored' = Stored /\ StoredKeys' = StoredKeys
  BY AgedFields DEF Stored, StoredKeys

LEMMA AgeRecordedTypes ==
    ASSUME TypeInv, AgeRecorded
    PROVE  TypeInv' /\ NothingNew
  <1>1. PICK key : store' = Aged(key)
    BY DEF AgeRecorded
  <1>2. UNCHANGED <<nonces, mutex, pc, signed, mempool, chain, worker, faults>>
    BY DEF AgeRecorded
  <1> QED
    BY <1>1, <1>2, AgedStored, WorldTypes, ChainKept DEF TypeInv, TypeOK

\* What deepening does to the chain: one block gets one deeper.
LEMMA DeepenFields ==
    ASSUME TypeInv, NEW s \in Signers, Deepen(s)
    PROVE  \E k \in 1..MinedCount(s) :
             /\ chain[s][k].depth < Archivable /\ (TurnsArchivable(s, k) => mutex = None)
             /\ worker.at # "prune"
             /\ \A j \in 1..k - 1 : chain[s][j].depth > chain[s][k].depth
             /\ chain'[s][k] = [chain[s][k] EXCEPT !.depth = @ + 1]
             /\ chain'[s][k] \in Blocks /\ chain'[s][k].tx = chain[s][k].tx
             /\ chain'[s][k].depth = chain[s][k].depth + 1
             /\ Len(chain'[s]) = MinedCount(s)
             /\ \A i \in 1..MinedCount(s) : i # k => chain'[s][i] = chain[s][i]
             /\ \A r \in Signers \ {s} : chain'[r] = chain[r]
             /\ store' = Aged(<<s, k - 1>>)
             /\ chain' \in [Signers -> Seq(Blocks)] /\ ChainInOrder' /\ Mined' \subseteq Mined
  <1>1. DOMAIN chain[s] = 1..MinedCount(s) /\ MinedCount(s) \in Nat /\ chain[s] \in Seq(Blocks)
    BY ChainFields DEF TypeInv
  <1>2. PICK k \in 1..MinedCount(s) :
          /\ chain[s][k].depth < Archivable /\ (TurnsArchivable(s, k) => mutex = None)
          /\ worker.at # "prune"
          /\ \A j \in 1..k - 1 : chain[s][j].depth > chain[s][k].depth
          /\ chain' = [chain EXCEPT ![s][k].depth = @ + 1]
          /\ store' = Aged(<<s, k - 1>>)
    BY <1>1 DEF Deepen
  <1>3. chain[s][k] \in Blocks /\ chain[s][k].depth \in 0..Archivable /\ chain[s][k].depth + 1 \in 0..Archivable
    BY <1>2, ChainFields DEF TypeInv, Archivable
  <1> DEFINE b == [chain[s][k] EXCEPT !.depth = @ + 1]
  <1>4. b \in Blocks /\ b.tx = chain[s][k].tx /\ b.depth = chain[s][k].depth + 1
    BY <1>3 DEF Blocks
  <1>5. chain' = [chain EXCEPT ![s] = [chain[s] EXCEPT ![k] = b]]
    BY <1>2
  <1> HIDE DEF b
  <1>6. chain'[s] = [chain[s] EXCEPT ![k] = b] /\ \A r \in Signers \ {s} : chain'[r] = chain[r]
    BY <1>5 DEF TypeInv, TypeOK
  <1>7. /\ chain'[s] \in Seq(Blocks) /\ Len(chain'[s]) = MinedCount(s) /\ chain'[s][k] = b
        /\ \A i \in 1..MinedCount(s) : i # k => chain'[s][i] = chain[s][i]
    BY <1>1, <1>4, <1>6, ExceptSeq DEF MinedCount
  <1>8. chain' = [r \in Signers |-> chain'[r]]
    BY <1>5 DEF TypeInv, TypeOK
  <1>9. ASSUME NEW j \in 1..k - 1
        PROVE  chain[s][j].depth >= b.depth
    <2>1. j \in 1..MinedCount(s)
      BY <1>1
    <2>2. chain[s][j].depth \in Nat
      BY <2>1, ChainFields DEF TypeInv, Archivable
    <2>3. chain[s][j].depth > chain[s][k].depth /\ chain[s][k].depth \in Nat
      BY <1>2, <1>3
    <2> QED
      BY <1>4, <2>2, <2>3
  <1>10. chain' \in [Signers -> Seq(Blocks)] /\ ChainInOrder' /\ Mined' \subseteq Mined
    <2>1. b.depth >= chain[s][k].depth
      BY <1>3, <1>4
    <2> QED
      BY <1>4, <1>6, <1>7, <1>8, <1>9, <2>1, ChainChanges DEF TypeInv
  <1>11. b = [chain[s][k] EXCEPT !.depth = @ + 1]
    BY DEF b
  <1> QED
    BY <1>2, <1>4, <1>6, <1>7, <1>10, <1>11

LEMMA DeepenTypes ==
    ASSUME TypeInv, NEW s \in Signers, Deepen(s)
    PROVE  TypeInv' /\ NothingNew
  <1>1. PICK key : store' = Aged(key)
    BY DEF Deepen
  <1>2. UNCHANGED <<nonces, mutex, pc, signed, mempool, worker, faults>>
    BY DEF Deepen
  <1>3. chain' \in [Signers -> Seq(Blocks)] /\ ChainInOrder' /\ Mined' \subseteq Mined
    BY DeepenFields
  <1> QED
    BY <1>1, <1>2, <1>3, AgedStored, WorldTypes DEF TypeInv, TypeOK


\* What a reorg does to the chain: the last block is another one, or gone.
LEMMA ReorgFields ==
    ASSUME TypeInv, NEW s \in Signers, Reorg(s)
    PROVE  LET n == MinedCount(s) IN
           /\ n \in Nat \ {0} /\ chain[s][n].depth = 0
           /\ chain' \in [Signers -> Seq(Blocks)] /\ ChainInOrder' /\ Mined' \subseteq Mined
           /\ \A i \in 1..n - 1 : chain'[s][i] = chain[s][i]
           /\ \A r \in Signers \ {s} : chain'[r] = chain[r]
           /\ \/ /\ MinedCount(s)' = n /\ UNCHANGED mempool
                 /\ chain'[s][n].tx = chain[s][n].tx /\ chain'[s][n].depth = 0
              \/ /\ MinedCount(s)' = n - 1
                 /\ \/ UNCHANGED mempool
                    \/ LET tx == chain[s][n].tx IN
                       mempool' = {t \in mempool : Key(t) # Key(tx)} \cup {tx}
  <1> DEFINE n == MinedCount(s)
             front == SubSeq(chain[s], 1, n - 1)
             last == chain[s][n]
             moved == [last EXCEPT !.moved = TRUE]
  <1>1. chain[s] \in Seq(Blocks) /\ chain[s] # <<>> /\ last.depth = 0 /\ n = Len(chain[s])
    BY ChainFields DEF TypeInv, Reorg, MinedCount
  <1>2. /\ n \in Nat \ {0} /\ last \in Blocks /\ front \in Seq(Blocks) /\ Len(front) = n - 1
        /\ \A i \in 1..n - 1 : front[i] = chain[s][i]
    BY <1>1, FrontFields, Zenon DEF MinedCount
  <1>3. \/ /\ chain' = [chain EXCEPT ![s] = Append(front, moved)]
           /\ UNCHANGED mempool
        \/ /\ chain' = [chain EXCEPT ![s] = front]
           /\ Accept(last.tx) \/ UNCHANGED mempool
    BY Zenon DEF Reorg
  <1> HIDE DEF front
  <1>4. moved \in Blocks /\ moved.tx = last.tx /\ moved.depth = 0
    BY <1>1, <1>2 DEF Blocks
  <1> HIDE DEF moved
  <1>5. CASE chain' = [chain EXCEPT ![s] = front] /\ (Accept(last.tx) \/ UNCHANGED mempool)
    <2>1. /\ chain' \in [Signers -> Seq(Blocks)] /\ ChainInOrder' /\ Mined' \subseteq Mined
          /\ MinedCount(s)' = n - 1
          /\ \A i \in 1..n - 1 : chain'[s][i] = chain[s][i]
          /\ \A r \in Signers \ {s} : chain'[r] = chain[r]
      BY <1>1, <1>2, <1>5, ChainShrinks DEF TypeInv
    <2> QED
      BY <1>1, <1>2, <1>5, <2>1 DEF Accept
  <1>6. CASE chain' = [chain EXCEPT ![s] = Append(front, moved)] /\ UNCHANGED mempool
    <2>1. chain'[s] = Append(front, moved) /\ \A r \in Signers \ {s} : chain'[r] = chain[r]
      BY <1>6 DEF TypeInv, TypeOK
    <2>2. chain' = [r \in Signers |-> chain'[r]]
      BY <1>6 DEF TypeInv, TypeOK
    <2>3. /\ chain'[s] \in Seq(Blocks) /\ Len(chain'[s]) = n /\ chain'[s][n] = moved
          /\ \A i \in 1..n - 1 : chain'[s][i] = chain[s][i]
      BY <1>2, <1>4, <2>1, AppendProperties
    <2>4. /\ n \in 1..MinedCount(s) /\ moved.depth >= chain[s][n].depth
          /\ \A j \in 1..n - 1 : chain[s][j].depth >= moved.depth
      <3>1. \A j \in 1..n : chain[s][j].depth \in Nat
        BY ChainFields DEF TypeInv, Archivable
      <3> QED
        BY <1>1, <1>2, <1>4, <3>1
    <2>5. \A i \in 1..MinedCount(s) : i # n => chain'[s][i] = chain[s][i]
      BY <1>2, <2>3
    <2>6. moved.tx = chain[s][n].tx
      BY <1>4
    <2> HIDE DEF n
    <2>7. chain' \in [Signers -> Seq(Blocks)] /\ ChainInOrder' /\ Mined' \subseteq Mined
      BY <1>4, <2>1, <2>2, <2>3, <2>4, <2>5, <2>6, ChainChanges DEF TypeInv, n
    <2> QED
      BY <1>1, <1>2, <1>4, <1>6, <2>1, <2>3, <2>7 DEF MinedCount, n
  <1> QED
    BY <1>3, <1>5, <1>6

LEMMA ReorgTypes ==
    ASSUME TypeInv, NEW s \in Signers, Reorg(s)
    PROVE  TypeInv' /\ NothingNew
  <1>1. UNCHANGED <<nonces, mutex, pc, signed, store, worker>>
    BY Zenon DEF Reorg
  <1>2. chain' \in [Signers -> Seq(Blocks)] /\ ChainInOrder' /\ Mined' \subseteq Mined
    BY ReorgFields
  <1>3. mempool' \subseteq mempool \cup Mined
    <2>1. MinedCount(s) \in 1..MinedCount(s)
      BY ReorgFields
    <2>2. chain[s][MinedCount(s)].tx \in Mined
      BY <2>1, ChainFields DEF TypeInv
    <2> QED
      BY <2>2, ReorgFields
  <1> QED
    BY <1>1, <1>2, <1>3, WorldTypes DEF TypeInv, TypeOK, Stored

LEMMA InitTypes == Init => TypeInv
  <1> SUFFICES ASSUME Init
               PROVE  TypeInv
    OBVIOUS
  <1>1. SignedCalls = {}
    BY DEF Init, SignedCalls
  <1>2. Handed = 0 /\ 0 \in Nonces
    BY <1>1, HandedType, FS_EmptySet DEF Handed, Nonces
  <1>3. Everywhere = {}
    BY DEF Init, Everywhere, OnTheWay, Mined, Stored, Idle
  <1>4. Idle \in Passes
    BY DEF Idle, Passes
  <1>5. \A s \in Signers : chain[s] = <<>>
    BY DEF Init
  <1>6. <<>> \in Seq(Blocks)
    OBVIOUS
  <1>7. TypeOK
    BY <1>2, <1>4, <1>6 DEF Init, TypeOK
  <1>8. CallsInOrder /\ ChainInOrder
    BY <1>5 DEF Init, CallsInOrder, ChainInOrder
  <1>9. NoncesHanded /\ PassStored
    BY <1>2, <1>3 DEF Init, NoncesHanded, PassStored, Idle
  <1> QED
    BY <1>7, <1>8, <1>9 DEF TypeInv

LEMMA StutterTypes ==
    ASSUME TypeInv, UNCHANGED vars
    PROVE  TypeInv' /\ NothingNew
  <1>1. Everywhere' = Everywhere
    BY DEF vars, Everywhere, OnTheWay, Mined, Stored
  <1> QED
    BY <1>1, CallsKept, ChainKept, NoncesKept, SameKnown, PassKept
    DEF vars, TypeInv, TypeOK, StoredKeys

LEMMA NextTypes ==
    ASSUME TypeInv, [Next]_vars
    PROVE  TypeInv' /\ NothingNew
  BY SendTypes, PassTypes, CrashTypes, MineTypes, DropTypes, TimeOutTypes, DeepenTypes,
     AgeRecordedTypes, ReorgTypes, StutterTypes DEF Next

LEMMA TypeInvariant == Spec => []TypeInv
  <1>1. TypeInv /\ [Next]_vars => TypeInv'
    BY NextTypes
  <1> QED
    BY InitTypes, <1>1, PTL DEF Spec


-----------------------------------------------------------------------------
(* What a step may do to depths and to what is stored.                      *)

LEMMA DepthType ==
    ASSUME TypeInv, NEW s \in Signers, NEW n \in Nat
    PROVE  /\ Depth(s, n) \in 0..Archivable /\ Depth(s, n) \in Nat
           /\ ~Settled(s, n) => Depth(s, n) = 0
           /\ Depth(s, n) # 0 => n + 1 \in 1..MinedCount(s)
           /\ Settled(s, n) => n < MinedCount(s) /\ chain[s][n + 1].depth >= Old
  <1>1. MinedCount(s) \in Nat
    BY ChainFields DEF TypeInv
  <1>2. CASE n < MinedCount(s)
    <2>1. n + 1 \in 1..MinedCount(s)
      BY <1>1, <1>2
    <2>2. chain[s][n + 1].depth \in 0..Archivable
      BY <2>1, ChainFields DEF TypeInv
    <2> QED
      BY <1>2, <2>1, <2>2 DEF Depth, Settled, Old, Archivable
  <1>3. CASE ~(n < MinedCount(s))
    BY <1>3 DEF Depth, Settled, Old, Archivable
  <1> QED
    BY <1>2, <1>3

\* Only new blocks on top make a nonce deeper, by one; nothing makes it less deep.
DeepenOf(s, n) == /\ worker.at # "prune" /\ (TurnsArchivable(s, n + 1) => mutex = None)
                  /\ store' = Aged(<<s, n>>) /\ UNCHANGED <<mutex, pc, signed, worker>>

LEMMA DeepenDepth ==
    ASSUME TypeInv, NEW s \in Signers, Deepen(s), NEW r \in Signers, NEW n \in Nat
    PROVE  \/ Depth(r, n)' = Depth(r, n)
           \/ /\ DeepenOf(r, n) /\ n < MinedCount(r) /\ Depth(r, n)' = Depth(r, n) + 1
              /\ Depth(r, n) = chain[r][n + 1].depth /\ Depth(r, n) < Archivable
  <1>1. PICK k \in 1..MinedCount(s) :
          /\ chain[s][k].depth < Archivable /\ (TurnsArchivable(s, k) => mutex = None)
          /\ worker.at # "prune"
          /\ chain'[s][k].depth = chain[s][k].depth + 1
          /\ Len(chain'[s]) = MinedCount(s)
          /\ \A i \in 1..MinedCount(s) : i # k => chain'[s][i] = chain[s][i]
          /\ \A q \in Signers \ {s} : chain'[q] = chain[q]
          /\ store' = Aged(<<s, k - 1>>)
    BY DeepenFields
  <1>2. UNCHANGED <<mutex, pc, signed, worker>>
    BY DEF Deepen
  <1>3. MinedCount(s) \in Nat /\ MinedCount(s)' = MinedCount(s)
    BY <1>1, ChainFields DEF TypeInv, MinedCount
  <1>4. CASE r # s
    BY <1>1, <1>4 DEF Depth, MinedCount
  <1>5. CASE r = s /\ n + 1 = k
    <2>1. n < MinedCount(s) /\ k - 1 = n
      BY <1>1, <1>3, <1>5
    <2>2. Depth(s, n)' = chain'[s][n + 1].depth /\ Depth(s, n) = chain[s][n + 1].depth
      BY <1>3, <2>1 DEF Depth
    <2> QED
      BY <1>1, <1>2, <1>5, <2>1, <2>2 DEF DeepenOf
  <1>6. CASE r = s /\ n + 1 # k
    <2>1. n < MinedCount(s) => n + 1 \in 1..MinedCount(s)
      BY <1>3
    <2> QED
      BY <1>1, <1>3, <1>6, <2>1 DEF Depth
  <1> QED
    BY <1>4, <1>5, <1>6

LEMMA MineFields ==
    ASSUME TypeInv, NEW s \in Signers, Mine(s)
    PROVE  \E tx \in mempool :
             /\ Key(tx) = <<s, MinedCount(s)>> /\ mempool' = mempool \ {tx}
             /\ MinedCount(s) \in Nat /\ MinedCount(s)' = MinedCount(s) + 1
             /\ chain'[s][MinedCount(s) + 1].depth = 0
             /\ \A i \in 1..MinedCount(s) : chain'[s][i] = chain[s][i]
             /\ \A r \in Signers \ {s} : chain'[r] = chain[r]
  <1>1. PICK tx \in mempool :
          /\ tx.signer = s /\ tx.nonce = MinedCount(s)
          /\ chain' = [chain EXCEPT ![s] = Append(@, [tx |-> tx, moved |-> FALSE, depth |-> 0])]
          /\ mempool' = mempool \ {tx}
    BY DEF Mine
  <1> DEFINE b == [tx |-> tx, moved |-> FALSE, depth |-> 0]
  <1>2. b \in Blocks /\ b.depth = 0 /\ Key(b.tx) = <<s, MinedCount(s)>> /\ b.tx = tx
    BY <1>1 DEF TypeInv, TypeOK, Blocks, Archivable, Key
  <1>3. chain' = [chain EXCEPT ![s] = Append(@, b)]
    BY <1>1
  <1> HIDE DEF b
  <1>4. /\ MinedCount(s)' = MinedCount(s) + 1 /\ chain'[s][MinedCount(s) + 1] = b
        /\ \A i \in 1..MinedCount(s) : chain'[s][i] = chain[s][i]
        /\ \A r \in Signers \ {s} : chain'[r] = chain[r]
    BY <1>2, <1>3, ChainGrows DEF TypeInv
  <1> QED
    BY <1>1, <1>2, <1>4, ChainFields DEF TypeInv

LEMMA MineDepth ==
    ASSUME TypeInv, NEW s \in Signers, Mine(s), NEW r \in Signers, NEW n \in Nat
    PROVE  Depth(r, n)' = Depth(r, n)
  <1>1. /\ MinedCount(s) \in Nat /\ MinedCount(s)' = MinedCount(s) + 1
        /\ chain'[s][MinedCount(s) + 1].depth = 0
        /\ \A i \in 1..MinedCount(s) : chain'[s][i] = chain[s][i]
        /\ \A q \in Signers \ {s} : chain'[q] = chain[q]
    BY MineFields
  <1>2. CASE r # s
    BY <1>1, <1>2 DEF Depth, MinedCount
  <1>3. CASE r = s /\ n < MinedCount(s)
    <2>1. n + 1 \in 1..MinedCount(s) /\ n < MinedCount(s) + 1
      BY <1>1, <1>3
    <2> QED
      BY <1>1, <1>3, <2>1 DEF Depth
  <1>4. CASE r = s /\ ~(n < MinedCount(s))
    <2>1. n < MinedCount(s) + 1 => n + 1 = MinedCount(s) + 1
      BY <1>1, <1>4
    <2> QED
      BY <1>1, <1>4, <2>1 DEF Depth
  <1> QED
    BY <1>2, <1>3, <1>4

LEMMA ReorgDepth ==
    ASSUME TypeInv, NEW s \in Signers, Reorg(s), NEW r \in Signers, NEW n \in Nat
    PROVE  Depth(r, n)' = Depth(r, n)
  <1> DEFINE k == MinedCount(s)
  <1>1. /\ k \in Nat \ {0} /\ chain[s][k].depth = 0
        /\ \A i \in 1..k - 1 : chain'[s][i] = chain[s][i]
        /\ \A q \in Signers \ {s} : chain'[q] = chain[q]
        /\ MinedCount(s)' = k - 1 \/ (MinedCount(s)' = k /\ chain'[s][k].depth = 0)
    BY ReorgFields
  <1>2. CASE r # s
    BY <1>1, <1>2 DEF Depth, MinedCount
  <1>3. CASE r = s /\ n < k - 1
    <2>1. n + 1 \in 1..k - 1
      BY <1>1, <1>3
    <2> QED
      BY <1>1, <1>3, <2>1 DEF Depth
  <1>4. CASE r = s /\ ~(n < k - 1)
    <2>1. n < k => n + 1 = k
      BY <1>1, <1>4
    <2> QED
      BY <1>1, <1>4, <2>1 DEF Depth
  <1> QED
    BY <1>2, <1>3, <1>4

LEMMA DepthMoves ==
    ASSUME TypeInv, [Next]_vars, NEW s \in Signers, NEW n \in Nat
    PROVE  \/ Depth(s, n)' = Depth(s, n)
           \/ /\ DeepenOf(s, n) /\ n < MinedCount(s) /\ Depth(s, n)' = Depth(s, n) + 1
              /\ Depth(s, n) = chain[s][n + 1].depth /\ Depth(s, n) < Archivable
  <1>1. CASE UNCHANGED chain
    BY <1>1 DEF Depth, MinedCount
  <1>2. CASE \E r \in Signers : Mine(r) \/ Deepen(r) \/ Reorg(r)
    BY <1>2, MineDepth, DeepenDepth, ReorgDepth
  <1> QED
    BY <1>1, <1>2 DEF Next, vars, Send, Refuse, Acquire, Sign, PutTx, BroadcastTransaction,
       Pass, StartPass, FillMinedBlockDetails, RemoveArchivedTransactions, CountMined,
       LoadPending, ResendRefused, StoreAttempt, BroadcastAttempt, Crash, Drop, TimeOut, AgeRecorded

LEMMA SettledStays ==
    ASSUME TypeInv, [Next]_vars, NEW s \in Signers, NEW n \in Nat, Settled(s, n)
    PROVE  Settled(s, n)'
  BY DepthMoves, DepthType DEF Settled, Old


LEMMA StoreStep ==
    ASSUME [Next]_vars
    PROVE  \/ UNCHANGED store
           \/ \E c \in Calls : PutTx(c)
           \/ FillMinedBlockDetails \/ RemoveArchivedTransactions \/ StoreAttempt \/ TimeOut
           \/ AgeRecorded \/ \E s \in Signers : Deepen(s)
  BY DEF Next, vars, Send, Refuse, Acquire, Sign, BroadcastTransaction, Pass, StartPass,
     CountMined, LoadPending, ResendRefused, BroadcastAttempt, Crash, Drop, Mine, Reorg

LEMMA FillStored ==
    ASSUME TypeInv, FillMinedBlockDetails
    PROVE  /\ \A f \in store' : \E e \in store : f = Filled(e) /\ f.tx = e.tx
           /\ StoredKeys' = StoredKeys
  <1>1. \A e \in store : Filled(e).tx = e.tx
    BY FilledTypes DEF TypeInv
  <1>2. store' = {Filled(e) : e \in store}
    BY DEF FillMinedBlockDetails
  <1> QED
    BY <1>1, <1>2 DEF StoredKeys

LEMMA TimeOutStored ==
    ASSUME TypeInv, TimeOut
    PROVE  \E e \in store, b \in Entries :
             /\ store' = (store \ {e}) \cup {b} /\ b.tx = e.tx /\ b.age = e.age
             /\ b.minedBlock = e.minedBlock
             /\ StoredKeys' = StoredKeys
  <1>1. PICK e \in store : store' = (store \ {e}) \cup {[e EXCEPT !.stale = TRUE]}
    BY DEF TimeOut
  <1> DEFINE b == [e EXCEPT !.stale = TRUE]
  <1>2. b \in Entries /\ b.tx = e.tx /\ b.age = e.age /\ b.minedBlock = e.minedBlock
    BY DEF TypeInv, TypeOK, Entries
  <1> HIDE DEF b
  <1>3. StoredKeys' = StoredKeys
    BY <1>1, <1>2 DEF StoredKeys, b
  <1> QED
    BY <1>1, <1>2, <1>3 DEF b

\* An attempt's entry has the key, the call and the age of the one it replaces.
LEMMA AttemptKeys ==
    ASSUME TypeInv, StoreAttempt
    PROVE  StoredKeys' = StoredKeys
  <1>1. PICK e \in store, b \in Entries : Key(b.tx) = Key(e.tx) /\ store' = (store \ {e}) \cup {b}
    BY AttemptStored
  <1> QED
    BY <1>1 DEF StoredKeys

\* Only removeArchivedTransactions makes the store forget a nonce.
LEMMA KeysStay ==
    ASSUME TypeInv, [Next]_vars
    PROVE  StoredKeys \subseteq StoredKeys' \/ RemoveArchivedTransactions
  <1>1. ASSUME NEW c \in Calls, PutTx(c)
        PROVE  StoredKeys \subseteq StoredKeys'
    BY <1>1 DEF PutTx, StoredKeys
  <1>2. ASSUME NEW key, store' = Aged(key)
        PROVE  StoredKeys \subseteq StoredKeys'
    BY <1>2, AgedStored DEF TypeInv
  <1>3. AgeRecorded \/ (\E s \in Signers : Deepen(s)) => \E key : store' = Aged(key)
    BY DEF AgeRecorded, Deepen
  <1>4. UNCHANGED store => StoredKeys' = StoredKeys
    BY DEF StoredKeys
  <1> QED
    BY <1>1, <1>2, <1>3, <1>4, StoreStep, FillStored, AttemptKeys, TimeOutStored

\* What is archived is settled, whatever a reorg did since its block was recorded.
LEMMA ArchivedSettled ==
    ASSUME TypeInv, AgesBounded, NEW e \in store, Archived(e)
    PROVE  Settled(e.tx.signer, e.tx.nonce)
  <1>1. e.tx.signer \in Signers /\ e.tx.nonce \in Nat
    BY EntryFields, TxFields DEF TypeInv, TypeOK
  <1>2. Depth(e.tx.signer, e.tx.nonce) \in Nat
    BY <1>1, DepthType
  <1> QED
    BY <1>2, TransactionManagerAssumption DEF AgesBounded, Archived, Settled, Old, Archivable

LEMMA CoveredStays ==
    ASSUME TypeInv, AgesBounded, [Next]_vars, NEW s \in Signers, NEW n \in Nat, Covered(s, n)
    PROVE  Covered(s, n)'
  <1>1. CASE Settled(s, n)
    BY <1>1, SettledStays DEF Covered
  <1>2. CASE ~Settled(s, n)
    <2>1. PICK e \in store : Key(e.tx) = <<s, n>>
      BY <1>2 DEF Covered, StoredKeys
    <2>2. ~Archived(e)
      BY <1>2, <2>1, ArchivedSettled DEF Key
    <2>3. RemoveArchivedTransactions => e \in store'
      BY <2>2 DEF RemoveArchivedTransactions
    <2>4. RemoveArchivedTransactions => <<s, n>> \in StoredKeys'
      BY <2>1, <2>3 DEF StoredKeys
    <2>5. <<s, n>> \in StoredKeys
      BY <2>1 DEF StoredKeys
    <2> QED
      BY <2>4, <2>5, KeysStay DEF Covered
  <1> QED
    BY <1>1, <1>2

LEMMA UniqueKeysKept ==
    ASSUME TypeInv, UniqueKeys, [Next]_vars
    PROVE  UniqueKeys'
  <1>1. CASE UNCHANGED store
    BY <1>1 DEF UniqueKeys
  <1>2. ASSUME NEW c \in Calls, PutTx(c)
        PROVE  UniqueKeys'
    <2>1. signed[c] \in Txs
      BY <1>2 DEF PutTx, TypeInv, TypeOK, CallsInOrder
    <2>2. CASE Key(signed[c]) \in StoredKeys
      BY <1>2, <2>2 DEF PutTx, UniqueKeys
    <2>3. CASE Key(signed[c]) \notin StoredKeys
      <3>1. store' = store \cup {NewEntry(signed[c])} /\ NewEntry(signed[c]).tx = signed[c]
        BY <1>2, <2>1, <2>3, NewEntryTypes DEF PutTx
      <3>2. \A e \in store : Key(e.tx) # Key(signed[c])
        BY <2>3 DEF StoredKeys
      <3> QED
        BY <3>1, <3>2 DEF UniqueKeys
    <2> QED
      BY <2>2, <2>3
  <1>3. CASE FillMinedBlockDetails
    BY <1>3, FillStored DEF UniqueKeys
  <1>4. CASE RemoveArchivedTransactions
    BY <1>4 DEF RemoveArchivedTransactions, UniqueKeys
  <1>5. ASSUME NEW e \in store, NEW b, store' = (store \ {e}) \cup {b}, Key(b.tx) = Key(e.tx)
        PROVE  UniqueKeys'
    BY <1>5 DEF UniqueKeys
  <1>6. StoreAttempt => UniqueKeys'
    BY <1>5, AttemptStored
  <1>7. TimeOut => UniqueKeys'
    BY <1>5, TimeOutStored
  <1>8. ASSUME NEW key, store' = Aged(key)
        PROVE  UniqueKeys'
    <2>1. Aged(key) = {IF Key(e.tx) = key /\ e.minedBlock # "none" /\ e.age < Archivable
                       THEN [e EXCEPT !.age = @ + 1] ELSE e : e \in store}
      BY DEF Aged
    <2>2. \A e \in store : [e EXCEPT !.age = @ + 1].tx = e.tx
      BY DEF TypeInv, TypeOK, Entries
    <2>3. \A f \in store' : \E e \in store :
             f.tx = e.tx /\ f = IF Key(e.tx) = key /\ e.minedBlock # "none" /\ e.age < Archivable
                                THEN [e EXCEPT !.age = @ + 1] ELSE e
      BY <1>8, <2>1, <2>2
    <2> QED
      BY <2>3 DEF UniqueKeys
  <1>9. AgeRecorded \/ (\E s \in Signers : Deepen(s)) => \E key : store' = Aged(key)
    BY DEF AgeRecorded, Deepen
  <1> QED
    BY <1>1, <1>2, <1>3, <1>4, <1>6, <1>7, <1>8, <1>9, StoreStep


\* What joins the node's pool is not mined yet, and alone with its nonce.
LEMMA AcceptedIsNext ==
    ASSUME TypeInv, PendingIsNext, NEW tx \in Txs, UNCHANGED chain, Acceptable(tx),
           mempool' = {t \in mempool : Key(t) # Key(tx)} \cup {tx}
    PROVE  PendingIsNext'
  <1>1. \A s \in Signers : MinedCount(s)' = MinedCount(s)
    BY DEF MinedCount
  <1>2. tx.nonce >= MinedCount(tx.signer) /\ tx.signer \in Signers
    BY TxFields DEF Acceptable
  <1>3. \A t \in mempool : t.signer \in Signers
    BY TxFields DEF TypeInv, TypeOK
  <1> QED
    BY <1>1, <1>2, <1>3 DEF PendingIsNext

LEMMA PendingIsNextKept ==
    ASSUME TypeInv, PendingIsNext, [Next]_vars
    PROVE  PendingIsNext'
  <1>1. \A t \in mempool : t \in Txs /\ t.signer \in Signers /\ t.nonce \in Nat
    BY TxFields DEF TypeInv, TypeOK
  <1>2. CASE UNCHANGED <<mempool, chain>>
    BY <1>2 DEF PendingIsNext, MinedCount
  <1>3. ASSUME NEW c \in Calls, BroadcastTransaction(c)
        PROVE  PendingIsNext'
    <2>1. signed[c] \in Txs /\ UNCHANGED chain
      BY <1>3 DEF BroadcastTransaction, TypeInv, TypeOK, CallsInOrder
    <2>2. \/ UNCHANGED mempool
          \/ /\ Acceptable(signed[c])
             /\ mempool' = {t \in mempool : Key(t) # Key(signed[c])} \cup {signed[c]}
      BY <1>3, BroadcastOutcome DEF BroadcastTransaction
    <2> QED
      BY <1>2, <2>1, <2>2, AcceptedIsNext
  <1>4. CASE BroadcastAttempt
    <2>1. worker.tx \in Txs /\ UNCHANGED chain
      BY <1>4 DEF BroadcastAttempt, TypeInv, TypeOK, Passes
    <2>2. \/ UNCHANGED mempool
          \/ /\ Acceptable(worker.tx)
             /\ mempool' = {t \in mempool : Key(t) # Key(worker.tx)} \cup {worker.tx}
      BY <1>4, BroadcastOutcome DEF BroadcastAttempt
    <2> QED
      BY <1>2, <2>1, <2>2, AcceptedIsNext
  <1>5. CASE Drop
    <2>1. mempool' \subseteq mempool /\ UNCHANGED chain
      BY <1>5 DEF Drop
    <2> QED
      BY <2>1 DEF PendingIsNext, MinedCount
  <1>6. ASSUME NEW s \in Signers, Mine(s)
        PROVE  PendingIsNext'
    <2>1. PICK tx \in mempool :
            /\ Key(tx) = <<s, MinedCount(s)>> /\ mempool' = mempool \ {tx}
            /\ MinedCount(s) \in Nat /\ MinedCount(s)' = MinedCount(s) + 1
            /\ \A r \in Signers \ {s} : chain'[r] = chain[r]
      BY <1>6, MineFields
    <2>2. ASSUME NEW t \in mempool'
          PROVE  t.nonce >= MinedCount(t.signer)'
      <3>1. CASE t.signer # s
        BY <1>1, <2>1, <2>2, <3>1 DEF PendingIsNext, MinedCount
      <3>2. CASE t.signer = s
        <4>1. Key(t) # Key(tx)
          BY <2>1, <2>2 DEF PendingIsNext
        <4>2. t.nonce # MinedCount(s)
          BY <2>1, <3>2, <4>1 DEF Key
        <4> QED
          BY <1>1, <2>1, <2>2, <3>2, <4>2 DEF PendingIsNext
      <3> QED
        BY <3>1, <3>2
    <2> QED
      BY <2>1, <2>2 DEF PendingIsNext
  <1>7. ASSUME NEW s \in Signers, Deepen(s)
        PROVE  PendingIsNext'
    <2>1. UNCHANGED mempool /\ \A r \in Signers : MinedCount(r)' = MinedCount(r)
      BY <1>7, DeepenFields DEF Deepen, MinedCount
    <2> QED
      BY <1>1, <2>1 DEF PendingIsNext
  <1>8. ASSUME NEW s \in Signers, Reorg(s)
        PROVE  PendingIsNext'
    <2> DEFINE n == MinedCount(s)
               tx == chain[s][n].tx
    <2>1. /\ n \in Nat \ {0}
          /\ \A r \in Signers \ {s} : chain'[r] = chain[r]
          /\ MinedCount(s)' = n \/ MinedCount(s)' = n - 1
          /\ \/ UNCHANGED mempool
             \/ /\ mempool' = {t \in mempool : Key(t) # Key(tx)} \cup {tx}
                /\ MinedCount(s)' = n - 1
      BY <1>8, ReorgFields
    <2>2. tx.signer = s /\ tx.nonce = n - 1
      BY <2>1, ChainFields DEF TypeInv
    <2> HIDE DEF tx
    <2>3. ASSUME NEW t \in mempool
          PROVE  t.nonce >= MinedCount(t.signer)'
      <3>1. CASE t.signer # s
        BY <1>1, <2>1, <3>1 DEF PendingIsNext, MinedCount
      <3>2. CASE t.signer = s
        BY <1>1, <2>1, <3>2 DEF PendingIsNext
      <3> QED
        BY <3>1, <3>2
    <2>4. \A t \in mempool' : t \in mempool \/ (t = tx /\ MinedCount(s)' = n - 1)
      BY <2>1
    <2>5. \A t \in mempool' : t.nonce >= MinedCount(t.signer)'
      BY <2>1, <2>2, <2>3, <2>4
    <2>6. \A t, u \in mempool' : Key(t) = Key(u) => t = u
      BY <2>1 DEF PendingIsNext
    <2> QED
      BY <2>5, <2>6 DEF PendingIsNext
  <1> QED
    BY <1>2, <1>3, <1>4, <1>5, <1>6, <1>7, <1>8
    DEF Next, vars, Send, Refuse, Acquire, Sign, PutTx, Pass, StartPass, FillMinedBlockDetails,
        RemoveArchivedTransactions, CountMined, LoadPending, ResendRefused, StoreAttempt,
        Crash, TimeOut, AgeRecorded

\* Where the age of an entry comes from.
LEMMA AgeMoves ==
    ASSUME TypeInv, UniqueKeys, [Next]_vars, NEW f \in store'
    PROVE  \/ \E c \in Calls : PutTx(c) /\ f = NewEntry(signed[c]) /\ signed[c] \in Txs
           \/ \E e \in store :
                LET s == e.tx.signer
                    n == e.tx.nonce IN
                /\ Key(f.tx) = Key(e.tx)
                /\ \/ f.age = e.age \/ f.age = Depth(s, n)
                   \/ /\ f.age = e.age + 1 /\ e.minedBlock # "none"
                      /\ e.age < MaxOrphanAge \/ (DeepenOf(s, n) /\ Depth(s, n)' = Depth(s, n) + 1)
  <1>1. CASE UNCHANGED store
    BY <1>1
  <1>2. ASSUME NEW c \in Calls, PutTx(c)
        PROVE  f \in store \/ (f = NewEntry(signed[c]) /\ signed[c] \in Txs)
    BY <1>2 DEF PutTx, TypeInv, TypeOK, CallsInOrder
  <1>3. CASE FillMinedBlockDetails
    <2>1. PICK e \in store : f = Filled(e) /\ f.tx = e.tx
      BY <1>3, FillStored
    <2>2. f.age = e.age \/ (IsMined(e.tx) /\ f.age = DepthOf(e.tx))
      BY <2>1, FilledTypes DEF TypeInv
    <2>3. IsMined(e.tx) => DepthOf(e.tx) = Depth(e.tx.signer, e.tx.nonce)
      BY DEF IsMined, DepthOf, Depth
    <2> QED
      BY <2>1, <2>2, <2>3
  <1>4. CASE RemoveArchivedTransactions
    BY <1>4 DEF RemoveArchivedTransactions
  <1>5. CASE StoreAttempt
    <2>1. PICK e \in store, b \in Entries :
            b.age = e.age /\ Key(b.tx) = Key(e.tx) /\ store' = (store \ {e}) \cup {b}
      BY <1>5, AttemptStored
    <2> QED
      BY <2>1
  <1>6. CASE TimeOut
    <2>1. PICK e \in store, b \in Entries :
            b.age = e.age /\ b.tx = e.tx /\ store' = (store \ {e}) \cup {b}
      BY <1>6, TimeOutStored
    <2> QED
      BY <2>1
  <1>7. CASE AgeRecorded
    <2>1. PICK e \in store : e.minedBlock # "none" /\ e.age < MaxOrphanAge /\ store' = Aged(Key(e.tx))
      BY <1>7 DEF AgeRecorded
    <2>2. PICK g \in store :
            /\ f.tx = g.tx
            /\ f.age = IF Key(g.tx) = Key(e.tx) /\ g.minedBlock # "none" /\ g.age < Archivable
                       THEN g.age + 1 ELSE g.age
      BY <2>1, AgedFields DEF TypeInv
    <2> QED
      BY <2>1, <2>2 DEF UniqueKeys
  <1>8. ASSUME NEW s \in Signers, Deepen(s)
        PROVE  \E e \in store :
                 /\ Key(f.tx) = Key(e.tx)
                 /\ \/ f.age = e.age
                    \/ /\ f.age = e.age + 1 /\ e.minedBlock # "none"
                       /\ DeepenOf(e.tx.signer, e.tx.nonce)
                       /\ Depth(e.tx.signer, e.tx.nonce)' = Depth(e.tx.signer, e.tx.nonce) + 1
    <2>1. PICK k \in 1..MinedCount(s) :
            /\ TurnsArchivable(s, k) => mutex = None
            /\ worker.at # "prune"
            /\ chain'[s][k].depth = chain[s][k].depth + 1 /\ Len(chain'[s]) = MinedCount(s)
            /\ store' = Aged(<<s, k - 1>>)
      BY <1>8, DeepenFields
    <2>2. PICK e \in store :
            /\ f.tx = e.tx
            /\ f.age = IF Key(e.tx) = <<s, k - 1>> /\ e.minedBlock # "none" /\ e.age < Archivable
                       THEN e.age + 1 ELSE e.age
      BY <2>1, AgedFields DEF TypeInv
    <2>3. CASE Key(e.tx) = <<s, k - 1>> /\ e.minedBlock # "none"
      <3>1. e.tx.signer = s /\ e.tx.nonce = k - 1 /\ MinedCount(s) \in Nat
        BY <2>3, ChainFields DEF Key, TypeInv
      <3>2. k - 1 < MinedCount(s) /\ k - 1 + 1 = k
        BY <3>1
      <3>3. Depth(s, k - 1)' = Depth(s, k - 1) + 1
        BY <2>1, <3>1, <3>2 DEF Depth, MinedCount
      <3>4. DeepenOf(s, k - 1)
        BY <1>8, <2>1, <3>2 DEF DeepenOf, Deepen
      <3> QED
        BY <2>2, <2>3, <3>1, <3>3, <3>4
    <2>4. CASE ~(Key(e.tx) = <<s, k - 1>> /\ e.minedBlock # "none")
      BY <2>2, <2>4
    <2> QED
      BY <2>3, <2>4
  <1> QED
    BY <1>1, <1>2, <1>3, <1>4, <1>5, <1>6, <1>7, <1>8, StoreStep

LEMMA AgesKept ==
    ASSUME TypeInv, TypeInv', UniqueKeys, AgesBounded, [Next]_vars
    PROVE  AgesBounded'
  <1> SUFFICES ASSUME NEW f \in store'
               PROVE  f.age <= Depth(f.tx.signer, f.tx.nonce)' + MaxOrphanAge
    BY DEF AgesBounded
  <1>1. ASSUME NEW s \in Signers, NEW n \in Nat
        PROVE  Depth(s, n) \in Nat /\ Depth(s, n)' \in Nat /\ Depth(s, n)' >= Depth(s, n)
    BY DepthMoves, DepthType
  <1>2. MaxOrphanAge \in Nat
    BY TransactionManagerAssumption DEF Old
  <1>3. ASSUME NEW c \in Calls, f = NewEntry(signed[c]), signed[c] \in Txs
        PROVE  f.age <= Depth(f.tx.signer, f.tx.nonce)' + MaxOrphanAge
    <2>1. f.age = 0 /\ f.tx.signer \in Signers /\ f.tx.nonce \in Nat
      BY <1>3, NewEntryTypes, TxFields
    <2> QED
      BY <1>1, <1>2, <2>1
  <1>4. ASSUME NEW e \in store, Key(f.tx) = Key(e.tx),
               \/ f.age = e.age \/ f.age = Depth(e.tx.signer, e.tx.nonce)
               \/ /\ f.age = e.age + 1
                  /\ \/ e.age < MaxOrphanAge
                     \/ Depth(e.tx.signer, e.tx.nonce)' = Depth(e.tx.signer, e.tx.nonce) + 1
        PROVE  f.age <= Depth(f.tx.signer, f.tx.nonce)' + MaxOrphanAge
    <2>1. e.tx.signer \in Signers /\ e.tx.nonce \in Nat /\ e.age \in Nat
      BY EntryFields, TxFields DEF TypeInv, TypeOK
    <2>2. f.tx.signer = e.tx.signer /\ f.tx.nonce = e.tx.nonce
      BY <1>4 DEF Key
    <2>3. e.age <= Depth(e.tx.signer, e.tx.nonce) + MaxOrphanAge
      BY DEF AgesBounded
    <2>4. /\ Depth(e.tx.signer, e.tx.nonce) \in Nat /\ Depth(e.tx.signer, e.tx.nonce)' \in Nat
          /\ Depth(e.tx.signer, e.tx.nonce)' >= Depth(e.tx.signer, e.tx.nonce)
      BY <1>1, <2>1
    <2>5. Depth(f.tx.signer, f.tx.nonce)' = Depth(e.tx.signer, e.tx.nonce)'
      BY <2>2 DEF Depth, MinedCount
    <2> DEFINE d == Depth(e.tx.signer, e.tx.nonce)
               d1 == Depth(e.tx.signer, e.tx.nonce)'
    <2> HIDE DEF d, d1
    <2>6. f.age <= d1 + MaxOrphanAge
      BY <1>2, <1>4, <2>1, <2>3, <2>4 DEF d, d1
    <2> QED
      BY <2>5, <2>6 DEF d1
  <1> QED
    BY <1>3, <1>4, AgeMoves


LEMMA AllCoveredKept ==
    ASSUME TypeInv, AgesBounded, AllCovered, NothingNew, [Next]_vars
    PROVE  AllCovered'
  <1> SUFFICES ASSUME NEW t \in Everywhere'
               PROVE  Covered(t.signer, t.nonce)'
    BY DEF AllCovered
  <1>1. ASSUME NEW u \in Everywhere, Key(t) = Key(u)
        PROVE  Covered(t.signer, t.nonce)'
    <2>1. u.signer \in Signers /\ u.nonce \in Nat /\ t.signer = u.signer /\ t.nonce = u.nonce
      BY <1>1, EverywhereTxs, TxFields DEF TypeInv, Key
    <2>2. Covered(u.signer, u.nonce)
      BY DEF AllCovered
    <2>3. Covered(u.signer, u.nonce)'
      BY <2>1, <2>2, CoveredStays
    <2> QED
      BY <2>1, <2>3 DEF Covered, StoredKeys, Settled, Depth, MinedCount
  <1>2. ASSUME NEW c \in Calls, PutTx(c), t = signed[c], Key(t) \notin StoredKeys
        PROVE  Covered(t.signer, t.nonce)'
    <2>1. signed[c] \in Txs
      BY <1>2 DEF PutTx, TypeInv, TypeOK, CallsInOrder
    <2>2. NewEntry(t) \in store' /\ NewEntry(t).tx = t /\ Key(t) = <<t.signer, t.nonce>>
      BY <1>2, <2>1, NewEntryTypes DEF PutTx, Key
    <2>3. <<t.signer, t.nonce>> \in StoredKeys'
      BY <2>2 DEF StoredKeys
    <2> QED
      BY <2>3 DEF Covered
  <1> QED
    BY <1>1, <1>2 DEF NothingNew

\* A call that finds its nonce free in the store is the first one with that nonce.
LEMMA OneCallKept ==
    ASSUME TypeInv, AllCovered, SignedInTime, OneCall, NothingNew
    PROVE  OneCall'
  <1> SUFFICES ASSUME NEW t \in Everywhere', NEW u \in Everywhere', Key(t) = Key(u)
               PROVE  t.call = u.call
    BY DEF OneCall, Key
  <1>1. ASSUME NEW c \in Calls, PutTx(c), Key(signed[c]) \notin StoredKeys,
               NEW v \in Everywhere, Key(v) = Key(signed[c])
        PROVE  FALSE
    <2>1. v.signer = signed[c].signer /\ v.nonce = signed[c].nonce
      BY <1>1 DEF Key
    <2>2. ~Settled(signed[c].signer, signed[c].nonce)
      BY <1>1 DEF SignedInTime, PutTx
    <2>3. Covered(v.signer, v.nonce)
      BY DEF AllCovered
    <2> QED
      BY <1>1, <2>1, <2>2, <2>3 DEF Covered, Key
  <1>2. ASSUME NEW c \in Calls, NEW d \in Calls, PutTx(c), PutTx(d)
        PROVE  c = d
    BY <1>2 DEF PutTx, TypeInv, CallsInOrder
  <1>3. \/ \E v \in Everywhere : Key(t) = Key(v) /\ t.call = v.call
        \/ \E c \in Calls : PutTx(c) /\ t = signed[c] /\ Key(t) \notin StoredKeys
    BY DEF NothingNew
  <1>4. \/ \E v \in Everywhere : Key(u) = Key(v) /\ u.call = v.call
        \/ \E c \in Calls : PutTx(c) /\ u = signed[c] /\ Key(u) \notin StoredKeys
    BY DEF NothingNew
  <1>5. CASE (\E v \in Everywhere : Key(t) = Key(v) /\ t.call = v.call)
             /\ (\E v \in Everywhere : Key(u) = Key(v) /\ u.call = v.call)
    BY <1>5 DEF OneCall
  <1> QED
    BY <1>1, <1>2, <1>3, <1>4, <1>5

\* A call is signed since an earlier step, or by this one.
LEMMA SignedStep ==
    ASSUME TypeInv, [Next]_vars, NEW c \in Calls, pc'[c] = "signed"
    PROVE  Sign(c) \/ (pc[c] = "signed" /\ signed'[c] = signed[c])
  <1>1. ASSUME NEW d \in Calls, Send(d)
        PROVE  Sign(c) \/ (pc[c] = "signed" /\ signed'[c] = signed[c])
    <2>1. CASE d = c
      BY <1>1, <2>1 DEF Send, Refuse, Acquire, PutTx, BroadcastTransaction, TypeInv, TypeOK
    <2>2. CASE d # c
      BY <1>1, <2>2 DEF Send, Refuse, Acquire, Sign, PutTx, BroadcastTransaction, TypeInv, TypeOK
    <2> QED
      BY <2>1, <2>2
  <1>2. Crash => pc'[c] # "signed"
    BY DEF Crash, TypeInv, TypeOK
  <1>3. ~(\E d \in Calls : Send(d)) /\ ~Crash => UNCHANGED <<pc, signed>>
    BY DEF Next, vars, Pass, StartPass, FillMinedBlockDetails, RemoveArchivedTransactions,
       CountMined, LoadPending, ResendRefused, StoreAttempt, BroadcastAttempt, Drop, TimeOut,
       AgeRecorded, Mine, Deepen, Reorg
  <1> QED
    BY <1>1, <1>2, <1>3

LEMMA SignedTx ==
    ASSUME TypeInv, NEW c \in Calls, pc[c] = "signed"
    PROVE  /\ signed[c] \in Txs /\ signed[c].signer \in Signers /\ signed[c].nonce \in Nat
           /\ Key(signed[c]) = <<signed[c].signer, signed[c].nonce>>
           /\ mutex = c /\ mutex # None /\ \A d \in Calls : pc[d] = "signed" => d = c
  <1>1. signed[c] \in Txs
    BY DEF TypeInv, TypeOK, CallsInOrder
  <1> QED
    BY <1>1, TxFields, TransactionManagerAssumption DEF TypeInv, CallsInOrder

\* What Sign(c) leaves: a nonce that nobody settled, above covered ones.
LEMMA SignedFree ==
    ASSUME TypeInv, AllCovered, NoGaps, NEW c \in Calls, Sign(c)
    PROVE  \E n \in Nat, s \in Signers :
             /\ signed'[c].signer = s /\ signed'[c].nonce = n /\ Key(signed'[c]) = <<s, n>>
             /\ nonces' = [nonces EXCEPT ![s] = n + 1]
             /\ pc'[c] = "signed" /\ UNCHANGED <<chain, store>>
             /\ ~Settled(s, n)
             /\ \A m \in 0..n - 1 : Covered(s, m)
             /\ \A d \in Calls : pc[d] # "signed"
  <1>1. PICK answer \in Nat, offer \in Offers, n \in Nat :
          LET s == SignerOf[c]
              tx == [signer |-> s, nonce |-> n, call |-> c, fee |-> offer[1], tip |-> offer[2]] IN
          /\ SettledCount(s) <= answer /\ answer <= PendingCount(s)
          /\ n = IF answer > nonces[s] THEN answer ELSE nonces[s]
          /\ n <= Handed
          /\ s \in Signers /\ tx \in Txs /\ tx.tip <= tx.fee
          /\ signed' = [signed EXCEPT ![c] = tx]
          /\ nonces' = [nonces EXCEPT ![s] = n + 1]
          /\ Handed' = Handed + 1 /\ n + 1 \in Nonces
    BY SignedNonce
  <1> DEFINE s == SignerOf[c]
  <1>2. s \in Signers /\ nonces' = [nonces EXCEPT ![s] = n + 1] /\ nonces[s] \in Nat
    BY <1>1, HandedType DEF TypeInv, TypeOK, Nonces
  <1>3. signed'[c].signer = s /\ signed'[c].nonce = n
    BY <1>1 DEF TypeInv, TypeOK
  <1>4. /\ pc[c] = "locked" /\ pc'[c] = "signed" /\ UNCHANGED <<chain, store>>
    BY DEF Sign, TypeInv, TypeOK
  <1>5. \A d \in Calls : pc[d] # "signed"
    BY <1>4 DEF TypeInv, CallsInOrder
  <1>6. ~Settled(s, n)
    <2>1. n >= SettledCount(s)
      BY <1>1, <1>2, SettledBelowCount
    <2> QED
      BY <1>2, <2>1, SettledBelowCount
  <1>7. ASSUME NEW m \in 0..n - 1
        PROVE  Covered(s, m)
    <2>1. CASE m < nonces[s]
      BY <1>2, <1>5, <2>1 DEF NoGaps
    <2>2. CASE m < MinedCount(s)
      <3>1. m + 1 \in 1..MinedCount(s)
        BY <1>2, <2>2, ChainFields DEF TypeInv
      <3>2. chain[s][m + 1].tx \in Everywhere /\ chain[s][m + 1].tx.signer = s
            /\ chain[s][m + 1].tx.nonce = m
        BY <1>2, <3>1, ChainFields DEF TypeInv, Everywhere
      <3> QED
        BY <3>2 DEF AllCovered
    <2>3. CASE ~(m < nonces[s]) /\ ~(m < MinedCount(s))
      <3>1. m \in MinedCount(s)..PendingCount(s) - 1
        BY <1>1, <1>2, <2>3, PendingCountBounds, MinedBelowHanded
      <3>2. <<s, m>> \in MempoolKeys
        BY <1>2, <3>1, PendingCountBounds
      <3>3. PICK t \in mempool : Key(t) = <<s, m>>
        BY <3>2 DEF MempoolKeys
      <3> QED
        BY <3>3 DEF AllCovered, Everywhere, Key
    <2> QED
      BY <2>1, <2>2, <2>3
  <1> QED
    BY <1>2, <1>3, <1>4, <1>5, <1>6, <1>7 DEF Key


\* A signed call stays so until it is inserted, or the process is gone.
LEMMA SignedLeaves ==
    ASSUME TypeInv, [Next]_vars, NEW c \in Calls, pc[c] = "signed"
    PROVE  (pc'[c] = "signed" /\ signed'[c] = signed[c]) \/ PutTx(c) \/ Crash
  <1>1. ASSUME NEW d \in Calls, Send(d)
        PROVE  (pc'[c] = "signed" /\ signed'[c] = signed[c]) \/ PutTx(c)
    <2>1. CASE d = c
      BY <1>1, <2>1 DEF Send, Refuse, Acquire, Sign, BroadcastTransaction
    <2>2. CASE d # c
      BY <1>1, <2>2 DEF Send, Refuse, Acquire, Sign, PutTx, BroadcastTransaction, TypeInv, TypeOK
    <2> QED
      BY <2>1, <2>2
  <1>2. ~(\E d \in Calls : Send(d)) /\ ~Crash => UNCHANGED <<pc, signed>>
    BY DEF Next, vars, Pass, StartPass, FillMinedBlockDetails, RemoveArchivedTransactions,
       CountMined, LoadPending, ResendRefused, StoreAttempt, BroadcastAttempt, Drop, TimeOut,
       AgeRecorded, Mine, Deepen, Reorg
  <1> QED
    BY <1>1, <1>2

LEMMA NoGapsKept ==
    ASSUME TypeInv, TypeInv', UniqueKeys, AgesBounded, AllCovered, NoGaps, [Next]_vars
    PROVE  NoGaps'
  <1>1. ASSUME NEW f \in store', NEW n \in 0..f.tx.nonce - 1
        PROVE  Covered(f.tx.signer, n)'
    <2>1. ASSUME NEW e \in store, Key(f.tx) = Key(e.tx)
          PROVE  Covered(f.tx.signer, n)'
      <3>1. e.tx.signer \in Signers /\ e.tx.nonce \in Nat
        BY EntryFields, TxFields DEF TypeInv, TypeOK
      <3>2. f.tx.signer = e.tx.signer /\ f.tx.nonce = e.tx.nonce
        BY <2>1 DEF Key
      <3>3. n \in Nat /\ Covered(e.tx.signer, n)
        BY <3>1, <3>2 DEF NoGaps
      <3>4. Covered(e.tx.signer, n)'
        BY <3>1, <3>3, CoveredStays
      <3> QED
        BY <3>2, <3>4 DEF Covered, StoredKeys, Settled, Depth, MinedCount
    <2>2. ASSUME NEW c \in Calls, PutTx(c), f = NewEntry(signed[c]), signed[c] \in Txs
          PROVE  Covered(f.tx.signer, n)'
      <3>1. f.tx = signed[c] /\ signed[c].signer \in Signers /\ signed[c].nonce \in Nat
        BY <2>2, NewEntryTypes, TxFields
      <3>2. PICK s \in Signers : s = signed[c].signer
        BY <3>1
      <3>3. n \in Nat /\ Covered(s, n)
        BY <2>2, <3>1, <3>2 DEF NoGaps, PutTx
      <3>4. Covered(s, n)'
        BY <3>3, CoveredStays
      <3>5. f.tx.signer = s
        BY <3>1, <3>2
      <3> QED
        BY <3>4, <3>5 DEF Covered, StoredKeys, Settled, Depth, MinedCount
    <2> QED
      BY <2>1, <2>2, AgeMoves
  <1>2. ASSUME NEW c \in Calls, pc'[c] = "signed", NEW n \in 0..signed'[c].nonce - 1
        PROVE  Covered(signed[c].signer, n)'
    <2>1. CASE Sign(c)
      <3>1. PICK k \in Nat, s \in Signers :
              /\ signed'[c].signer = s /\ signed'[c].nonce = k
              /\ \A m \in 0..k - 1 : Covered(s, m)
        BY <2>1, SignedFree
      <3>2. n \in Nat /\ Covered(s, n)
        BY <3>1
      <3>3. Covered(s, n)'
        BY <3>2, CoveredStays
      <3> QED
        BY <3>1, <3>3 DEF Covered, StoredKeys, Settled, Depth, MinedCount
    <2>2. CASE pc[c] = "signed" /\ signed'[c] = signed[c]
      <3>1. signed[c].signer \in Signers /\ signed[c].nonce \in Nat
        BY <2>2, SignedTx
      <3>2. PICK s \in Signers : s = signed[c].signer
        BY <3>1
      <3>3. n \in Nat /\ Covered(s, n)
        BY <2>2, <3>1, <3>2 DEF NoGaps
      <3>4. Covered(s, n)'
        BY <3>3, CoveredStays
      <3>5. signed'[c].signer = s
        BY <2>2, <3>2
      <3> QED
        BY <3>4, <3>5 DEF Covered, StoredKeys, Settled, Depth, MinedCount
    <2> QED
      BY <1>2, <2>1, <2>2, SignedStep
  <1>3. ASSUME NEW s \in Signers, NEW n \in 0..nonces'[s] - 1
        PROVE  \/ Covered(s, n)'
               \/ \E c \in Calls : pc'[c] = "signed" /\ Key(signed'[c]) = <<s, n>>
    <2>1. ASSUME n < nonces[s], ~Crash
          PROVE  \/ Covered(s, n)'
                 \/ \E c \in Calls : pc'[c] = "signed" /\ Key(signed'[c]) = <<s, n>>
      <3>1. nonces[s] \in Nat /\ n \in Nat
        BY <2>1, HandedType DEF TypeInv, TypeOK, Nonces
      <3>2. CASE Covered(s, n)
        BY <3>1, <3>2, CoveredStays
      <3>3. CASE \E c \in Calls : pc[c] = "signed" /\ Key(signed[c]) = <<s, n>>
        <4>1. PICK c \in Calls : pc[c] = "signed" /\ Key(signed[c]) = <<s, n>>
          BY <3>3
        <4>2. ASSUME PutTx(c)
              PROVE  <<s, n>> \in StoredKeys'
          <5>1. signed[c] \in Txs
            BY <4>1, SignedTx
          <5>2. CASE Key(signed[c]) \in StoredKeys
            BY <4>1, <4>2, <5>2 DEF PutTx, StoredKeys
          <5>3. CASE Key(signed[c]) \notin StoredKeys
            BY <4>1, <4>2, <5>1, <5>3, NewEntryTypes DEF PutTx, StoredKeys
          <5> QED
            BY <5>2, <5>3
        <4> QED
          BY <2>1, <4>1, <4>2, SignedLeaves DEF Covered
      <3> QED
        BY <2>1, <3>1, <3>2, <3>3 DEF NoGaps
    <2>2. CASE UNCHANGED nonces
      <3>1. n < nonces[s]
        BY <2>2, HandedType DEF TypeInv, TypeOK, Nonces
      <3>2. Crash => nonces'[s] = 0
        BY DEF Crash
      <3> QED
        BY <2>1, <3>1, <3>2
    <2>3. CASE Crash
      BY <2>3 DEF Crash
    <2>4. ASSUME NEW c \in Calls, Sign(c)
          PROVE  \/ Covered(s, n)'
                 \/ \E d \in Calls : pc'[d] = "signed" /\ Key(signed'[d]) = <<s, n>>
      <3>1. PICK k \in Nat, r \in Signers :
              /\ Key(signed'[c]) = <<r, k>> /\ pc'[c] = "signed"
              /\ nonces' = [nonces EXCEPT ![r] = k + 1]
              /\ \A m \in 0..k - 1 : Covered(r, m)
              /\ \A d \in Calls : pc[d] # "signed"
        BY <2>4, SignedFree
      <3>2. CASE r = s
        <4>1. nonces'[s] = k + 1 /\ n \in Nat /\ n <= k
          BY <3>1, <3>2 DEF TypeInv, TypeOK
        <4>2. CASE n = k
          BY <3>1, <3>2, <4>2
        <4>3. CASE n # k
          <5>1. Covered(s, n)
            BY <3>1, <3>2, <4>1, <4>3
          <5> QED
            BY <4>1, <5>1, CoveredStays
        <4> QED
          BY <4>2, <4>3
      <3>3. CASE r # s
        <4>1. nonces'[s] = nonces[s] /\ nonces[s] \in Nat
          BY <3>1, <3>3, HandedType DEF TypeInv, TypeOK, Nonces
        <4>2. n \in Nat /\ Covered(s, n)
          BY <3>1, <4>1 DEF NoGaps
        <4> QED
          BY <4>2, CoveredStays
      <3> QED
        BY <3>2, <3>3
    <2>5. UNCHANGED nonces \/ Crash \/ \E c \in Calls : Sign(c)
      BY DEF Next, vars, Send, Refuse, Acquire, PutTx, BroadcastTransaction, Pass, StartPass,
         FillMinedBlockDetails, RemoveArchivedTransactions, CountMined, LoadPending,
         ResendRefused, StoreAttempt, BroadcastAttempt, Drop, TimeOut, AgeRecorded, Mine,
         Deepen, Reorg
    <2> QED
      BY <2>2, <2>3, <2>4, <2>5
  <1> QED
    BY <1>1, <1>2, <1>3 DEF NoGaps


\* A nonce that settles now is stored: it is mined, and what is mined is covered.
LEMMA SettlesStored ==
    ASSUME TypeInv, AllCovered, [Next]_vars, NEW s \in Signers, NEW n \in Nat,
           ~Settled(s, n), Settled(s, n)'
    PROVE  DeepenOf(s, n) /\ <<s, n>> \in StoredKeys /\ <<s, n>> \in StoredKeys'
  <1>1. DeepenOf(s, n) /\ n < MinedCount(s)
    BY DepthMoves DEF Settled
  <1>2. n + 1 \in 1..MinedCount(s)
    BY <1>1, ChainFields DEF TypeInv
  <1>3. /\ chain[s][n + 1].tx \in Everywhere
        /\ chain[s][n + 1].tx.signer = s /\ chain[s][n + 1].tx.nonce = n
    BY <1>2, ChainFields DEF TypeInv, Everywhere
  <1>4. <<s, n>> \in StoredKeys
    BY <1>3 DEF AllCovered, Covered
  <1> QED
    BY <1>1, <1>4, AgedStored DEF DeepenOf, TypeInv

LEMMA SignedInTimeKept ==
    ASSUME TypeInv, TypeInv', UniqueKeys, AgesBounded, AllCovered, NoGaps, SignedInTime,
           [Next]_vars
    PROVE  SignedInTime'
  <1> SUFFICES ASSUME NEW c \in Calls, pc'[c] = "signed", NEW s \in Signers, NEW n \in Nat,
                      signed'[c].signer = s, signed'[c].nonce = n
               PROVE  /\ Settled(s, n)' => <<s, n>> \in StoredKeys'
                      /\ Depth(s, n)' < Archivable
                      /\ \A f \in store' : Key(f.tx) = <<s, n>> => f.age < Archivable
    <2>1. ASSUME NEW c \in Calls, pc'[c] = "signed"
          PROVE  \E s \in Signers, n \in Nat : signed'[c].signer = s /\ signed'[c].nonce = n
      BY <2>1, TxFields DEF TypeInv, TypeOK, CallsInOrder
    <2> QED
      BY <2>1 DEF SignedInTime, Settled, Depth, MinedCount, StoredKeys, Key
  <1>1. Depth(s, n) \in Nat /\ Depth(s, n)' \in Nat
    BY DepthMoves, DepthType
  <1>2. CASE Sign(c)
    <2>1. ~Settled(s, n) /\ UNCHANGED <<chain, store>>
      BY <1>2, SignedFree
    <2>2. Depth(s, n) = 0 /\ Depth(s, n)' = 0 /\ ~Settled(s, n)'
      BY <2>1, DepthType DEF Depth, Settled, MinedCount
    <2>3. ASSUME NEW e \in store, Key(e.tx) = <<s, n>>
          PROVE  e.age < Archivable
      <3>1. e.tx.signer = s /\ e.tx.nonce = n /\ e.age \in Nat
        BY <2>3, EntryFields DEF Key, TypeInv, TypeOK
      <3>2. e.age <= 0 + MaxOrphanAge
        BY <2>2, <3>1 DEF AgesBounded
      <3> QED
        BY <3>1, <3>2, TransactionManagerAssumption DEF Old, Archivable
    <2> QED
      BY <2>1, <2>2, <2>3 DEF Archivable
  <1>3. CASE pc[c] = "signed" /\ signed'[c] = signed[c]
    <2>1. /\ signed[c].signer = s /\ signed[c].nonce = n /\ Key(signed[c]) = <<s, n>>
          /\ mutex # None
      BY <1>3, SignedTx
    <2>2. /\ Settled(s, n) => <<s, n>> \in StoredKeys
          /\ Depth(s, n) < Archivable
          /\ \A e \in store : Key(e.tx) = <<s, n>> => e.age < Archivable
      BY <1>3, <2>1 DEF SignedInTime
    <2>3. DeepenOf(s, n) =>
            /\ ~(n + 1 \in 1..MinedCount(s) /\ chain[s][n + 1].depth = Old)
            /\ \A e \in store : Key(e.tx) = <<s, n>> /\ e.minedBlock # "none" => e.age # Old
      <3>1. n + 1 - 1 = n
        OBVIOUS
      <3> QED
        BY <2>1, <3>1 DEF DeepenOf, TurnsArchivable
    <2>4. Depth(s, n)' < Archivable
      <3>1. CASE Depth(s, n)' = Depth(s, n)
        BY <2>2, <3>1
      <3>2. CASE DeepenOf(s, n) /\ n < MinedCount(s) /\ Depth(s, n)' = Depth(s, n) + 1
                 /\ Depth(s, n) = chain[s][n + 1].depth
        <4>1. n + 1 \in 1..MinedCount(s)
          BY <3>2, ChainFields DEF TypeInv
        <4>2. Depth(s, n) # Old
          BY <2>3, <3>2, <4>1
        <4> QED
          BY <1>1, <2>2, <3>2, <4>2 DEF Old, Archivable
      <3> QED
        BY <3>1, <3>2, DepthMoves
    <2>5. Settled(s, n)' => <<s, n>> \in StoredKeys'
      <3>1. CASE ~Settled(s, n)
        BY <3>1, SettlesStored
      <3>2. CASE Settled(s, n)
        <4>1. PICK e \in store : Key(e.tx) = <<s, n>>
          BY <2>2, <3>2 DEF StoredKeys
        <4>2. ~Archived(e)
          BY <2>2, <4>1 DEF Archived, Archivable
        <4>3. RemoveArchivedTransactions => <<s, n>> \in StoredKeys'
          BY <4>1, <4>2 DEF RemoveArchivedTransactions, StoredKeys
        <4> QED
          BY <2>2, <3>2, <4>3, KeysStay
      <3> QED
        BY <3>1, <3>2
    <2>6. ASSUME NEW f \in store', Key(f.tx) = <<s, n>>
          PROVE  f.age < Archivable
      <3>1. ASSUME NEW d \in Calls, f = NewEntry(signed[d]), signed[d] \in Txs
            PROVE  f.age < Archivable
        BY <3>1, NewEntryTypes DEF Archivable
      <3>2. ASSUME NEW e \in store, Key(f.tx) = Key(e.tx),
                   \/ f.age = e.age \/ f.age = Depth(e.tx.signer, e.tx.nonce)
                   \/ /\ f.age = e.age + 1 /\ e.minedBlock # "none"
                      /\ e.age < MaxOrphanAge \/ DeepenOf(e.tx.signer, e.tx.nonce)
            PROVE  f.age < Archivable
        <4>1. /\ Key(e.tx) = <<s, n>> /\ e.tx.signer = s /\ e.tx.nonce = n
              /\ e.age \in Nat /\ e.age < Archivable
          BY <2>2, <2>6, <3>2, EntryFields DEF Key, TypeInv, TypeOK
        <4>2. DeepenOf(s, n) /\ e.minedBlock # "none" => e.age # Old
          BY <2>3, <4>1
        <4>3. e.age < MaxOrphanAge => e.age + 1 <= Old
          BY <4>1, TransactionManagerAssumption DEF Old
        <4> QED
          BY <2>2, <3>2, <4>1, <4>2, <4>3 DEF Old, Archivable
      <3> QED
        BY <3>1, <3>2, AgeMoves
    <2> QED
      BY <2>4, <2>5, <2>6
  <1> QED
    BY <1>2, <1>3, SignedStep

\* The pass keeps what it read, or has just asked the node for the nonce.
LEMMA LoadStep ==
    ASSUME TypeInv, [Next]_vars, worker'.at = "load"
    PROVE  CountMined \/ (UNCHANGED worker /\ ~RemoveArchivedTransactions)
  <1>1. CASE UNCHANGED worker
    BY <1>1 DEF RemoveArchivedTransactions
  <1>2. worker'.at = "load" => Idle.at # "load"
    BY DEF Idle
  <1>3. worker.at \in {"count", "load", "resend", "send"} => NextTurn.at \in {"count", "idle"}
    BY NextTurnTypes DEF TypeInv
  <1>4. ASSUME LoadPending \/ ResendRefused \/ BroadcastAttempt
        PROVE  FALSE
    <2>1. worker'.at # "load" \/ (worker.at = "resend" /\ worker'.at = worker.at)
      <3>1. CASE LoadPending
        BY <1>2, <1>3, <3>1 DEF LoadPending
      <3>2. CASE ResendRefused
        <4>1. \/ worker' = Idle \/ worker' = NextTurn
              \/ worker' = [worker EXCEPT !.todo = worker.todo \ {NextToResend.tx.nonce}]
          BY <3>2 DEF ResendRefused
        <4>2. worker.at = "resend" /\ worker \in Passes
          BY <3>2 DEF ResendRefused, TypeInv, TypeOK
        <4>3. ASSUME NEW x
              PROVE  [worker EXCEPT !.todo = x].at = worker.at
          BY <4>2 DEF Passes
        <4> QED
          BY <1>2, <1>3, <4>1, <4>2, <4>3
      <3>3. CASE BroadcastAttempt
        <4>1. worker.at = "send" /\ worker' \in {AfterResend, Idle}
          BY <3>3 DEF BroadcastAttempt
        <4>2. AfterResend.at \in {"count", "idle", "resend"}
          BY <1>3, <4>1 DEF AfterResend
        <4> QED
          BY <1>2, <4>1, <4>2
      <3> QED
        BY <1>4, <3>1, <3>2, <3>3
    <2> QED
      BY <2>1
  <1>5. Crash => worker'.at # "load"
    BY DEF Crash, Idle
  <1>6. StartPass \/ FillMinedBlockDetails \/ RemoveArchivedTransactions \/ StoreAttempt
        => worker'.at # "load"
    BY DEF StartPass, FillMinedBlockDetails, RemoveArchivedTransactions, StoreAttempt
  <1>7. ~Pass /\ ~Crash => UNCHANGED worker
    BY DEF Next, vars, Send, Refuse, Acquire, Sign, PutTx, BroadcastTransaction, Drop, TimeOut,
       AgeRecorded, Mine, Deepen, Reorg
  <1> QED
    BY <1>1, <1>4, <1>5, <1>6, <1>7 DEF Pass

LEMMA LoadInTimeKept ==
    ASSUME TypeInv, AllCovered, LoadInTime, [Next]_vars
    PROVE  LoadInTime'
  <1> SUFFICES ASSUME worker'.at = "load"
               PROVE  LoadInTime'
    BY DEF LoadInTime
  <1>1. CASE CountMined
    <2>1. SignerOrder[worker.turn] \in Signers
      BY <1>1, TurnOfSigner DEF CountMined, TypeInv
    <2>2. PICK s \in Signers : s = SignerOrder[worker.turn]
      BY <2>1
    <2>3. PICK n \in SettledCount(s)..MinedCount(s) :
            worker' = [at |-> "load", turn |-> worker.turn, nonce |-> n]
      BY <1>1, <2>2 DEF CountMined
    <2>4. n \in Nat /\ ~Settled(s, n)
      BY <2>3, SettledBelowCount, MinedBelowHanded
    <2>5. UNCHANGED chain
      BY <1>1 DEF CountMined
    <2>6. ~Settled(s, n)'
      BY <2>4, <2>5 DEF Settled, Depth, MinedCount
    <2>7. SignerOrder[worker'.turn] = s /\ worker'.nonce = n
      BY <2>2, <2>3
    <2> QED
      BY <2>6, <2>7 DEF LoadInTime, Settled, Depth, MinedCount
  <1>2. CASE UNCHANGED worker /\ ~RemoveArchivedTransactions
    <2>1. SignerOrder[worker.turn] \in Signers /\ worker.nonce \in Nat /\ worker.at = "load"
      <3>1. worker.at = "load"
        BY <1>2
      <3> QED
        BY <3>1, TurnOfSigner DEF TypeInv, TypeOK, Passes
    <2>2. PICK s \in Signers, n \in Nat : s = SignerOrder[worker.turn] /\ n = worker.nonce
      BY <2>1
    <2>3. Settled(s, n) => <<s, n>> \in StoredKeys'
      BY <1>2, <2>1, <2>2, KeysStay DEF LoadInTime
    <2>4. Settled(s, n)' => <<s, n>> \in StoredKeys'
      BY <2>3, SettlesStored
    <2>5. SignerOrder[worker'.turn] = s /\ worker'.nonce = n
      BY <1>2, <2>2
    <2> QED
      BY <2>4, <2>5 DEF LoadInTime, Settled, Depth, MinedCount, StoredKeys
  <1> QED
    BY <1>1, <1>2, LoadStep


\* While the pass has a transaction to resend, the store changes none of its keys.
LEMMA ResendStored ==
    ASSUME TypeInv, [Next]_vars, worker.at = "resend", UNCHANGED worker, NEW f \in store',
           f.tx.signer = SignerOrder[worker.turn], f.tx.nonce \in worker.todo
    PROVE  \E e \in store : e.tx = f.tx
  <1>1. Key(f.tx) \in StoredKeys
    BY DEF TypeInv, PassStored, Key
  <1>2. ASSUME NEW c \in Calls, PutTx(c)
        PROVE  f \in store
    <2>1. signed[c] \in Txs
      BY <1>2 DEF PutTx, TypeInv, TypeOK, CallsInOrder
    <2> QED
      BY <1>1, <1>2, <2>1, NewEntryTypes DEF PutTx
  <1>3. ~FillMinedBlockDetails /\ ~RemoveArchivedTransactions /\ ~StoreAttempt
    BY DEF FillMinedBlockDetails, RemoveArchivedTransactions, StoreAttempt
  <1>4. TimeOut => \E e \in store : e.tx = f.tx
    BY TimeOutStored
  <1>5. ASSUME NEW key, store' = Aged(key)
        PROVE  \E e \in store : e.tx = f.tx
    BY <1>5, AgedFields DEF TypeInv
  <1>6. AgeRecorded \/ (\E s \in Signers : Deepen(s)) => \E key : store' = Aged(key)
    BY DEF AgeRecorded, Deepen
  <1> QED
    BY <1>2, <1>3, <1>4, <1>5, <1>6, StoreStep

\* The pass holds a price for the oldest transaction since an earlier step, skipped
\* one, or has just made the price.
LEMMA PriceStep ==
    ASSUME TypeInv, [Next]_vars, worker'.at = "resend", "oldest" \in DOMAIN worker'
    PROVE  \/ UNCHANGED worker
           \/ LoadPending /\ worker.at = "load" /\ BoostIsDue
           \/ /\ ResendRefused /\ worker.at = "resend" /\ "oldest" \in DOMAIN worker
              /\ ~Underpriced(NextToResend.tx) /\ worker'.price = worker.price
  <1>1. Idle.at = "idle"
    BY DEF Idle
  <1>2. worker.at \in {"count", "load", "resend", "send"} => NextTurn.at \in {"count", "idle"}
    BY NextTurnTypes DEF TypeInv
  <1>3. CASE LoadPending
    BY <1>1, <1>2, <1>3 DEF LoadPending
  <1>4. CASE ResendRefused
    <2>1. worker.at = "resend" /\ worker \in Passes
      BY <1>4 DEF ResendRefused, TypeInv, TypeOK
    <2> DEFINE rest == worker.todo \ {NextToResend.tx.nonce}
    <2>2. ~Underpriced(NextToResend.tx) /\ worker' = [worker EXCEPT !.todo = rest]
      BY <1>1, <1>2, <1>4, <2>1 DEF ResendRefused
    <2> HIDE DEF rest
    <2>3. worker'.price = worker.price /\ DOMAIN worker' = DOMAIN worker
      BY <2>1, <2>2 DEF Passes
    <2> QED
      BY <1>4, <2>1, <2>2, <2>3
  <1>5. CASE BroadcastAttempt
    <2>1. worker.at = "send" /\ worker' \in {AfterResend, Idle}
      BY <1>5 DEF BroadcastAttempt
    <2>2. worker' = [at |-> "resend", turn |-> worker.turn, price |-> worker.price,
                     todo |-> worker.todo]
      BY <1>1, <1>2, <2>1 DEF AfterResend
    <2> QED
      BY <2>2
  <1>6. Crash => worker'.at # "resend"
    BY <1>1 DEF Crash
  <1>7. StartPass \/ FillMinedBlockDetails \/ RemoveArchivedTransactions \/ StoreAttempt \/ CountMined
        => worker'.at # "resend"
    BY DEF StartPass, FillMinedBlockDetails, RemoveArchivedTransactions, StoreAttempt, CountMined
  <1>8. ~Pass /\ ~Crash => UNCHANGED worker
    BY DEF Next, vars, Send, Refuse, Acquire, Sign, PutTx, BroadcastTransaction, Drop, TimeOut,
       AgeRecorded, Mine, Deepen, Reorg
  <1> QED
    BY <1>3, <1>4, <1>5, <1>6, <1>7, <1>8 DEF Pass

LEMMA PriceCoversKept ==
    ASSUME TypeInv, UniqueKeys, PriceCovers, [Next]_vars
    PROVE  PriceCovers'
  <1> DEFINE Cap == [fee |-> MaxMaxFeePerGas, tip |-> MaxMaxFeePerGas]
  <1> SUFFICES ASSUME worker'.at = "resend", "oldest" \in DOMAIN worker', worker'.price # Cap,
                      NEW f \in store',
                      f.tx.signer = SignerOrder[worker'.turn], f.tx.nonce \in worker'.todo,
                      \A n \in worker'.todo : f.tx.nonce <= n
               PROVE  /\ f.tx.fee <= worker'.price.fee /\ f.tx.tip <= worker'.price.tip
                      /\ f.tx.fee < worker'.price.fee \/ f.tx.tip < worker'.price.tip
    BY DEF PriceCovers, Underpriced
  <1>1. CASE UNCHANGED worker
    <2>1. worker.at = "resend" /\ "oldest" \in DOMAIN worker /\ worker.price # Cap
      BY <1>1
    <2>2. PICK e \in store : e.tx = f.tx
      BY <1>1, <2>1, ResendStored
    <2>3. e.tx.fee <= worker.price.fee /\ e.tx.tip <= worker.price.tip /\ Underpriced(e.tx)
      BY <1>1, <2>1, <2>2 DEF PriceCovers
    <2> QED
      BY <1>1, <2>2, <2>3 DEF Underpriced
  <1>2. CASE LoadPending /\ worker.at = "load" /\ BoostIsDue
    <2>1. PICK p \in Prices :
            /\ OldestPending \in PendingEntries /\ OldestPending.tx.nonce = worker.nonce
            /\ \A g \in PendingEntries : worker.nonce <= g.tx.nonce
            /\ OldestPending.tx.fee <= p.fee /\ OldestPending.tx.tip <= p.tip
            /\ p = Cap \/ OldestPending.tx.fee < p.fee \/ OldestPending.tx.tip < p.tip
            /\ worker' = [at |-> "resend", turn |-> worker.turn, oldest |-> worker.nonce,
                          price |-> p, todo |-> {e.tx.nonce : e \in PendingEntries}]
      BY <1>2, BoostStarts
    <2> DEFINE N == {e.tx.nonce : e \in PendingEntries}
    <2>2. worker.nonce \in N /\ \A n \in N : worker.nonce <= n
      BY <2>1
    <2> HIDE DEF N
    <2>3. worker'.turn = worker.turn /\ worker'.price = p /\ worker'.todo = N
      BY <2>1 DEF N
    <2>4. f \in store /\ f \in Entries
      BY <1>2 DEF LoadPending, TypeInv, TypeOK
    <2>5. f.tx.nonce = worker.nonce
      <3>1. f.tx.nonce <= worker.nonce /\ worker.nonce <= f.tx.nonce
        BY <2>2, <2>3
      <3>2. f.tx.nonce \in Nat /\ worker.nonce \in Nat
        BY <1>2, <2>4, EntryFields, TxFields DEF TypeInv, TypeOK, Passes
      <3> QED
        BY <3>1, <3>2
    <2>6. f = OldestPending
      BY <2>1, <2>3, <2>4, <2>5 DEF UniqueKeys, Key, PendingEntries, EntriesOf
    <2> QED
      BY <2>1, <2>3, <2>6
  <1>3. CASE /\ ResendRefused /\ worker.at = "resend" /\ "oldest" \in DOMAIN worker
             /\ ~Underpriced(NextToResend.tx) /\ worker'.price = worker.price
    <2>1. /\ NextToResend \in store /\ NextToResend.tx.signer = SignerOrder[worker.turn]
          /\ NextToResend.tx.nonce \in worker.todo
          /\ \A n \in worker.todo : NextToResend.tx.nonce <= n
      BY <1>3, NextIsStored DEF TypeInv
    <2> QED
      BY <1>3, <2>1 DEF PriceCovers
  <1> QED
    BY <1>1, <1>2, <1>3, PriceStep

LEMMA InitSafe == Init => SafeInv
  <1> SUFFICES ASSUME Init
               PROVE  SafeInv
    OBVIOUS
  <1>1. Everywhere = {}
    BY DEF Init, Everywhere, OnTheWay, Mined, Stored, Idle
  <1>2. \A s \in Signers : nonces[s] = 0
    BY DEF Init
  <1>3. NoGaps
    BY <1>2 DEF Init, NoGaps
  <1> QED
    BY <1>1, <1>3 DEF Init, SafeInv, UniqueKeys, PendingIsNext, AgesBounded, AllCovered,
       SignedInTime, OneCall, LoadInTime, PriceCovers, Idle

LEMMA NextSafe ==
    ASSUME IInv, [Next]_vars
    PROVE  IInv'
  <1>1. TypeInv' /\ NothingNew
    BY NextTypes DEF IInv
  <1> QED
    BY <1>1, UniqueKeysKept, PendingIsNextKept, AgesKept, AllCoveredKept, NoGapsKept,
       SignedInTimeKept, OneCallKept, LoadInTimeKept, PriceCoversKept DEF IInv, SafeInv

LEMMA Invariant == Spec => []IInv
  <1>1. Init => IInv
    BY InitTypes, InitSafe DEF IInv
  <1>2. IInv /\ [Next]_vars => IInv'
    BY NextSafe
  <1> QED
    BY <1>1, <1>2, PTL DEF Spec


-----------------------------------------------------------------------------
(* What follows from the invariant.                                         *)

LEMMA SafeNonces ==
    ASSUME IInv
    PROVE  NoncesSafe
  <1> USE DEF IInv, SafeInv
  <1>1. TypeOK
    BY DEF TypeInv
  <1>2. OneCallPerNonce
    <2>1. Mined \cup mempool \cup {e.tx : e \in store} \subseteq Everywhere
      BY DEF Everywhere, Stored
    <2> QED
      BY <2>1 DEF OneCallPerNonce, OneCall
  <1>3. PendingIsStored
    <2> SUFFICES ASSUME NEW t \in mempool
                 PROVE  Key(t) \in StoredKeys
      BY DEF PendingIsStored, MempoolKeys
    <2>1. t.signer \in Signers /\ t.nonce \in Nat /\ Key(t) = <<t.signer, t.nonce>>
      BY TxFields DEF TypeInv, TypeOK
    <2>2. MinedCount(t.signer) \in Nat /\ t.nonce >= MinedCount(t.signer)
      BY <2>1, MinedBelowHanded DEF PendingIsNext
    <2>3. ~Settled(t.signer, t.nonce)
      BY <2>1, <2>2 DEF Settled, Depth, Old
    <2> QED
      BY <2>1, <2>3 DEF AllCovered, Everywhere, Covered
  <1>4. BoostFindsNonce
    <2> SUFFICES ASSUME worker.at = "load", MissingNonce
                 PROVE  FALSE
      BY DEF BoostFindsNonce
    <2> DEFINE s == SignerOrder[worker.turn]
               m == worker.nonce
    <2>1. OldestPending \in PendingEntries /\ \A f \in PendingEntries : OldestPending.tx.nonce <= f.tx.nonce
      BY OldestIsPending DEF MissingNonce, TypeInv
    <2>2. s \in Signers /\ m \in Nat
      BY TurnOfSigner DEF TypeInv, TypeOK, Passes
    <2>3. /\ OldestPending \in store /\ OldestPending.tx.signer = s
          /\ OldestPending.tx.nonce \in Nat /\ OldestPending.tx.nonce >= m
      BY <2>1, EntryFields, TxFields DEF PendingEntries, EntriesOf, TypeInv, TypeOK
    <2>4. m \in 0..OldestPending.tx.nonce - 1
      BY <2>2, <2>3 DEF MissingNonce
    <2>5. Covered(s, m)
      BY <2>3, <2>4 DEF NoGaps
    <2>6. <<s, m>> \in StoredKeys
      BY <2>5 DEF Covered, LoadInTime
    <2>7. PICK e \in store : Key(e.tx) = <<s, m>>
      BY <2>6 DEF StoredKeys
    <2>8. e \in PendingEntries /\ e.tx.nonce = m
      BY <2>2, <2>7 DEF PendingEntries, EntriesOf, Key
    <2> QED
      BY <2>1, <2>2, <2>3, <2>4, <2>8
  <1> QED
    BY <1>1, <1>2, <1>3, <1>4 DEF NoncesSafe

\* No two calls ever share a nonce, what is pending in the node is in the store, and
\* the worker never meets 'Boosting: missing nonce', for any number of signers and
\* calls, any fees and any number of crashes, drops, failures and reorgs.
THEOREM NoncesAreSafe == Spec => []NoncesSafe
  <1>1. IInv => NoncesSafe
    BY SafeNonces
  <1> QED
    BY <1>1, Invariant, PTL

LEMMA ArchivedIsMined ==
    ASSUME IInv, [Next]_vars
    PROVE  ArchivedOnlyMinedStep
  <1> SUFFICES ASSUME NEW e \in store, Key(e.tx) \notin StoredKeys'
               PROVE  e.tx.nonce < MinedCount(e.tx.signer) /\ DepthOf(e.tx) >= Old
    BY DEF ArchivedOnlyMinedStep, StoredKeys
  <1>1. RemoveArchivedTransactions
    <2>1. Key(e.tx) \in StoredKeys
      BY DEF StoredKeys
    <2> QED
      BY <2>1, KeysStay DEF IInv
  <1>2. Archived(e)
    BY <1>1 DEF RemoveArchivedTransactions, StoredKeys
  <1>3. Settled(e.tx.signer, e.tx.nonce)
    BY <1>2, ArchivedSettled DEF IInv, SafeInv
  <1>4. e.tx.signer \in Signers /\ e.tx.nonce \in Nat
    BY EntryFields, TxFields DEF IInv, TypeInv, TypeOK
  <1> QED
    BY <1>3, <1>4, DepthType DEF IInv, DepthOf

LEMMA OldestPaysMore ==
    ASSUME IInv
    PROVE  OldestNeverCheaperStep
  <1> SUFFICES ASSUME StoreAttempt, "oldest" \in DOMAIN worker,
                      NEW f \in store', Key(f.tx) = Key(NextToResend.tx)
               PROVE  f.tx.fee >= NextToResend.tx.fee /\ f.tx.tip >= NextToResend.tx.tip
    BY DEF OldestNeverCheaperStep
  <1> USE DEF IInv, SafeInv
  <1>1. PICK e \in store, b \in Entries :
          /\ e = NextToResend /\ b.tx = Boosted(e.tx) /\ store' = (store \ {e}) \cup {b}
    BY AttemptStored
  <1>2. f = b
    BY <1>1 DEF UniqueKeys
  <1>3. worker.at = "resend"
    BY DEF StoreAttempt
  <1>4. /\ e.tx.signer = SignerOrder[worker.turn] /\ e.tx.nonce \in worker.todo
        /\ \A n \in worker.todo : e.tx.nonce <= n
    BY <1>1, <1>3, NextIsStored DEF TypeInv
  <1>5. e.tx \in Txs /\ e.tx.tip <= e.tx.fee
    BY EntryFields DEF TypeInv, TypeOK, NoncesHanded, Everywhere, Stored
  <1>6. /\ e.tx.fee \in Nat /\ e.tx.tip \in Nat
        /\ e.tx.fee <= MaxMaxFeePerGas /\ e.tx.tip <= MaxMaxFeePerGas
    BY <1>5, TxFields
  <1>7. b.tx = e.tx \/ (b.tx.fee = worker.price.fee /\ b.tx.tip = worker.price.tip)
    BY <1>1, <1>3, <1>5, BoostedTypes DEF TypeInv
  <1>8. \/ worker.price = [fee |-> MaxMaxFeePerGas, tip |-> MaxMaxFeePerGas]
        \/ e.tx.fee <= worker.price.fee /\ e.tx.tip <= worker.price.tip
    BY <1>3, <1>4 DEF PriceCovers
  <1> QED
    BY <1>1, <1>2, <1>6, <1>7, <1>8

\* An entry leaves the store only when its call is deep in the chain, and the
\* transaction everything else waits for is never resent for less.
THEOREM TransactionsAreKept == Spec => TransactionsKept
  <1>1. IInv /\ [Next]_vars => [ArchivedOnlyMinedStep /\ OldestNeverCheaperStep]_vars
    BY ArchivedIsMined, OldestPaysMore
  <1> QED
    BY <1>1, Invariant, PTL DEF Spec, TransactionsKept
=============================================================================
