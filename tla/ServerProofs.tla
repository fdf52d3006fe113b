---------------------------- MODULE ServerProofs ----------------------------
(***************************************************************************)
(* Seven parts of the relay server, each from its own inductive invariant, *)
(* for any number of requests, starts, audits, passes and blocks.          *)
(*                                                                         *)
(* Requests: a server that handles them one by one is paid for what it     *)
(* sends, and the nonces of its answers add up, for any deposit, any node  *)
(* that lags and any store that forgets no earlier.                        *)
(*                                                                         *)
(* Lifecycle: one server is at work, with one loop, and its statistics are *)
(* true, however often an environment is started, stopped or fails.        *)
(*                                                                         *)
(* Penalizer: honest workers keep their stake, nothing is revealed too     *)
(* early, and with one pass at a time nothing is lost or revealed twice.   *)
(*                                                                         *)
(* Paymaster reputation: first requests do not collide, and the reputation *)
(* of a worker that is left alone counts every event once.                 *)
(*                                                                         *)
(* Registration, balances and the explorer's list: what a server remembers *)
(* of each is so, or was taken back by what it has yet to see.             *)
(***************************************************************************)
EXTENDS RelayRequests, ServerLifecycle, Penalizer, PaymasterReputation, ServerState,
        CountingProofs, SequenceTheorems

-----------------------------------------------------------------------------
(* Requests                                                                *)

\* What is sent was sent for one request each, and is not forgotten too early.
SentOnce ==
    /\ \A i \in 1..Len(sent) : call[sent[i]].at \in Sent \cup {"done"}
    /\ \A i, j \in 1..Len(sent) : i # j => sent[i] # sent[j]
    /\ pruned = 0 \/ pruned + Kept <= mined

\* The nonce the client knew is in the store, and is below that of the answer.
NonceKnown(r) ==
    /\ call[r].at = "idle" => call[r].answer = "none"
    /\ call[r].at \in {"prepared"} \cup Checking \cup Sent =>
         /\ pruned <= call[r].lastKnown /\ call[r].lastKnown <= mined
         /\ call[r].maxNonce = call[r].lastKnown + MaxRelayNonceGap
         /\ call[r].answer = "none"
    /\ call[r].at \in Sent => call[r].lastKnown <= call[r].nonce
    /\ GapSuffices /\ call[r].at \in Sent => call[r].nonce <= call[r].maxNonce
    /\ call[r].at = "reply" => call[r].gap = call[r].lastKnown..call[r].nonce - 1

\* One by one: nobody sends between the check of a nonce and its use.
OneByOne ==
    /\ \A r, s \in Requests : r # s /\ call[r].at \in Checking \cup Sent => call[s].at \in Waiting
    /\ \A r \in Requests : call[r].at \in {"limits", "view", "send"} => Len(sent) <= call[r].maxNonce

\* What one more transaction needs to be paid for.
Payable(r) == Len(sent) < Deposit /\ \A i \in 1..Len(sent) : Content[sent[i]] # Content[r]

\* What the view call found to be paid for still is.
SentIsPaid ==
    /\ paid = {sent[i] : i \in 1..mined}
    /\ \A i, j \in 1..Len(sent) : i # j => Content[sent[i]] # Content[sent[j]]
    /\ Len(sent) <= Deposit
    /\ \A r \in Requests : call[r].at = "send" => Payable(r)

IInv ==
    /\ RequestsTypeOK /\ SentOnce /\ \A r \in Requests : NonceKnown(r)
    /\ GapSuffices => AnswerAccepted
    /\ Serial => OneByOne /\ SentIsPaid

-----------------------------------------------------------------------------
\* As many requests were sent as there are transactions.
LEMMA SentCount ==
    ASSUME NEW S, IsFiniteSet(S), NEW s \in Seq(S), \A i, j \in 1..Len(s) : i # j => s[i] # s[j], NEW n \in 0..Len(s)
    PROVE  IsFiniteSet({s[i] : i \in 1..n}) /\ Cardinality({s[i] : i \in 1..n}) = n /\ n <= Cardinality(S)
  <1> DEFINE T == {s[i] : i \in 1..n}
             f == [i \in 1..n |-> s[i]]
  <1>1. n \in Nat /\ IsFiniteSet(1..n) /\ Cardinality(1..n) = n
    BY FS_Interval
  <1>2. T \subseteq S
    OBVIOUS
  <1>3. IsFiniteSet(T) /\ Cardinality(T) <= Cardinality(S)
    BY <1>2, FS_Subset
  <1>4. f \in Bijection(1..n, T)
    <2>1. f \in [1..n -> T]
      OBVIOUS
    <2>2. \A i, j \in 1..n : f[i] = f[j] => i = j
      OBVIOUS
    <2>3. \A t \in T : \E i \in 1..n : f[i] = t
      OBVIOUS
    <2> QED
      BY <2>1, <2>2, <2>3 DEF Bijection, Injection, Surjection, IsInjective
  <1>5. Cardinality(T) = n
    <2>1. ExistsBijection(1..n, T)
      BY <1>4 DEF ExistsBijection
    <2> HIDE DEF T, f
    <2>2. Cardinality(T) = Cardinality(1..n)
      BY <1>1, <2>1, FS_Bijection
    <2> QED
      BY <1>1, <2>2
  <1> QED
    BY <1>3, <1>5

\* One by one, everything that was sent is paid for in the pending block.
LEMMA PendingIsPaid ==
    ASSUME RequestsAssumption, RequestsTypeOK, SentOnce, SentIsPaid
    PROVE  PendingPaid = {sent[i] : i \in 1..Len(sent)}
  <1> DEFINE Upto(n) == {sent[i] : i \in 1..n}
             Step(g, n) == IF n = mined THEN paid
                           ELSE IF Pays(sent[n], g[n - 1]) THEN g[n - 1] \cup {sent[n]} ELSE g[n - 1]
             Equation(g) == g = [n \in mined..Len(sent) |-> Step(g, n)]
             explicit == [n \in mined..Len(sent) |-> Upto(n)]
             after == CHOOSE g : Equation(g)
  <1>1. mined \in Nat /\ Len(sent) \in Nat /\ mined <= Len(sent) /\ Deposit \in Nat
    BY DEF RequestsTypeOK, RequestsAssumption
  <1>2. \A n \in mined + 1..Len(sent) : Pays(sent[n], Upto(n - 1)) /\ Upto(n) = Upto(n - 1) \cup {sent[n]}
    <2> SUFFICES ASSUME NEW n \in mined + 1..Len(sent)
                 PROVE  Pays(sent[n], Upto(n - 1)) /\ Upto(n) = Upto(n - 1) \cup {sent[n]}
      OBVIOUS
    <2>1. n - 1 \in 0..Len(sent) /\ n \in 1..Len(sent)
      BY <1>1
    <2>2. Cardinality(Upto(n - 1)) = n - 1
      <3>1. PICK s : s = sent
        OBVIOUS
      <3>2. s \in Seq(Requests) /\ IsFiniteSet(Requests) /\ \A i, j \in 1..Len(s) : i # j => s[i] # s[j]
        BY <3>1 DEF RequestsTypeOK, RequestsAssumption, SentOnce
      <3>3. PICK k \in 0..Len(s) : k = n - 1
        BY <2>1, <3>1
      <3>4. Cardinality({s[i] : i \in 1..k}) = k
        BY <3>2, SentCount
      <3> QED
        BY <3>1, <3>3, <3>4
    <2>3. Cardinality(Upto(n - 1)) < Deposit
      BY <1>1, <2>1, <2>2 DEF SentIsPaid
    <2>4. \A other \in Upto(n - 1) : Content[other] # Content[sent[n]]
      BY <2>1, <1>1 DEF SentIsPaid
    <2>5. Upto(n) = Upto(n - 1) \cup {sent[n]}
      <3>1. 1..n = (1..n - 1) \cup {n}
        BY <2>1
      <3> QED
        BY <3>1
    <2> QED
      BY <2>3, <2>4, <2>5 DEF Pays
  <1>3. Equation(explicit)
    <2>1. \A n \in mined..Len(sent) : Step(explicit, n) = Upto(n)
      <3> SUFFICES ASSUME NEW n \in mined..Len(sent)
                   PROVE  Step(explicit, n) = Upto(n)
        OBVIOUS
      <3>1. CASE n = mined
        BY <3>1 DEF SentIsPaid
      <3>2. CASE n # mined
        <4>1. n \in mined + 1..Len(sent) /\ n - 1 \in mined..Len(sent)
          BY <1>1, <3>2
        <4>2. explicit[n - 1] = Upto(n - 1)
          BY <4>1
        <4> HIDE DEF Upto, explicit
        <4> QED
          BY <1>2, <3>2, <4>1, <4>2
      <3> QED
        BY <3>1, <3>2
    <2> HIDE DEF Step, Upto
    <2> QED
      BY <2>1
  <1>4. Equation(after)
    <2> HIDE DEF Equation
    <2> QED
      BY <1>3
  <1>5. PendingPaid = after[Len(sent)]
    BY DEF PendingPaid
  <1> HIDE DEF after
  <1>6. \A n \in mined..Len(sent) : after[n] = Upto(n)
    <2> DEFINE Differ == {n \in mined..Len(sent) : after[n] # Upto(n)}
    <2>1. SUFFICES ASSUME Differ # {}
                   PROVE  FALSE
      OBVIOUS
    <2>2. PICK m \in Differ : \A k \in Differ : m <= k
      <3>1. Differ \in SUBSET Nat
        BY <1>1
      <3> HIDE DEF Differ
      <3> QED
        BY <3>1, <2>1, LeastNumber
    <2>3. m \in mined..Len(sent) /\ after[m] = Step(after, m)
      BY <1>4, <2>2
    <2>4. CASE m = mined
      <3>1. after[m] = paid
        BY <2>3, <2>4
      <3> QED
        BY <2>2, <2>4, <3>1 DEF SentIsPaid
    <2>5. CASE m # mined
      <3>1. m \in mined + 1..Len(sent) /\ m - 1 \in mined..Len(sent) /\ ~(m <= m - 1)
        BY <1>1, <2>3, <2>5
      <3>2. after[m - 1] = Upto(m - 1)
        BY <2>2, <3>1
      <3>3. after[m] # Upto(m)
        BY <2>2
      <3> HIDE DEF Upto, Differ
      <3> QED
        BY <1>2, <2>3, <2>5, <3>1, <3>2, <3>3
    <2> QED
      BY <2>4, <2>5
  <1> QED
    BY <1>1, <1>5, <1>6

-----------------------------------------------------------------------------
(* Steps of a call.                                                        *)

Busy(r) == call[r].at \in Checking \cup Sent
OnlyCalls == UNCHANGED <<sent, mined, pruned, paid, ready, alerted, minFee, changes>>

LEMMA CallOf ==
    ASSUME RequestsTypeOK, NEW r \in Requests
    PROVE  /\ call[r] \in CallRecords /\ call[r].at \in Waiting \cup Checking \cup Sent
           /\ call[r].lastKnown \in Nat /\ call[r].maxNonce \in Nat /\ call[r].fee \in Nat
           /\ call[r].nonce \in Int /\ call[r].gap \in SUBSET Nat /\ call[r].answer \in Answers
  BY DEF RequestsTypeOK, CallRecords

LEMMA GoesOn ==
    ASSUME RequestsTypeOK, NEW r \in Requests, NEW place \in Waiting \cup Checking \cup Sent, Go(r, place)
    PROVE  /\ call' \in [Requests -> CallRecords] /\ \A s \in Requests \ {r} : call'[s] = call[s]
           /\ call'[r].at = place /\ call'[r].lastKnown = call[r].lastKnown
           /\ call'[r].maxNonce = call[r].maxNonce /\ call'[r].nonce = call[r].nonce
           /\ call'[r].gap = call[r].gap /\ call'[r].answer = call[r].answer
  BY DEF RequestsTypeOK, CallRecords, Go

LEMMA IsRefused ==
    ASSUME RequestsTypeOK, NEW r \in Requests, RefuseCall(r)
    PROVE  /\ call' \in [Requests -> CallRecords] /\ \A s \in Requests \ {r} : call'[s] = call[s]
           /\ call'[r].at = "done" /\ call'[r].nonce = call[r].nonce /\ call'[r].answer = "refused"
  BY DEF RequestsTypeOK, CallRecords, RefuseCall, Waiting, Answers

\* What the step of one call has to keep, when nothing is sent or mined.
LEMMA CallKeeps ==
    ASSUME RequestsAssumption, IInv, NEW r \in Requests,
           OnlyCalls,
           call' \in [Requests -> CallRecords], \A s \in Requests \ {r} : call'[s] = call[s],
           call'[r].nonce < Len(sent), call[r].at \in Sent \cup {"done"} => call'[r].at \in Sent \cup {"done"},
           NonceKnown(r)',
           GapSuffices => call'[r].answer # "rejected",
           call'[r].at \in Checking \cup Sent => Busy(r) \/ Quiet(r),
           Serial /\ call'[r].at \in {"limits", "view", "send"} => Len(sent) <= call'[r].maxNonce,
           Serial /\ call'[r].at = "send" => Payable(r)
    PROVE  IInv'
  <1> USE DEF OnlyCalls
  <1>1. RequestsTypeOK'
    <2>1. \A s \in Requests : call'[s].nonce < Len(sent)
      BY DEF IInv, RequestsTypeOK
    <2> QED
      BY <2>1 DEF IInv, RequestsTypeOK
  <1>2. SentOnce'
    <2>1. \A i \in 1..Len(sent) : sent[i] \in Requests
      BY DEF IInv, RequestsTypeOK
    <2>2. \A i \in 1..Len(sent) : call'[sent[i]].at \in Sent \cup {"done"}
      BY <2>1 DEF IInv, SentOnce
    <2> QED
      BY <2>2 DEF IInv, SentOnce
  <1>3. \A s \in Requests : NonceKnown(s)'
    <2> SUFFICES ASSUME NEW s \in Requests \ {r}
                 PROVE  NonceKnown(s)'
      OBVIOUS
    <2> QED
      BY DEF IInv, NonceKnown, GapSuffices
  <1>4. (GapSuffices => AnswerAccepted)'
    BY DEF IInv, AnswerAccepted, GapSuffices
  <1>5. ASSUME Serial
        PROVE  OneByOne' /\ SentIsPaid'
    <2>1. OneByOne'
      <3>1. ASSUME NEW q \in Requests, NEW s \in Requests, q # s, call'[q].at \in Checking \cup Sent
            PROVE  call'[s].at \in Waiting
        <4>1. CASE q = r
          BY <1>5, <3>1, <4>1 DEF IInv, OneByOne, Busy, Quiet
        <4>2. CASE q # r /\ s # r
          BY <1>5, <3>1, <4>2 DEF IInv, OneByOne
        <4>3. CASE q # r /\ s = r
          <5>1. call[r].at \in Waiting /\ call[q].at \in Checking \cup Sent
            BY <1>5, <3>1, <4>3 DEF IInv, OneByOne
          <5>2. ~Busy(r) /\ ~Quiet(r)
            BY <1>5, <4>3, <5>1 DEF Busy, Quiet, Waiting, Checking, Sent
          <5>3. call'[r].at \notin Checking \cup Sent /\ call'[r].at \in Waiting \cup Checking \cup Sent
            BY <5>2 DEF CallRecords
          <5> QED
            BY <4>3, <5>3
        <4> QED
          BY <4>1, <4>2, <4>3
      <3>2. \A q \in Requests : call'[q].at \in {"limits", "view", "send"} => Len(sent) <= call'[q].maxNonce
        BY <1>5 DEF IInv, OneByOne
      <3> QED
        BY <3>1, <3>2 DEF OneByOne
    <2>2. SentIsPaid'
      <3>1. \A q \in Requests : call'[q].at = "send" => Payable(q)
        BY <1>5 DEF IInv, SentIsPaid
      <3>2. \A q \in Requests : Payable(q)' <=> Payable(q)
        BY DEF Payable, OnlyCalls
      <3> QED
        BY <1>5, <3>1, <3>2 DEF IInv, SentIsPaid, OnlyCalls
    <2> QED
      BY <2>1, <2>2
  <1> QED
    BY <1>1, <1>2, <1>3, <1>4, <1>5 DEF IInv

LEMMA RefuseKeeps ==
    ASSUME RequestsAssumption, IInv, NEW r \in Requests, RefuseCall(r),
           OnlyCalls
    PROVE  IInv'
  <1>1. /\ call' \in [Requests -> CallRecords] /\ \A s \in Requests \ {r} : call'[s] = call[s]
        /\ call'[r].at = "done" /\ call'[r].nonce = call[r].nonce /\ call'[r].answer = "refused"
    BY IsRefused DEF IInv
  <1>2. call'[r].nonce < Len(sent)
    BY <1>1 DEF IInv, RequestsTypeOK, OnlyCalls
  <1>3. NonceKnown(r)'
    BY <1>1 DEF NonceKnown, Checking, Sent
  <1> QED
    BY <1>1, <1>2, <1>3, CallKeeps DEF Checking, Sent

\* The checks of createRelayTransaction, up to the transaction.
LEMMA CheckKeeps ==
    ASSUME RequestsAssumption, IInv, NEW r \in Requests, NEW place \in Checking, Go(r, place),
           OnlyCalls,
           call[r].at \in Checking \/ (call[r].at = "prepared" /\ Quiet(r)),
           place \in {"view", "send"} => call[r].at \in {"limits", "view"},
           place = "limits" => Len(sent) <= call[r].maxNonce,
           Serial /\ place = "send" => Payable(r)
    PROVE  IInv'
  <1>1. /\ call' \in [Requests -> CallRecords] /\ \A s \in Requests \ {r} : call'[s] = call[s]
        /\ call'[r].at = place /\ call'[r].lastKnown = call[r].lastKnown
        /\ call'[r].maxNonce = call[r].maxNonce /\ call'[r].nonce = call[r].nonce
        /\ call'[r].gap = call[r].gap /\ call'[r].answer = call[r].answer
    BY GoesOn DEF IInv
  <1>2. call'[r].nonce < Len(sent) /\ call[r].at \notin Sent \cup {"done"}
    BY <1>1 DEF IInv, RequestsTypeOK, Checking, Sent, OnlyCalls
  <1>3. NonceKnown(r)' /\ call'[r].answer = "none"
    BY <1>1 DEF IInv, NonceKnown, Checking, Sent, GapSuffices, OnlyCalls
  <1>4. Busy(r) \/ Quiet(r)
    BY DEF Busy
  <1>5. Serial /\ call'[r].at \in {"limits", "view", "send"} => Len(sent) <= call'[r].maxNonce
    BY <1>1 DEF IInv, OneByOne
  <1> QED
    BY <1>1, <1>2, <1>3, <1>4, <1>5, CallKeeps

-----------------------------------------------------------------------------
(* Each action keeps the invariant.                                        *)

LEMMA FreshCall ==
    /\ Fresh \in CallRecords /\ Fresh.at = "idle" /\ Fresh.answer = "none" /\ Fresh.nonce = -1
  <1>1. "idle" \in Waiting /\ "none" \in Answers /\ {} \in SUBSET Nat /\ -1 \in Nat \cup {-1}
    BY DEF Waiting, Answers
  <1> QED
    BY <1>1 DEF Fresh, CallRecords

LEMMA InitHolds ==
    ASSUME RequestsAssumption, RequestsInit
    PROVE  IInv
  <1>1. Cardinality(Requests) \in Nat /\ Cardinality({}) = 0 /\ sent = <<>> /\ Len(sent) = 0
    BY FS_CardinalityType, FS_EmptySet DEF RequestsAssumption, RequestsInit
  <1>2. Fresh \in CallRecords /\ Fresh.at = "idle" /\ Fresh.answer = "none" /\ Fresh.nonce = -1
    BY FreshCall
  <1>3. call \in [Requests -> CallRecords] /\ \A r \in Requests : call[r] = Fresh
    BY <1>2 DEF RequestsInit
  <1>4. RequestsTypeOK
    <2>1. sent \in Seq(Requests) /\ mined = 0 /\ pruned = 0 /\ paid = {}
      BY <1>1 DEF RequestsInit
    <2>2. minFee \in FeeLevels /\ ready \in BOOLEAN /\ alerted \in BOOLEAN /\ changes \in 0..MaxChanges
      <3>1. minFee \in FeeLevels /\ ready = TRUE /\ alerted = FALSE /\ changes = 0
        BY DEF RequestsInit
      <3>2. 0 \in 0..MaxChanges
        BY DEF RequestsAssumption
      <3> QED
        BY <3>1, <3>2
    <2>3. \A r \in Requests : call[r].nonce < Len(sent)
      BY <1>1, <1>2, <1>3
    <2>4. Cardinality(paid) <= Deposit
      BY <1>1, <2>1 DEF RequestsAssumption
    <2> QED
      BY <1>1, <1>3, <2>1, <2>2, <2>3, <2>4 DEF RequestsTypeOK
  <1>5. SentOnce
    BY <1>1 DEF RequestsInit, SentOnce
  <1>6. ASSUME NEW r \in Requests
        PROVE  NonceKnown(r)
    BY <1>2, <1>3 DEF NonceKnown, Checking, Sent
  <1>7. AnswerAccepted
    BY <1>2, <1>3 DEF AnswerAccepted
  <1>8. OneByOne
    BY <1>2, <1>3 DEF OneByOne, Checking, Sent
  <1>9. SentIsPaid
    BY <1>1, <1>2, <1>3 DEF RequestsInit, SentIsPaid, RequestsAssumption
  <1> QED
    BY <1>4, <1>5, <1>6, <1>7, <1>8, <1>9 DEF IInv

LEMMA MineKeeps ==
    ASSUME RequestsAssumption, IInv, MineCall
    PROVE  IInv'
  <1>1. /\ mined < Len(sent) /\ mined' = mined + 1 /\ mined \in Nat /\ Len(sent) \in Nat
        /\ sent' = sent /\ pruned' = pruned /\ call' = call /\ sent[mined + 1] \in Requests
    BY DEF IInv, RequestsTypeOK, MineCall
  <1>2. IsFiniteSet(paid) /\ Cardinality(paid) \in Nat
    BY FS_Subset, FS_CardinalityType DEF IInv, RequestsTypeOK, RequestsAssumption
  <1>3. paid' \subseteq Requests /\ Cardinality(paid') <= Deposit
    <2>1. CASE Pays(sent[mined + 1], paid)
      <3>1. paid' = paid \cup {sent[mined + 1]} /\ Cardinality(paid) < Deposit
        BY <2>1 DEF MineCall, Pays
      <3>2. Cardinality(paid') = Cardinality(paid) + 1 \/ Cardinality(paid') = Cardinality(paid)
        BY <1>2, <3>1, FS_AddElement
      <3> QED
        BY <1>1, <1>2, <3>1, <3>2 DEF IInv, RequestsTypeOK, RequestsAssumption
    <2>2. CASE ~Pays(sent[mined + 1], paid)
      BY <2>2 DEF MineCall, IInv, RequestsTypeOK
    <2> QED
      BY <2>1, <2>2
  <1>4. RequestsTypeOK'
    BY <1>1, <1>3 DEF MineCall, serverState, IInv, RequestsTypeOK
  <1>5. SentOnce'
    BY <1>1 DEF IInv, SentOnce, RequestsTypeOK, RequestsAssumption
  <1>6. ASSUME NEW r \in Requests
        PROVE  NonceKnown(r)'
    BY <1>1, CallOf DEF IInv, NonceKnown, GapSuffices
  <1>7. (GapSuffices => AnswerAccepted)'
    BY <1>1 DEF IInv, AnswerAccepted, GapSuffices
  <1>8. ASSUME Serial
        PROVE  OneByOne' /\ SentIsPaid'
    <2>1. OneByOne'
      BY <1>1, <1>8 DEF IInv, OneByOne
    <2>2. PICK s : s = sent
      OBVIOUS
    <2>3. Cardinality(paid) = mined
      <3>1. s \in Seq(Requests) /\ IsFiniteSet(Requests) /\ \A i, j \in 1..Len(s) : i # j => s[i] # s[j]
        BY <2>2 DEF IInv, RequestsTypeOK, RequestsAssumption, SentOnce
      <3>2. PICK n \in 0..Len(s) : n = mined
        BY <1>1, <2>2
      <3>3. Cardinality({s[i] : i \in 1..n}) = n
        BY <3>1, SentCount
      <3> QED
        BY <1>8, <2>2, <3>2, <3>3 DEF IInv, SentIsPaid
    <2>4. Pays(sent[mined + 1], paid)
      <3>1. \A other \in paid : Content[other] # Content[sent[mined + 1]]
        BY <1>1, <1>8 DEF IInv, SentIsPaid
      <3>2. Cardinality(paid) < Deposit
        BY <1>1, <1>8, <2>3 DEF IInv, SentIsPaid, RequestsAssumption
      <3> QED
        BY <3>1, <3>2 DEF Pays
    <2>5. paid' = {sent'[i] : i \in 1..mined'}
      <3>1. 1..mined + 1 = (1..mined) \cup {mined + 1}
        BY <1>1
      <3>2. paid = {sent[i] : i \in 1..mined} /\ paid' = paid \cup {sent[mined + 1]}
        BY <1>8, <2>4 DEF MineCall, IInv, SentIsPaid
      <3> QED
        BY <1>1, <3>1, <3>2
    <2>6. SentIsPaid'
      BY <1>1, <1>8, <2>5 DEF IInv, SentIsPaid, Payable
    <2> QED
      BY <2>1, <2>6
  <1> QED
    BY <1>4, <1>5, <1>6, <1>7, <1>8 DEF IInv

LEMMA PruneKeeps ==
    ASSUME RequestsAssumption, IInv, Prune
    PROVE  IInv'
  <1>1. /\ pruned + Kept < mined /\ pruned' = pruned + 1 /\ pruned \in Nat /\ mined \in Nat /\ Kept \in Nat
        /\ UNCHANGED <<call, sent, mined, paid, ready, alerted, minFee, changes>>
        /\ \A r \in Requests : call[r].at \notin {"idle", "done"} => pruned < call[r].lastKnown
    BY DEF Prune, serverState, IInv, RequestsTypeOK, RequestsAssumption
  <1>2. RequestsTypeOK'
    BY <1>1 DEF IInv, RequestsTypeOK
  <1>3. SentOnce'
    BY <1>1 DEF IInv, SentOnce
  <1>4. ASSUME NEW r \in Requests
        PROVE  NonceKnown(r)'
    <2>1. call[r].at \in {"prepared"} \cup Checking \cup Sent => pruned + 1 <= call[r].lastKnown
      BY <1>1, CallOf DEF IInv, Checking, Sent
    <2> QED
      BY <1>1, <2>1 DEF IInv, NonceKnown, GapSuffices
  <1>5. (GapSuffices => AnswerAccepted)' /\ (Serial => OneByOne' /\ SentIsPaid')
    BY <1>1 DEF IInv, AnswerAccepted, GapSuffices, OneByOne, SentIsPaid, Payable
  <1> QED
    BY <1>2, <1>3, <1>4, <1>5 DEF IInv

LEMMA ChangeKeeps ==
    ASSUME RequestsAssumption, IInv, Change \/ UNCHANGED requestVars
    PROVE  IInv'
  <1>1. UNCHANGED <<call, sent, mined, pruned, paid>>
    BY DEF Change, onChain, requestVars
  <1>2. minFee' \in FeeLevels /\ ready' \in BOOLEAN /\ alerted' \in BOOLEAN /\ changes' \in 0..MaxChanges
    <2>1. /\ minFee \in FeeLevels /\ ready \in BOOLEAN /\ alerted \in BOOLEAN /\ changes \in 0..MaxChanges
          /\ MaxChanges \in Nat
      BY DEF IInv, RequestsTypeOK, RequestsAssumption
    <2>2. CASE Change
      <3>1. changes' \in 0..MaxChanges
        BY <2>1, <2>2 DEF Change
      <3>2. minFee' \in FeeLevels
        BY <2>1, <2>2 DEF Change
      <3>3. ready' \in BOOLEAN /\ alerted' \in BOOLEAN
        BY <2>1, <2>2, Zenon DEF Change
      <3> QED
        BY <3>1, <3>2, <3>3
    <2>3. CASE UNCHANGED requestVars
      BY <2>1, <2>3 DEF requestVars
    <2> QED
      BY <2>2, <2>3
  <1>3. RequestsTypeOK'
    BY <1>1, <1>2 DEF IInv, RequestsTypeOK
  <1>4. SentOnce' /\ \A r \in Requests : NonceKnown(r)'
    BY <1>1 DEF IInv, SentOnce, NonceKnown, GapSuffices
  <1>5. (GapSuffices => AnswerAccepted)' /\ (Serial => OneByOne' /\ SentIsPaid')
    BY <1>1 DEF IInv, AnswerAccepted, GapSuffices, OneByOne, SentIsPaid, Payable
  <1> QED
    BY <1>3, <1>4, <1>5 DEF IInv

LEMMA PrepareKeeps ==
    ASSUME RequestsAssumption, IInv, NEW r \in Requests, Prepare(r)
    PROVE  IInv'
  <1>1. OnlyCalls /\ call[r].at = "idle"
    BY DEF OnlyCalls, Prepare, onChain, serverState
  <1>2. PICK lag \in 0..Lag, fee \in FeeLevels :
          /\ lag <= mined
          /\ call' = [call EXCEPT ![r] = [Fresh EXCEPT !.at = "prepared", !.lastKnown = mined - lag, !.fee = fee,
                                                       !.maxNonce = mined - lag + MaxRelayNonceGap]]
    BY DEF Prepare
  <1>3. lag \in Nat /\ mined \in Nat /\ pruned \in Nat /\ Lag \in Nat /\ Kept \in Nat /\ Lag <= Kept
        /\ MaxRelayNonceGap \in Nat /\ fee \in Nat /\ Len(sent) \in Nat /\ mined - lag \in Nat
    BY <1>2 DEF IInv, RequestsTypeOK, RequestsAssumption
  <1>4. PICK knew \in Nat : knew = mined - lag
    BY <1>3
  <1>5. PICK c : c = [Fresh EXCEPT !.at = "prepared", !.lastKnown = knew, !.fee = fee,
                                   !.maxNonce = knew + MaxRelayNonceGap]
    OBVIOUS
  <1>6. /\ c \in CallRecords /\ c.at = "prepared" /\ c.answer = "none" /\ c.nonce = -1
        /\ c.lastKnown = knew /\ c.maxNonce = knew + MaxRelayNonceGap
    <2>1. "prepared" \in Waiting /\ knew + MaxRelayNonceGap \in Nat
      BY <1>3 DEF Waiting
    <2> QED
      BY <1>3, <1>5, <2>1, FreshCall DEF CallRecords
  <1>7. call' = [call EXCEPT ![r] = c]
    BY <1>2, <1>4, <1>5
  <1>8. call' \in [Requests -> CallRecords] /\ (\A s \in Requests \ {r} : call'[s] = call[s]) /\ call'[r] = c
    BY <1>6, <1>7 DEF IInv, RequestsTypeOK
  <1>9. pruned <= knew /\ knew <= mined
    BY <1>2, <1>3, <1>4 DEF IInv, SentOnce
  <1>10. NonceKnown(r)'
    BY <1>1, <1>6, <1>8, <1>9 DEF NonceKnown, Checking, Sent, OnlyCalls
  <1>11. call'[r].nonce < Len(sent) /\ call[r].at \notin Sent \cup {"done"} /\ call'[r].answer = "none"
         /\ call'[r].at \notin Checking \cup Sent
    BY <1>1, <1>3, <1>6, <1>8 DEF Sent, Checking, OnlyCalls
  <1> QED
    BY <1>1, <1>8, <1>10, <1>11, CallKeeps DEF Checking, Sent

LEMMA StartKeeps ==
    ASSUME RequestsAssumption, IInv, NEW r \in Requests, Start(r)
    PROVE  IInv'
  <1>1. OnlyCalls /\ call[r].at = "prepared" /\ Quiet(r)
    BY DEF OnlyCalls, Start, onChain, serverState
  <1>2. CASE RefuseCall(r)
    BY <1>1, <1>2, RefuseKeeps
  <1>3. CASE Go(r, IF alerted THEN "delayed" ELSE "validate")
    <2>1. PICK place \in {"delayed", "validate"} : place = IF alerted THEN "delayed" ELSE "validate"
      OBVIOUS
    <2>2. Go(r, place) /\ place \in Checking /\ place \notin {"limits", "view", "send"}
      BY <1>3, <2>1 DEF Checking
    <2> QED
      BY <1>1, <2>2, CheckKeeps
  <1> QED
    BY <1>2, <1>3 DEF Start

LEMMA DelayedKeeps ==
    ASSUME RequestsAssumption, IInv, NEW r \in Requests, Delayed(r)
    PROVE  IInv'
  <1>1. OnlyCalls
        /\ call[r].at \in Checking /\ "validate" \in Checking /\ Go(r, "validate")
    BY DEF OnlyCalls, Delayed, onChain, serverState, Checking
  <1> QED
    BY <1>1, CheckKeeps

LEMMA ValidateInputKeeps ==
    ASSUME RequestsAssumption, IInv, NEW r \in Requests, ValidateInput(r)
    PROVE  IInv'
  <1>1. OnlyCalls
        /\ call[r].at \in Checking /\ "nonce" \in Checking /\ (RefuseCall(r) \/ Go(r, "nonce"))
    BY DEF OnlyCalls, ValidateInput, onChain, serverState, Checking
  <1>2. CASE RefuseCall(r)
    BY <1>1, <1>2, RefuseKeeps
  <1>3. CASE Go(r, "nonce")
    BY <1>1, <1>3, CheckKeeps
  <1> QED
    BY <1>1, <1>2, <1>3

LEMMA ValidateMaxNonceKeeps ==
    ASSUME RequestsAssumption, IInv, NEW r \in Requests, ValidateMaxNonce(r)
    PROVE  IInv'
  <1>1. OnlyCalls
        /\ call[r].at \in Checking /\ "limits" \in Checking
        /\ (RefuseCall(r) \/ (Len(sent) <= call[r].maxNonce /\ Go(r, "limits")))
    BY DEF OnlyCalls, ValidateMaxNonce, onChain, serverState, Checking
  <1>2. CASE RefuseCall(r)
    BY <1>1, <1>2, RefuseKeeps
  <1>3. CASE Len(sent) <= call[r].maxNonce /\ Go(r, "limits")
    BY <1>1, <1>3, CheckKeeps
  <1> QED
    BY <1>1, <1>2, <1>3

LEMMA ValidateLimitsKeeps ==
    ASSUME RequestsAssumption, IInv, NEW r \in Requests, ValidateLimits(r)
    PROVE  IInv'
  <1>1. OnlyCalls /\ call[r].at = "limits"
        /\ call[r].at \in Checking /\ "view" \in Checking /\ (RefuseCall(r) \/ Go(r, "view"))
    BY DEF OnlyCalls, ValidateLimits, onChain, serverState, Checking
  <1>2. CASE RefuseCall(r)
    BY <1>1, <1>2, RefuseKeeps
  <1>3. CASE Go(r, "view")
    BY <1>1, <1>3, CheckKeeps
  <1> QED
    BY <1>1, <1>2, <1>3

\* One by one, the pending block is what will have been mined.
LEMMA ValidateViewCallKeeps ==
    ASSUME RequestsAssumption, IInv, NEW r \in Requests, ValidateViewCall(r)
    PROVE  IInv'
  <1>1. OnlyCalls /\ call[r].at = "view"
        /\ call[r].at \in Checking /\ "send" \in Checking /\ (RefuseCall(r) \/ (Pays(r, PendingPaid) /\ Go(r, "send")))
    BY DEF OnlyCalls, ValidateViewCall, onChain, serverState, Checking, Sees
  <1>2. CASE RefuseCall(r)
    BY <1>1, <1>2, RefuseKeeps
  <1>3. CASE Pays(r, PendingPaid) /\ Go(r, "send")
    <2>1. ASSUME Serial
          PROVE  Payable(r)
      <3>1. PendingPaid = {sent[i] : i \in 1..Len(sent)}
        BY <2>1, PendingIsPaid DEF IInv
      <3>2. PICK s : s = sent
        OBVIOUS
      <3>3. s \in Seq(Requests) /\ IsFiniteSet(Requests) /\ \A i, j \in 1..Len(s) : i # j => s[i] # s[j]
        BY <3>2 DEF IInv, RequestsTypeOK, RequestsAssumption, SentOnce
      <3>4. PICK n \in 0..Len(s) : n = Len(s)
        BY <3>3
      <3>5. Cardinality({s[i] : i \in 1..n}) = n
        BY <3>3, SentCount
      <3>6. Cardinality(PendingPaid) = Len(sent)
        BY <3>1, <3>2, <3>4, <3>5
      <3> QED
        BY <1>3, <3>1, <3>6 DEF Pays, Payable
    <2> QED
      BY <1>1, <1>3, <2>1, CheckKeeps
  <1> QED
    BY <1>1, <1>2, <1>3

\* The next nonce is one the client accepts, and there is a request for each transaction.
LEMMA SendKeeps ==
    ASSUME RequestsAssumption, IInv, NEW r \in Requests, SendCall(r)
    PROVE  IInv'
  <1>1. /\ call[r].at = "send" /\ sent' = Append(sent, r)
        /\ UNCHANGED <<mined, pruned, paid, ready, alerted, minFee, changes>>
    BY DEF SendCall, serverState
  <1>2. /\ sent \in Seq(Requests) /\ Len(sent) \in Nat /\ mined \in Nat /\ pruned \in Nat
        /\ pruned <= mined /\ mined <= Len(sent) /\ call \in [Requests -> CallRecords]
        /\ \A s \in Requests : call[s].nonce < Len(sent)
    BY DEF IInv, RequestsTypeOK
  <1>3. /\ call' \in [Requests -> CallRecords] /\ \A s \in Requests \ {r} : call'[s] = call[s]
        /\ call'[r].at = "gap" /\ call'[r].nonce = Len(sent) /\ call'[r].lastKnown = call[r].lastKnown
        /\ call'[r].maxNonce = call[r].maxNonce /\ call'[r].answer = call[r].answer
    <2>1. Len(sent) \in Nat \cup {-1} /\ "gap" \in Waiting \cup Checking \cup Sent
      BY <1>2 DEF Sent
    <2> QED
      BY <1>2, <2>1 DEF SendCall, CallRecords
  <1>4. /\ sent' \in Seq(Requests) /\ Len(sent') = Len(sent) + 1
        /\ \A i \in 1..Len(sent) : sent'[i] = sent[i] /\ sent[i] \in Requests \ {r}
        /\ sent'[Len(sent) + 1] = r
    <2>1. \A i \in 1..Len(sent) : sent[i] \in Requests /\ call[sent[i]].at \in Sent \cup {"done"}
      BY <1>2 DEF IInv, SentOnce
    <2>2. \A i \in 1..Len(sent) : sent[i] # r
      BY <1>1, <2>1 DEF Sent
    <2> QED
      BY <1>1, <1>2, <2>1, <2>2
  <1>5. SentOnce'
    <2>1. \A i \in 1..Len(sent) + 1 : call'[sent'[i]].at \in Sent \cup {"done"}
      <3>1. \A i \in 1..Len(sent) : call'[sent'[i]].at \in Sent \cup {"done"}
        BY <1>3, <1>4 DEF IInv, SentOnce
      <3>2. call'[sent'[Len(sent) + 1]].at \in Sent \cup {"done"}
        BY <1>3, <1>4 DEF Sent
      <3>3. \A i \in 1..Len(sent) + 1 : i \in 1..Len(sent) \/ i = Len(sent) + 1
        BY <1>2
      <3> QED
        BY <3>1, <3>2, <3>3
    <2>2. \A i, j \in 1..Len(sent) + 1 : i # j => sent'[i] # sent'[j]
      BY <1>2, <1>4 DEF IInv, SentOnce
    <2> QED
      BY <1>1, <1>4, <2>1, <2>2 DEF IInv, SentOnce
  <1>6. Len(sent) + 1 <= Cardinality(Requests)
    <2>1. PICK s : s = sent'
      OBVIOUS
    <2>2. s \in Seq(Requests) /\ Len(s) = Len(sent) + 1 /\ IsFiniteSet(Requests)
          /\ \A i, j \in 1..Len(s) : i # j => s[i] # s[j]
      BY <1>4, <1>5, <2>1 DEF SentOnce, RequestsAssumption
    <2>3. PICK n \in 0..Len(s) : n = Len(s)
      BY <2>2
    <2>4. n <= Cardinality(Requests)
      BY <2>2, SentCount
    <2> QED
      BY <2>2, <2>3, <2>4
  <1>7. RequestsTypeOK'
    <2>1. \A s \in Requests : call'[s].nonce < Len(sent) + 1
      BY <1>2, <1>3, CallOf DEF IInv
    <2> QED
      BY <1>1, <1>2, <1>3, <1>4, <1>6, <2>1 DEF IInv, RequestsTypeOK
  <1>8. ASSUME GapSuffices
        PROVE  Len(sent) <= call[r].maxNonce
    <2>1. CASE Serial
      BY <1>1, <2>1 DEF IInv, OneByOne
    <2>2. CASE Cardinality(Requests) <= MaxRelayNonceGap + 1
      <3>1. call[r].maxNonce = call[r].lastKnown + MaxRelayNonceGap /\ call[r].lastKnown \in Nat
        BY <1>1, CallOf DEF IInv, NonceKnown, Checking
      <3>2. MaxRelayNonceGap \in Nat /\ Cardinality(Requests) \in Nat
        BY FS_CardinalityType DEF RequestsAssumption
      <3> QED
        BY <1>2, <1>6, <2>2, <3>1, <3>2
    <2> QED
      BY <1>8, <2>1, <2>2 DEF GapSuffices
  <1>9. ASSUME NEW s \in Requests
        PROVE  NonceKnown(s)'
    <2>1. CASE s = r
      <3>1. /\ pruned <= call[r].lastKnown /\ call[r].lastKnown <= mined /\ call[r].lastKnown \in Nat
            /\ call[r].maxNonce = call[r].lastKnown + MaxRelayNonceGap /\ call[r].answer = "none"
        BY <1>1, CallOf DEF IInv, NonceKnown, Checking
      <3>2. GapSuffices' <=> GapSuffices
        BY DEF GapSuffices
      <3> QED
        BY <1>1, <1>2, <1>3, <1>8, <2>1, <3>1, <3>2 DEF NonceKnown
    <2>2. CASE s # r
      BY <1>1, <1>3, <2>2 DEF IInv, NonceKnown, GapSuffices
    <2> QED
      BY <2>1, <2>2
  <1>10. (GapSuffices => AnswerAccepted)'
    BY <1>3 DEF IInv, AnswerAccepted, GapSuffices
  <1>11. ASSUME Serial
         PROVE  OneByOne' /\ SentIsPaid'
    <2>1. \A s \in Requests \ {r} : call[s].at \in Waiting /\ call'[s].at \in Waiting
      BY <1>1, <1>3, <1>11 DEF IInv, OneByOne, Checking
    <2>2. OneByOne'
      BY <1>3, <2>1 DEF OneByOne, Waiting, Checking, Sent
    <2>3. Payable(r)
      BY <1>1, <1>11 DEF IInv, SentIsPaid
    <2>4. paid = {sent'[i] : i \in 1..mined}
      <3>1. \A i \in 1..mined : i \in 1..Len(sent)
        BY <1>2
      <3> QED
        BY <1>4, <1>11, <3>1 DEF IInv, SentIsPaid
    <2>5. \A i, j \in 1..Len(sent) + 1 : i # j => Content[sent'[i]] # Content[sent'[j]]
      <3>1. \A i, j \in 1..Len(sent) : i # j => Content[sent'[i]] # Content[sent'[j]]
        BY <1>4, <1>11 DEF IInv, SentIsPaid
      <3>2. \A i \in 1..Len(sent) : Content[sent'[i]] # Content[sent'[Len(sent) + 1]]
        BY <1>4, <2>3 DEF Payable
      <3>3. \A i \in 1..Len(sent) + 1 : i \in 1..Len(sent) \/ i = Len(sent) + 1
        BY <1>2
      <3> QED
        BY <3>1, <3>2, <3>3
    <2>6. Len(sent) + 1 <= Deposit
      BY <1>2, <2>3 DEF Payable, RequestsAssumption
    <2>7. \A s \in Requests : call'[s].at # "send"
      BY <1>3, <2>1 DEF Waiting
    <2> QED
      BY <1>1, <1>4, <2>2, <2>4, <2>5, <2>6, <2>7 DEF SentIsPaid
  <1> QED
    BY <1>5, <1>7, <1>9, <1>10, <1>11 DEF IInv

\* The store has every transaction from the nonce the client knew.
LEMMA GetNonceGapKeeps ==
    ASSUME RequestsAssumption, IInv, NEW r \in Requests, GetNonceGap(r)
    PROVE  IInv'
  <1> DEFINE gap == NonceGapFilled(call[r].lastKnown, call[r].nonce - 1)
  <1>1. OnlyCalls /\ call[r].at = "gap"
    BY DEF OnlyCalls, GetNonceGap, onChain, serverState
  <1>2. CASE RefuseCall(r)
    BY <1>1, <1>2, RefuseKeeps
  <1>3. CASE call' = [call EXCEPT ![r].at = "reply", ![r].gap = gap]
    <2>1. /\ call[r].lastKnown \in Nat /\ call[r].nonce \in Int /\ call[r].lastKnown <= call[r].nonce
          /\ pruned \in Nat /\ pruned <= call[r].lastKnown /\ Len(sent) \in Nat /\ call[r].nonce < Len(sent)
      BY <1>1, CallOf DEF IInv, RequestsTypeOK, NonceKnown, Sent
    <2>2. gap \in SUBSET Nat /\ gap = call[r].lastKnown..call[r].nonce - 1
      BY <2>1 DEF NonceGapFilled
    <2>3. PICK knew \in SUBSET Nat : knew = gap
      BY <2>2
    <2>4. call' = [call EXCEPT ![r].at = "reply", ![r].gap = knew]
      BY <1>3, <2>3
    <2> HIDE DEF gap
    <2>5. /\ call' \in [Requests -> CallRecords] /\ \A s \in Requests \ {r} : call'[s] = call[s]
          /\ call'[r].at = "reply" /\ call'[r].nonce = call[r].nonce /\ call'[r].lastKnown = call[r].lastKnown
          /\ call'[r].maxNonce = call[r].maxNonce /\ call'[r].answer = call[r].answer /\ call'[r].gap = knew
      <3>1. "reply" \in Waiting \cup Checking \cup Sent
        BY DEF Sent
      <3> QED
        BY <2>4, <3>1 DEF IInv, RequestsTypeOK, CallRecords
    <2>6. NonceKnown(r)' /\ call'[r].answer = "none"
      BY <1>1, <2>2, <2>3, <2>5 DEF IInv, NonceKnown, Sent, Checking, OnlyCalls, GapSuffices
    <2>7. Busy(r) /\ call'[r].at \in Sent /\ call'[r].nonce < Len(sent)
      BY <1>1, <2>1, <2>5 DEF Busy, Sent
    <2> QED
      BY <1>1, <2>5, <2>6, <2>7, CallKeeps
  <1> QED
    BY <1>2, <1>3 DEF GetNonceGap

\* An answer that the client gets adds up.
LEMMA ReplyKeeps ==
    ASSUME RequestsAssumption, IInv, NEW r \in Requests, Reply(r)
    PROVE  IInv'
  <1>1. OnlyCalls /\ call[r].at = "reply"
    BY DEF OnlyCalls, Reply, onChain, serverState
  <1>2. /\ call[r].lastKnown \in Nat /\ call[r].nonce \in Int /\ call[r].lastKnown <= call[r].nonce
        /\ call[r].gap = call[r].lastKnown..call[r].nonce - 1
        /\ GapSuffices => call[r].nonce <= call[r].maxNonce
    BY <1>1, CallOf DEF IInv, NonceKnown, Sent
  <1>3. Cardinality(call[r].gap) = call[r].nonce - call[r].lastKnown
    <2>1. PICK a : a = call[r].lastKnown
      OBVIOUS
    <2>2. PICK b : b = call[r].nonce - 1
      OBVIOUS
    <2>3. a \in Int /\ b \in Int /\ a <= b + 1 /\ call[r].gap = a..b /\ b - a + 1 = call[r].nonce - call[r].lastKnown
      BY <1>2, <2>1, <2>2
    <2>4. Cardinality(a..b) = IF a > b THEN 0 ELSE b - a + 1
      BY <2>3, FS_Interval
    <2> QED
      BY <2>3, <2>4
  <1>4. GapSuffices => IsTransactionValid(r)
    BY <1>2, <1>3 DEF IsTransactionValid, IsNonceGapFilledSizeValid, IsTransactionNonceValid, IsNonceGapFilled
  <1>5. PICK answer \in {"accepted", "rejected"} : answer = IF IsTransactionValid(r) THEN "accepted" ELSE "rejected"
    OBVIOUS
  <1>6. call' = [call EXCEPT ![r].at = "done", ![r].answer = answer]
    BY <1>5 DEF Reply
  <1>7. /\ call' \in [Requests -> CallRecords] /\ \A s \in Requests \ {r} : call'[s] = call[s]
        /\ call'[r].at = "done" /\ call'[r].nonce = call[r].nonce /\ call'[r].answer = answer
    <2>1. "done" \in Waiting /\ answer \in Answers
      BY DEF Waiting, Answers
    <2> QED
      BY <1>6, <2>1 DEF IInv, RequestsTypeOK, CallRecords
  <1>8. GapSuffices => answer # "rejected"
    BY <1>4, <1>5
  <1>9. NonceKnown(r)' /\ call'[r].nonce < Len(sent) /\ call'[r].at \notin Checking \cup Sent
    BY <1>7 DEF IInv, RequestsTypeOK, NonceKnown, Checking, Sent
  <1> QED
    BY <1>1, <1>7, <1>8, <1>9, CallKeeps DEF Checking, Sent

LEMMA NextKeeps ==
    ASSUME RequestsAssumption, IInv, [RequestsNext]_requestVars
    PROVE  IInv'
  <1>1. CASE MineCall
    BY <1>1, MineKeeps
  <1>2. CASE Prune
    BY <1>2, PruneKeeps
  <1>3. CASE Change \/ UNCHANGED requestVars
    BY <1>3, ChangeKeeps
  <1>4. ASSUME NEW r \in Requests, Prepare(r) \/ CreateRelayTransaction(r) \/ Reply(r)
        PROVE  IInv'
    BY <1>4, PrepareKeeps, StartKeeps, DelayedKeeps, ValidateInputKeeps, ValidateMaxNonceKeeps,
       ValidateLimitsKeeps, ValidateViewCallKeeps, SendKeeps, GetNonceGapKeeps, ReplyKeeps
    DEF CreateRelayTransaction
  <1> QED
    BY <1>1, <1>2, <1>3, <1>4 DEF RequestsNext

\* The server's checks, its transactions and their nonces (createRelayTransaction).
THEOREM Invariant == ASSUME RequestsAssumption PROVE RequestsSpec => []IInv
  <1>1. RequestsInit => IInv
    BY InitHolds
  <1>2. IInv /\ [RequestsNext]_requestVars => IInv'
    BY NextKeeps
  <1> QED
    BY <1>1, <1>2, PTL DEF RequestsSpec

\* A server that handles requests one by one is paid for every call it sends, and the
\* client accepts what an honest server answers when the requests between do not use up
\* maxRelayNonceGap (createRelayTransaction, validateRelayResponse).
THEOREM CallsAreSound == ASSUME RequestsAssumption PROVE RequestsSpec => []CallsSound
  <1>1. ASSUME IInv
        PROVE  CallsSound
    <2>1. ASSUME Serial
          PROVE  PaidFor
      BY <1>1, <2>1 DEF IInv, SentIsPaid, PaidFor
    <2> QED
      BY <1>1, <2>1 DEF IInv, CallsSound
  <1>2. IInv => CallsSound
    BY <1>1
  <1> QED
    BY <1>2, Invariant, PTL

-----------------------------------------------------------------------------
(* Lifecycle                                                               *)

\* Servers that were not made are as new; the clock of each is behind the time.
MadeOrNew ==
    /\ \A s \in Servers : s > made => server[s] = NewServer /\ readyFor[s] = 0
    /\ \A s \in Servers : /\ server[s].currentStateTimestamp <= now
                          /\ server[s].timers + server[s].passes <= 1

\* A server that runs is the environment's, which has one of its own from its start
\* until it is stopped, and none while it makes one.
OwnServer ==
    /\ \A s \in Servers : server[s].running => s = env.httpServer
    /\ env.httpServer # NoServer =>
           (server[env.httpServer].running <=> env.at \notin {"clear", "clearFirst"})
    /\ env.at \in Served \cup {"clear", "clearFirst"} => env.httpServer # NoServer
    /\ env.at \in {"deploy", "run"} => env.httpServer = NoServer

\* A call of startGsn makes one server.
OneEach ==
    /\ made <= env.starts
    /\ env.at \in {"stopFirst", "clearFirst", "deploy", "run"} => made < env.starts

LifecycleInv == LifecycleTypeOK /\ MadeOrNew /\ OwnServer /\ OneEach /\ StatsAreTrue

-----------------------------------------------------------------------------

LEMMA BoundsType == MaxStarts \in Nat /\ MaxTime \in Nat /\ Timeout \in Nat
  BY LifecycleAssumption

LEMMA NewServerType ==
    /\ NewServer \in ServerType /\ ~NewServer.running /\ ~NewServer.ready
    /\ NewServer.timers = 0 /\ NewServer.passes = 0 /\ NewServer.currentStateTimestamp = 0
    /\ NewServer.runningSince = 0 /\ NewServer.totalReadyTime = 0
    /\ NewServer.totalNotReadyTime = 0 /\ ~NewServer.listening /\ NewServer.store = {}
  BY DEF NewServer, ServerType

LEMMA LifecycleInitHolds == LifecycleInit => LifecycleInv
  <1> SUFFICES ASSUME LifecycleInit PROVE LifecycleInv
    OBVIOUS
  <1>1. LifecycleTypeOK
    BY NewServerType, BoundsType
    DEF LifecycleInit, LifecycleTypeOK, Places, Resting, Served, NoServer, Servers
  <1>2. MadeOrNew /\ OwnServer /\ OneEach /\ StatsAreTrue
    BY NewServerType, BoundsType
    DEF LifecycleInit, MadeOrNew, OwnServer, OneEach, StatsAreTrue, Served, NoServer, Servers
  <1> QED
    BY <1>1, <1>2 DEF LifecycleInv

\* What the environment does without touching a server.
LEMMA EnvKeeps ==
    ASSUME LifecycleInv, UNCHANGED <<made, server, now, readyFor>>,
           LifecycleTypeOK', OwnServer', OneEach'
    PROVE  LifecycleInv'
  <1>1. MadeOrNew'
    BY DEF MadeOrNew, LifecycleInv
  <1>2. StatsAreTrue'
    BY DEF StatsAreTrue, Stats, LifecycleInv
  <1> QED
    BY <1>1, <1>2 DEF LifecycleInv

LEMMA EnvTurns ==
    ASSUME LifecycleInv, UNCHANGED <<made, server, now, readyFor>>,
           NEW place \in Places, EnvGoes(place),
           place \in {"deploy", "run"} => env.httpServer = NoServer,
           place \in Served => env.httpServer # NoServer, place \notin {"clear", "clearFirst"},
           place \in {"stopFirst", "deploy", "run"} => made < env.starts,
           env.at \notin {"clear", "clearFirst"}
    PROVE  LifecycleInv'
  <1>1. LifecycleTypeOK'
    BY DEF EnvGoes, LifecycleInv, LifecycleTypeOK
  <1>2. OwnServer'
    BY DEF EnvGoes, LifecycleInv, LifecycleTypeOK, OwnServer
  <1>3. OneEach'
    BY DEF EnvGoes, LifecycleInv, LifecycleTypeOK, OneEach
  <1> QED
    BY <1>1, <1>2, <1>3, EnvKeeps

\* What one server does: it stays what it was in all but what is said of it.
LEMMA ServerKeeps ==
    ASSUME LifecycleInv, NEW s \in 1 .. made, NEW r \in ServerType,
           server' = [server EXCEPT ![s] = r], UNCHANGED <<made, now, readyFor>>,
           LifecycleTypeOK', OwnServer', OneEach',
           r.currentStateTimestamp <= now, r.timers + r.passes <= 1,
           LET since == now - r.currentStateTimestamp
           IN  /\ r.totalReadyTime + (IF r.ready THEN since ELSE 0) = readyFor[s]
               /\ r.totalReadyTime + (IF r.ready THEN since ELSE 0)
                  + (r.totalNotReadyTime + (IF r.ready THEN 0 ELSE since)) = now - r.runningSince
    PROVE  LifecycleInv'
  <1> USE DEF LifecycleInv
  <1>1. s \in Servers /\ ~(s > made)
    BY BoundsType DEF LifecycleTypeOK, Servers
  <1>2. \A z \in Servers : server'[z] = IF z = s THEN r ELSE server[z]
    BY <1>1 DEF LifecycleTypeOK
  <1>3. MadeOrNew'
    BY <1>1, <1>2 DEF MadeOrNew
  <1>4. ASSUME NEW z \in 1 .. made
        PROVE  Stats(z)'.ready = readyFor[z] /\ Stats(z)'.ready + Stats(z)'.notReady = Stats(z)'.uptime
    <2>1. z \in Servers
      BY BoundsType DEF LifecycleTypeOK, Servers
    <2>2. CASE z = s
      BY <1>2, <2>1, <2>2 DEF Stats
    <2>3. CASE z # s
      BY <1>2, <2>1, <2>3 DEF Stats, StatsAreTrue
    <2> QED
      BY <2>2, <2>3
  <1>5. StatsAreTrue'
    BY <1>4 DEF StatsAreTrue
  <1> QED
    BY <1>3, <1>5

\* What a server's record says it is, as numbers.
LEMMA StatsOf ==
    ASSUME LifecycleInv, NEW s \in 1 .. made
    PROVE  LET r == server[s]
               since == now - r.currentStateTimestamp
           IN  /\ s \in Servers /\ r \in ServerType
               /\ r.totalReadyTime + (IF r.ready THEN since ELSE 0) = readyFor[s]
               /\ r.totalReadyTime + (IF r.ready THEN since ELSE 0)
                  + (r.totalNotReadyTime + (IF r.ready THEN 0 ELSE since)) = now - r.runningSince
               /\ r.currentStateTimestamp <= now /\ r.timers + r.passes <= 1
  <1>1. s \in Servers /\ server[s] \in ServerType
    BY BoundsType DEF LifecycleInv, LifecycleTypeOK, Servers
  <1> QED
    BY <1>1 DEF LifecycleInv, StatsAreTrue, Stats, MadeOrNew

\* A server that has a timer or a pass was made.
LEMMA WasMade ==
    ASSUME LifecycleInv, NEW s \in Servers, server[s].timers > 0 \/ server[s].passes > 0
    PROVE  s \in 1 .. made
  BY NewServerType DEF LifecycleInv, LifecycleTypeOK, MadeOrNew, Servers

-----------------------------------------------------------------------------
(* The environment's steps.                                                *)

LEMMA StartGsnKeeps == ASSUME LifecycleInv, StartGsn PROVE LifecycleInv'
  <1>1. env.starts + 1 \in 0 .. MaxStarts /\ "stopFirst" \in Places
    BY BoundsType DEF StartGsn, LifecycleInv, LifecycleTypeOK, Places
  <1>3. LifecycleTypeOK'
    BY <1>1 DEF StartGsn, LifecycleInv, LifecycleTypeOK
  <1>2. OwnServer' /\ OneEach'
    BY DEF StartGsn, LifecycleInv, LifecycleTypeOK, OwnServer, OneEach, Resting, Served
  <1> QED
    BY <1>2, <1>3, EnvKeeps DEF StartGsn

LEMMA StopKeeps == ASSUME LifecycleInv, StopGsn PROVE LifecycleInv'
  BY EnvTurns DEF StopGsn, Places, Resting, Served

LEMMA NothingToStopKeeps == ASSUME LifecycleInv, NothingToStop PROVE LifecycleInv'
  <1>1. CASE env.at = "stop"
    BY <1>1, EnvTurns DEF NothingToStop, Places, Resting, Served
  <1>2. CASE env.at = "stopFirst"
    <2>1. made < env.starts /\ "deploy" \in Places /\ "deploy" \notin Served
      BY <1>2 DEF LifecycleInv, OneEach, Places, Served
    <2> QED
      BY <1>2, <2>1, EnvTurns DEF NothingToStop
  <1> QED
    BY <1>1, <1>2 DEF NothingToStop

LEMMA DeployKeeps == ASSUME LifecycleInv, DeployGsn PROVE LifecycleInv'
  <1>1. /\ "run" \in Places /\ "run" \notin Served /\ "failed" \in Places /\ "failed" \notin Served
        /\ made < env.starts /\ env.httpServer = NoServer
    BY DEF DeployGsn, LifecycleInv, OneEach, OwnServer, Places, Served, Resting
  <1> QED
    BY <1>1, EnvTurns DEF DeployGsn

LEMMA RegisterKeeps == ASSUME LifecycleInv, RegisterRelay PROVE LifecycleInv'
  <1>1. CASE EnvGoes("failed")
    BY <1>1, EnvTurns DEF RegisterRelay, Places, Resting, Served
  <1>2. CASE env' = [env EXCEPT !.at = "wait", !.deadline = Sooner(now + Timeout, MaxTime)]
    <2>1. Sooner(now + Timeout, MaxTime) \in 0 .. MaxTime
      BY BoundsType DEF Sooner, LifecycleInv, LifecycleTypeOK
    <2>2. LifecycleTypeOK'
      BY <1>2, <2>1 DEF RegisterRelay, LifecycleInv, LifecycleTypeOK, Places, Served
    <2>3. OwnServer' /\ OneEach'
      BY <1>2 DEF RegisterRelay, LifecycleInv, LifecycleTypeOK, OwnServer, OneEach, Served
    <2> QED
      BY <2>2, <2>3, EnvKeeps DEF RegisterRelay
  <1> QED
    BY <1>1, <1>2 DEF RegisterRelay

LEMMA WaitKeeps == ASSUME LifecycleInv, WaitForRelay PROVE LifecycleInv'
  <1>1. env.httpServer # NoServer
    BY DEF WaitForRelay, LifecycleInv, OwnServer, Served
  <1> QED
    BY <1>1, EnvTurns DEF WaitForRelay, Places, Resting, Served

LEMMA InitClientKeeps == ASSUME LifecycleInv, InitClient PROVE LifecycleInv'
  <1>1. env.httpServer # NoServer
    BY DEF InitClient, LifecycleInv, OwnServer, Served
  <1> QED
    BY <1>1, EnvTurns DEF InitClient, Places, Resting, Served

LEMMA StopServerKeeps == ASSUME LifecycleInv, StopServer PROVE LifecycleInv'
  <1> DEFINE s == env.httpServer
             r == [server[s] EXCEPT !.listening = FALSE, !.running = FALSE]
             place == IF env.at = "stop" THEN "clear" ELSE "clearFirst"
  <1>1. s \in 1 .. made
    BY DEF StopServer, LifecycleInv, LifecycleTypeOK, NoServer
  <1>2. s \in Servers /\ server[s] \in ServerType
    BY <1>1, StatsOf
  <1>3. server' = [server EXCEPT ![s] = r]
    BY <1>2 DEF StopServer
  <1>4. /\ r \in ServerType /\ r.timers = server[s].timers /\ r.passes = server[s].passes
        /\ r.ready = server[s].ready /\ r.currentStateTimestamp = server[s].currentStateTimestamp
        /\ r.runningSince = server[s].runningSince /\ r.totalReadyTime = server[s].totalReadyTime
        /\ r.totalNotReadyTime = server[s].totalNotReadyTime /\ ~r.running
    BY <1>2 DEF ServerType
  <1>5. /\ env' = [env EXCEPT !.at = place] /\ place \in Places /\ place \in {"clear", "clearFirst"}
        /\ env.at \in {"stop", "stopFirst"} /\ env.httpServer # NoServer
        /\ UNCHANGED <<made, now, readyFor>>
    BY DEF StopServer, EnvGoes, Places
  <1>6. place = "clearFirst" => made < env.starts
    BY <1>5 DEF LifecycleInv, OneEach
  <1>7. \A z \in Servers : server'[z] = IF z = s THEN r ELSE server[z]
    BY <1>2, <1>3 DEF LifecycleInv, LifecycleTypeOK
  <1> HIDE DEF s, r, place
  <1>8. LifecycleTypeOK'
    BY <1>2, <1>3, <1>4, <1>5 DEF LifecycleInv, LifecycleTypeOK
  <1>9. env'.at = place /\ env'.httpServer = s /\ env'.starts = env.starts
    BY <1>5 DEF LifecycleInv, LifecycleTypeOK, s
  <1>10. OwnServer'
    BY <1>2, <1>4, <1>5, <1>7, <1>9 DEF LifecycleInv, OwnServer, Served, s
  <1>11. OneEach'
    BY <1>5, <1>6, <1>9 DEF LifecycleInv, OneEach
  <1> QED
    BY <1>1, <1>3, <1>4, <1>5, <1>8, <1>10, <1>11, ServerKeeps, StatsOf

LEMMA ClearKeeps == ASSUME LifecycleInv, ClearAll PROVE LifecycleInv'
  <1> DEFINE s == env.httpServer
             r == [server[s] EXCEPT !.store = {}]
             place == IF env.at = "clear" THEN "idle" ELSE "deploy"
  <1>1. s \in 1 .. made
    BY DEF ClearAll, LifecycleInv, LifecycleTypeOK, OwnServer, NoServer
  <1>2. s \in Servers /\ server[s] \in ServerType
    BY <1>1, StatsOf
  <1>3. server' = [server EXCEPT ![s] = r]
    BY <1>2 DEF ClearAll
  <1>4. /\ r \in ServerType /\ r.timers = server[s].timers /\ r.passes = server[s].passes
        /\ r.ready = server[s].ready /\ r.currentStateTimestamp = server[s].currentStateTimestamp
        /\ r.runningSince = server[s].runningSince /\ r.totalReadyTime = server[s].totalReadyTime
        /\ r.totalNotReadyTime = server[s].totalNotReadyTime /\ r.running = server[s].running
    BY <1>2 DEF ServerType
  <1>5. /\ env' = [env EXCEPT !.httpServer = NoServer, !.at = place]
        /\ place \in Places /\ place \in {"idle", "deploy"} /\ (place = "deploy" => env.at = "clearFirst")
        /\ env.at \in {"clear", "clearFirst"}
        /\ UNCHANGED <<made, now, readyFor>>
    BY DEF ClearAll, Places, Resting
  <1>6. place = "deploy" => made < env.starts
    BY <1>5 DEF LifecycleInv, OneEach
  <1>7. \A z \in Servers : server'[z] = IF z = s THEN r ELSE server[z]
    BY <1>2, <1>3 DEF LifecycleInv, LifecycleTypeOK
  <1> HIDE DEF s, r, place
  <1>8. LifecycleTypeOK'
    <2>1. NoServer \in 0 .. MaxStarts /\ NoServer <= made
      BY BoundsType DEF LifecycleInv, LifecycleTypeOK, NoServer
    <2>2. env' \in [at : Places, starts : 0..MaxStarts, httpServer : 0..MaxStarts, deadline : 0..MaxTime]
      BY <1>5, <2>1 DEF LifecycleInv, LifecycleTypeOK
    <2>3. env'.httpServer = NoServer
      BY <1>5 DEF LifecycleInv, LifecycleTypeOK
    <2> QED
      BY <1>2, <1>3, <1>4, <1>5, <2>1, <2>2, <2>3 DEF LifecycleInv, LifecycleTypeOK
  <1>9. env'.at = place /\ env'.httpServer = NoServer /\ env'.starts = env.starts
    BY <1>5 DEF LifecycleInv, LifecycleTypeOK
  <1>10. \A z \in Servers : ~server[z].running
    BY <1>5 DEF LifecycleInv, OwnServer
  <1>11. OwnServer'
    BY <1>4, <1>5, <1>7, <1>9, <1>10 DEF OwnServer, Served
  <1>12. OneEach'
    BY <1>5, <1>6, <1>9 DEF LifecycleInv, OneEach
  <1> QED
    BY <1>1, <1>3, <1>4, <1>5, <1>8, <1>11, <1>12, ServerKeeps, StatsOf

\* The constructor sets the statistics of a server nobody made before.
LEMMA RunKeeps == ASSUME LifecycleInv, RunServer PROVE LifecycleInv'
  <1> DEFINE s == made + 1
             new == [NewServer EXCEPT !.runningSince = now, !.currentStateTimestamp = now]
             started == [new EXCEPT !.listening = TRUE, !.running = TRUE, !.timers = 1]
  <1>1. env.at = "run" /\ env.httpServer = NoServer /\ made < env.starts
    BY DEF RunServer, LifecycleInv, OwnServer, OneEach
  <1>2. s \in Servers /\ s > made /\ now \in Nat /\ made \in Nat /\ made' = s
    BY <1>1, BoundsType DEF RunServer, LifecycleInv, LifecycleTypeOK, Servers
  <1>3. PICK r \in {new, started} :
           /\ server' = [server EXCEPT ![s] = r]
           /\ (r = started /\ env' = [env EXCEPT !.at = "register", !.httpServer = s])
              \/ (r = new /\ env' = [env EXCEPT !.at = "failed"])
    BY <1>1 DEF RunServer, EnvGoes
  <1>4. /\ r \in ServerType /\ r.passes = 0 /\ r.timers \in {0, 1} /\ ~r.ready
        /\ r.runningSince = now /\ r.currentStateTimestamp = now
        /\ r.totalReadyTime = 0 /\ r.totalNotReadyTime = 0
        /\ r = new => ~r.running
        /\ r = started => r.running
    <2>1. /\ new.passes = 0 /\ new.timers = 0 /\ ~new.ready /\ ~new.running
          /\ new.runningSince = now /\ new.currentStateTimestamp = now
          /\ new.totalReadyTime = 0 /\ new.totalNotReadyTime = 0
      BY NewServerType DEF ServerType
    <2>2. new \in ServerType
      BY <1>2, NewServerType DEF ServerType
    <2> HIDE DEF new
    <2>3. /\ started.passes = 0 /\ started.timers = 1 /\ ~started.ready /\ started.running
          /\ started.runningSince = now /\ started.currentStateTimestamp = now
          /\ started.totalReadyTime = 0 /\ started.totalNotReadyTime = 0
      BY <2>1, <2>2 DEF ServerType
    <2>4. started \in ServerType
      BY <2>2 DEF ServerType
    <2> HIDE DEF started
    <2> QED
      BY <1>3, <2>1, <2>2, <2>3, <2>4
  <1>5. \A z \in Servers : server'[z] = IF z = s THEN r ELSE server[z]
    BY <1>2, <1>3 DEF LifecycleInv, LifecycleTypeOK
  <1>6. UNCHANGED <<now, readyFor>> /\ readyFor[s] = 0
    BY <1>2 DEF RunServer, LifecycleInv, MadeOrNew
  <1>7. /\ env'.starts = env.starts
        /\ (r = started /\ env'.at = "register" /\ env'.httpServer = s)
           \/ (r = new /\ env'.at = "failed" /\ env'.httpServer = NoServer)
    BY <1>1, <1>3 DEF LifecycleInv, LifecycleTypeOK
  <1>8. "register" \in Places /\ "failed" \in Places /\ "register" \in Served /\ "failed" \notin Served
    BY DEF Places, Served, Resting
  <1>9. LifecycleTypeOK'
    <2>1. s \in 0 .. MaxStarts
      BY <1>2, BoundsType DEF Servers
    <2>2. server' \in [Servers -> ServerType]
      BY <1>2, <1>3, <1>4 DEF LifecycleInv, LifecycleTypeOK
    <2>3. env' \in [at : Places, starts : 0..MaxStarts, httpServer : 0..MaxStarts, deadline : 0..MaxTime]
      BY <1>3, <1>8, <2>1 DEF LifecycleInv, LifecycleTypeOK
    <2> QED
      BY <1>2, <1>6, <1>7, <2>1, <2>2, <2>3 DEF LifecycleInv, LifecycleTypeOK, NoServer
  <1> HIDE DEF s, new, started
  <1>10. \A z \in Servers : ~server[z].running
    BY <1>1 DEF LifecycleInv, OwnServer, LifecycleTypeOK, NoServer, Servers
  <1>11. OwnServer'
    BY <1>2, <1>4, <1>5, <1>7, <1>8, <1>10 DEF OwnServer, NoServer
  <1>12. OneEach'
    BY <1>1, <1>2, <1>7 DEF LifecycleInv, LifecycleTypeOK, OneEach, s
  <1>13. MadeOrNew'
    BY <1>2, <1>4, <1>5, <1>6 DEF LifecycleInv, LifecycleTypeOK, MadeOrNew, s, Servers
  <1>14. ASSUME NEW z \in 1 .. made'
         PROVE  Stats(z)'.ready = readyFor'[z] /\ Stats(z)'.ready + Stats(z)'.notReady = Stats(z)'.uptime
    <2>1. CASE z = s
      BY <1>2, <1>4, <1>5, <1>6, <2>1 DEF Stats
    <2>2. CASE z # s
      <3>1. z \in 1 .. made /\ z \in Servers
        BY <1>2, <2>2, BoundsType DEF s, Servers, LifecycleInv, LifecycleTypeOK
      <3> QED
        BY <1>5, <1>6, <2>2, <3>1 DEF Stats, LifecycleInv, StatsAreTrue
    <2> QED
      BY <2>1, <2>2
  <1>15. StatsAreTrue'
    BY <1>14 DEF StatsAreTrue
  <1> QED
    BY <1>9, <1>11, <1>12, <1>13, <1>15 DEF LifecycleInv

-----------------------------------------------------------------------------
(* The servers' steps.                                                     *)

LEMMA IntervalKeeps ==
    ASSUME LifecycleInv, NEW s \in Servers, IntervalHandler(s) PROVE LifecycleInv'
  <1> DEFINE r == [server[s] EXCEPT !.timers = @ - 1, !.passes = @ + 1]
  <1>1. s \in 1 .. made
    BY WasMade DEF IntervalHandler
  <1>2. server[s] \in ServerType
    BY <1>1, StatsOf
  <1>3. server' = [server EXCEPT ![s] = r] /\ UNCHANGED <<env, made, now, readyFor>>
    BY DEF IntervalHandler
  <1>4. /\ r \in ServerType /\ r.timers + r.passes = server[s].timers + server[s].passes
        /\ r.ready = server[s].ready /\ r.currentStateTimestamp = server[s].currentStateTimestamp
        /\ r.runningSince = server[s].runningSince /\ r.totalReadyTime = server[s].totalReadyTime
        /\ r.totalNotReadyTime = server[s].totalNotReadyTime /\ r.running = server[s].running
    <2> DEFINE old == server[s]
    <2>1. /\ old.timers \in Nat /\ old.passes \in Nat /\ old.timers - 1 \in Nat
          /\ old.passes + 1 \in Nat /\ old \in ServerType
      BY <1>2 DEF ServerType, IntervalHandler
    <2> HIDE DEF old
    <2>2. r = [old EXCEPT !.timers = old.timers - 1, !.passes = old.passes + 1]
      BY DEF old
    <2> HIDE DEF r
    <2>3. /\ r.timers = old.timers - 1 /\ r.passes = old.passes + 1
          /\ r.ready = old.ready /\ r.currentStateTimestamp = old.currentStateTimestamp
          /\ r.runningSince = old.runningSince /\ r.totalReadyTime = old.totalReadyTime
          /\ r.totalNotReadyTime = old.totalNotReadyTime /\ r.running = old.running
      BY <2>1, <2>2 DEF ServerType
    <2>4. [old EXCEPT !.timers = old.timers - 1] \in ServerType
      BY <2>1 DEF ServerType
    <2>5. r \in ServerType
      BY <2>1, <2>2, <2>4 DEF ServerType
    <2> QED
      BY <2>1, <2>3, <2>5 DEF old
  <1>5. \A z \in Servers : server'[z] = IF z = s THEN r ELSE server[z]
    BY <1>3 DEF LifecycleInv, LifecycleTypeOK
  <1> HIDE DEF r
  <1>6. LifecycleTypeOK'
    BY <1>3, <1>4 DEF LifecycleInv, LifecycleTypeOK
  <1>7. OwnServer' /\ OneEach'
    BY <1>3, <1>4, <1>5 DEF LifecycleInv, OwnServer, OneEach, LifecycleTypeOK, NoServer, Servers
  <1> QED
    BY <1>1, <1>3, <1>4, <1>6, <1>7, ServerKeeps, StatsOf

\* setReadyState accumulates the time since the last change, and no other.
LEMMA CountedRight ==
    ASSUME LifecycleInv, NEW s \in 1 .. made, NEW isReady \in BOOLEAN
    PROVE  LET r == Counted(server[s], isReady)
               since == now - r.currentStateTimestamp
           IN  /\ r \in ServerType /\ r.running = server[s].running
               /\ r.timers = server[s].timers /\ r.passes = server[s].passes
               /\ r.currentStateTimestamp <= now
               /\ r.totalReadyTime + (IF r.ready THEN since ELSE 0) = readyFor[s]
               /\ r.totalReadyTime + (IF r.ready THEN since ELSE 0)
                  + (r.totalNotReadyTime + (IF r.ready THEN 0 ELSE since)) = now - r.runningSince
  <1> DEFINE old == server[s]
             r == Counted(old, isReady)
  <1>1. /\ old \in ServerType /\ old.currentStateTimestamp <= now
        /\ old.totalReadyTime + (IF old.ready THEN now - old.currentStateTimestamp ELSE 0) = readyFor[s]
        /\ old.totalReadyTime + (IF old.ready THEN now - old.currentStateTimestamp ELSE 0)
             + (old.totalNotReadyTime + (IF old.ready THEN 0 ELSE now - old.currentStateTimestamp))
             = now - old.runningSince
    BY StatsOf
  <1>2. now \in Nat
    BY DEF LifecycleInv, LifecycleTypeOK
  <1>3. /\ old.timers \in Nat /\ old.passes \in Nat /\ old.totalReadyTime \in Nat
        /\ old.totalNotReadyTime \in Nat /\ old.currentStateTimestamp \in Nat
        /\ old.runningSince \in Nat /\ old.ready \in BOOLEAN /\ old.running \in BOOLEAN
    BY <1>1 DEF ServerType
  <1>4. CASE old.ready = isReady
    <2>1. r = old
      BY <1>4 DEF Counted
    <2> HIDE DEF r, old
    <2>2. r \in ServerType
      BY <1>1, <2>1
    <2> QED
      BY <1>1, <2>1, <2>2 DEF old, r
  <1>5. CASE old.ready # isReady
    <2> DEFINE since == now - old.currentStateTimestamp
    <2>1. since \in Nat
      BY <1>1, <1>2, <1>3
    <2>2. r = [old EXCEPT !.ready = isReady,
                 !.totalReadyTime = IF isReady THEN @ ELSE @ + since,
                 !.totalNotReadyTime = IF isReady THEN @ + since ELSE @,
                 !.currentStateTimestamp = now]
      BY <1>5 DEF Counted
    <2>3. /\ r.ready = isReady /\ r.currentStateTimestamp = now /\ r.runningSince = old.runningSince
          /\ r.timers = old.timers /\ r.passes = old.passes /\ r.running = old.running
          /\ r.totalReadyTime = (IF isReady THEN old.totalReadyTime ELSE old.totalReadyTime + since)
          /\ r.totalNotReadyTime = (IF isReady THEN old.totalNotReadyTime + since ELSE old.totalNotReadyTime)
      BY <1>1, <2>2 DEF ServerType
    <2>4. r \in ServerType
      <3> DEFINE readyTime == IF isReady THEN old.totalReadyTime ELSE old.totalReadyTime + since
                 notReadyTime == IF isReady THEN old.totalNotReadyTime + since ELSE old.totalNotReadyTime
                 r1 == [old EXCEPT !.ready = isReady]
                 r2 == [r1 EXCEPT !.totalReadyTime = readyTime]
                 r3 == [r2 EXCEPT !.totalNotReadyTime = notReadyTime]
      <3>1. readyTime \in Nat /\ notReadyTime \in Nat
        BY <1>3, <2>1
      <3> HIDE DEF since, readyTime, notReadyTime
      <3>2. r = [r3 EXCEPT !.currentStateTimestamp = now]
        BY <1>1, <2>2 DEF readyTime, notReadyTime, ServerType
      <3> HIDE DEF old, r
      <3>3. r1 \in ServerType
        BY <1>1 DEF ServerType
      <3> HIDE DEF r1
      <3>4. r2 \in ServerType
        BY <3>1, <3>3 DEF ServerType
      <3> HIDE DEF r2
      <3>5. r3 \in ServerType
        BY <3>1, <3>4 DEF ServerType
      <3> HIDE DEF r3
      <3> QED
        BY <1>2, <3>2, <3>5 DEF ServerType
    <2> HIDE DEF r, old
    <2>5. /\ r.totalReadyTime + (IF r.ready THEN now - r.currentStateTimestamp ELSE 0) = readyFor[s]
          /\ r.totalReadyTime + (IF r.ready THEN now - r.currentStateTimestamp ELSE 0)
             + (r.totalNotReadyTime + (IF r.ready THEN 0 ELSE now - r.currentStateTimestamp))
             = now - r.runningSince
      BY <1>1, <1>2, <1>3, <1>5, <2>3
    <2>6. r.currentStateTimestamp <= now
      BY <1>2, <2>3
    <2> QED
      BY <2>3, <2>4, <2>5, <2>6 DEF r, old
  <1> QED
    BY <1>4, <1>5

LEMMA EndPassKeeps ==
    ASSUME LifecycleInv, NEW s \in Servers, NEW isReady \in BOOLEAN, NEW with \in SUBSET {"tx"},
           EndPass(s, isReady, with)
    PROVE  LifecycleInv'
  <1> DEFINE c == Counted(server[s], isReady)
             e == [c EXCEPT !.passes = @ - 1, !.store = @ \union with]
             r == Rearmed(e)
  <1>1. s \in 1 .. made
    BY WasMade DEF EndPass
  <1>2. /\ c \in ServerType /\ c.running = server[s].running /\ c.timers = server[s].timers
        /\ c.passes = server[s].passes /\ c.currentStateTimestamp <= now
        /\ c.totalReadyTime + (IF c.ready THEN now - c.currentStateTimestamp ELSE 0) = readyFor[s]
        /\ c.totalReadyTime + (IF c.ready THEN now - c.currentStateTimestamp ELSE 0)
             + (c.totalNotReadyTime + (IF c.ready THEN 0 ELSE now - c.currentStateTimestamp))
             = now - c.runningSince
    BY <1>1, CountedRight
  <1>3. server[s].timers + server[s].passes <= 1 /\ server[s].passes > 0 /\ server[s] \in ServerType
    BY <1>1, StatsOf DEF EndPass
  <1>4. server' = [server EXCEPT ![s] = r] /\ UNCHANGED <<env, made, now, readyFor>>
    BY DEF EndPass
  <1> HIDE DEF c
  <1>5. c.passes = 1 /\ c.timers = 0
    BY <1>2, <1>3 DEF ServerType
  <1>6. /\ e \in ServerType /\ e.passes = 0 /\ e.timers = 0 /\ e.running = c.running
        /\ e.ready = c.ready /\ e.currentStateTimestamp = c.currentStateTimestamp
        /\ e.runningSince = c.runningSince /\ e.totalReadyTime = c.totalReadyTime
        /\ e.totalNotReadyTime = c.totalNotReadyTime
    <2>1. e = [c EXCEPT !.passes = 0, !.store = c.store \union with]
      BY <1>5
    <2>2. c.store \union with \in SUBSET {"tx"}
      BY <1>2 DEF ServerType
    <2> HIDE DEF e
    <2>3. /\ e.passes = 0 /\ e.timers = c.timers /\ e.running = c.running
          /\ e.ready = c.ready /\ e.currentStateTimestamp = c.currentStateTimestamp
          /\ e.runningSince = c.runningSince /\ e.totalReadyTime = c.totalReadyTime
          /\ e.totalNotReadyTime = c.totalNotReadyTime
      BY <1>2, <2>1 DEF ServerType
    <2>4. [c EXCEPT !.passes = 0] \in ServerType
      BY <1>2 DEF ServerType
    <2>5. e \in ServerType
      BY <2>1, <2>2, <2>4 DEF ServerType
    <2> QED
      BY <1>5, <2>3, <2>5
  <1> HIDE DEF e
  <1>7. /\ r \in ServerType /\ r.passes = 0 /\ r.timers \in {0, 1} /\ r.running = e.running
        /\ r.ready = e.ready /\ r.currentStateTimestamp = e.currentStateTimestamp
        /\ r.runningSince = e.runningSince /\ r.totalReadyTime = e.totalReadyTime
        /\ r.totalNotReadyTime = e.totalNotReadyTime
    BY <1>6 DEF ServerType, Rearmed
  <1>8. \A z \in Servers : server'[z] = IF z = s THEN r ELSE server[z]
    BY <1>4 DEF LifecycleInv, LifecycleTypeOK
  <1> HIDE DEF r
  <1>9. LifecycleTypeOK'
    BY <1>4, <1>7 DEF LifecycleInv, LifecycleTypeOK
  <1>10. OwnServer' /\ OneEach'
    BY <1>2, <1>4, <1>6, <1>7, <1>8 DEF LifecycleInv, OwnServer, OneEach, LifecycleTypeOK, NoServer, Servers
  <1>11. r.currentStateTimestamp <= now /\ r.timers + r.passes <= 1
    BY <1>2, <1>6, <1>7
  <1>12. /\ r.totalReadyTime + (IF r.ready THEN now - r.currentStateTimestamp ELSE 0) = readyFor[s]
         /\ r.totalReadyTime + (IF r.ready THEN now - r.currentStateTimestamp ELSE 0)
             + (r.totalNotReadyTime + (IF r.ready THEN 0 ELSE now - r.currentStateTimestamp))
             = now - r.runningSince
    BY <1>2, <1>6, <1>7
  <1> QED
    BY <1>1, <1>4, <1>7, <1>9, <1>10, <1>11, <1>12, ServerKeeps

LEMMA TickKeeps == ASSUME LifecycleInv, Tick PROVE LifecycleInv'
  <1>1. now \in Nat /\ now' = now + 1 /\ now' \in 0 .. MaxTime /\ UNCHANGED <<env, made, server>>
    BY BoundsType DEF Tick, LifecycleInv, LifecycleTypeOK
  <1>2. \A s \in Servers : /\ server[s].ready \in BOOLEAN /\ readyFor[s] \in Nat
                           /\ server[s].currentStateTimestamp \in Nat
                           /\ readyFor'[s] = IF server[s].ready THEN readyFor[s] + 1 ELSE readyFor[s]
    BY DEF Tick, LifecycleInv, LifecycleTypeOK, ServerType
  <1>3. LifecycleTypeOK'
    BY <1>1, <1>2 DEF Tick, LifecycleInv, LifecycleTypeOK
  <1>4. OwnServer' /\ OneEach'
    BY <1>1 DEF LifecycleInv, OwnServer, OneEach
  <1>5. MadeOrNew'
    BY <1>1, <1>2, NewServerType DEF LifecycleInv, MadeOrNew
  <1>6. ASSUME NEW s \in 1 .. made
        PROVE  Stats(s)'.ready = readyFor'[s] /\ Stats(s)'.ready + Stats(s)'.notReady = Stats(s)'.uptime
    <2> DEFINE r == server[s]
    <2>1. /\ s \in Servers /\ r \in ServerType
          /\ r.totalReadyTime + (IF r.ready THEN now - r.currentStateTimestamp ELSE 0) = readyFor[s]
          /\ r.totalReadyTime + (IF r.ready THEN now - r.currentStateTimestamp ELSE 0)
             + (r.totalNotReadyTime + (IF r.ready THEN 0 ELSE now - r.currentStateTimestamp))
             = now - r.runningSince
      BY StatsOf
    <2>2. /\ r.totalReadyTime \in Nat /\ r.totalNotReadyTime \in Nat /\ r.runningSince \in Nat
          /\ r.currentStateTimestamp \in Nat /\ r.ready \in BOOLEAN
      BY <2>1 DEF ServerType
    <2>3. /\ Stats(s)'.ready = r.totalReadyTime + (IF r.ready THEN now' - r.currentStateTimestamp ELSE 0)
          /\ Stats(s)'.notReady = r.totalNotReadyTime + (IF r.ready THEN 0 ELSE now' - r.currentStateTimestamp)
          /\ Stats(s)'.uptime = now' - r.runningSince
      BY <1>1 DEF Stats
    <2> HIDE DEF r
    <2>4. readyFor'[s] = IF r.ready THEN readyFor[s] + 1 ELSE readyFor[s]
      BY <1>2, <2>1 DEF r
    <2> QED
      BY <1>1, <2>1, <2>2, <2>3, <2>4
  <1>7. StatsAreTrue'
    BY <1>1, <1>6 DEF StatsAreTrue
  <1> QED
    BY <1>3, <1>4, <1>5, <1>7 DEF LifecycleInv

LEMMA LifecycleNextKeeps == LifecycleInv /\ [LifecycleNext]_lifecycleVars => LifecycleInv'
  <1> SUFFICES ASSUME LifecycleInv, [LifecycleNext]_lifecycleVars PROVE LifecycleInv'
    OBVIOUS
  <1>1. CASE UNCHANGED lifecycleVars
    BY <1>1 DEF lifecycleVars, LifecycleInv, LifecycleTypeOK, MadeOrNew, OwnServer, OneEach,
                StatsAreTrue, Stats
  <1>2. CASE EnvStep
    BY <1>2, StopServerKeeps, ClearKeeps, NothingToStopKeeps, DeployKeeps, RunKeeps, RegisterKeeps,
       WaitKeeps, InitClientKeeps DEF EnvStep
  <1>3. CASE StartGsn \/ StopGsn \/ Tick
    BY <1>3, StartGsnKeeps, StopKeeps, TickKeeps
  <1>4. CASE \E s \in Servers : IntervalHandler(s) \/ PassEnds(s)
    BY <1>4, IntervalKeeps, EndPassKeeps DEF PassEnds
  <1> QED
    BY <1>1, <1>2, <1>3, <1>4 DEF LifecycleNext

\* At most one server runs: the one the environment has.
LEMMA OneRuns == ASSUME LifecycleInv PROVE OneServerAtWork
  <1>1. OneServerRuns
    <2> DEFINE R == {s \in Servers : server[s].running}
    <2>1. R \subseteq {env.httpServer}
      BY DEF LifecycleInv, OwnServer
    <2>2. IsFiniteSet({env.httpServer}) /\ Cardinality({env.httpServer}) = 1
      BY FS_Singleton
    <2>3. Cardinality(R) <= 1 /\ Cardinality(R) \in Nat
      BY <2>1, <2>2, FS_Subset, FS_CardinalityType
    <2> QED
      BY <2>3 DEF OneServerRuns
  <1>2. EnvironmentServes
    BY DEF LifecycleInv, OwnServer, EnvironmentServes, Served
  <1>3. OneLoop
    BY DEF LifecycleInv, MadeOrNew, OneLoop
  <1> QED
    BY <1>1, <1>2, <1>3 DEF OneServerAtWork, LifecycleInv

\* However often an environment starts, fails and stops servers, one runs at most,
\* a call of startGsn has the one it made, a server runs one pass at a time, and
\* the times on /stats are true, for any number of calls and any clock.
THEOREM OneServerIsAtWork == LifecycleSpec => []OneServerAtWork
  <1>1. LifecycleInit => LifecycleInv
    BY LifecycleInitHolds
  <1>2. LifecycleInv /\ [LifecycleNext]_lifecycleVars => LifecycleInv'
    BY LifecycleNextKeeps
  <1>3. LifecycleInv => OneServerAtWork
    BY OneRuns
  <1> QED
    BY <1>1, <1>2, <1>3, PTL DEF LifecycleSpec

-----------------------------------------------------------------------------
(* Penalizer                                                               *)

\* Before it has found an offence an audit has no penalization.
Looking == {"idle", "validate", "mined", "nonce", "lookup", "illegal", "view"}

\* What is committed to is two of the worker's transactions.
Offences == \A i \in Made : pens[i].kind = "repeated" => pens[i].other \in workerTxs

\* Every penalization is of one audit, which broadcasts its commit once.
Numbered ==
    /\ \A a \in Audits : audit[a].at \in Looking => audit[a].id = 0
    /\ \A a \in Audits : audit[a].at = "send" =>
           audit[a].id \in Made /\ audit[a].id \notin commitsSent /\ audit[a].id \notin Committed
    /\ \A a, b \in Audits : a # b /\ audit[a].id # 0 => audit[a].id # audit[b].id
    /\ Len(pens) = Cardinality({a \in Audits : audit[a].id # 0})
    /\ Committed \subseteq Made
    /\ \A i \in Ids : reveals[i] > 0 => i \in Made

\* What a pass has in hand is due, and stays so.
Due ==
    /\ \A i \in waiting : left[i] <= 0
    /\ \A p \in Intervals : \A i \in pass[p].todo : left[i] <= 0
    /\ \A p \in Intervals : pass[p].at = "send" => pass[p].todo # {}
    /\ \A p \in Intervals : pass[p].at \notin {"next", "send"} => pass[p].todo = {}

\* The penalization a pass removed and has still to broadcast.
InHand(p) == IF pass[p].at = "send" THEN {Earliest(pass[p].todo)} ELSE {}

\* With one pass at a time, what is scheduled or to be done was never broadcast.
Orderly ==
    /\ \A i \in scheduled : reveals[i] = 0
    /\ \A p \in Intervals :
         /\ pass[p].todo \subseteq known
         /\ \A i \in pass[p].todo : reveals[i] = 0
         /\ pass[p].todo \ InHand(p) \subseteq scheduled
         /\ InHand(p) \intersect scheduled = {}
    /\ RevealedOnce /\ NoneDropped

PenalizerInv ==
    PenalizerTypeOK /\ Offences /\ HonestKept /\ Numbered /\ Due /\ (OnePass => Orderly)

-----------------------------------------------------------------------------

LEMMA DelayType == Delay \in Nat /\ Delay > 0 /\ Expiration \in Nat /\ Expiration > 0
    /\ MaxBroadcastFailures \in Nat /\ MaxRestarts \in Nat /\ NotMined \in Nat /\ NotMined > 0
  BY PenalizerAssumption DEF NotMined

LEMMA AuditsCount == IsFiniteSet(Audits) /\ Cardinality(Audits) \in Nat
  BY PenalizerAssumption, FS_CardinalityType

\* The first of some penalizations is one of them.
LEMMA EarliestIs ==
    ASSUME NEW S, S \subseteq Nat, S # {}
    PROVE  Earliest(S) \in S
  <1>1. PICK m \in S : \A k \in S : m <= k
    BY LeastNumber
  <1> QED
    BY <1>1 DEF Earliest

\* A block brings every commit nearer, and mines none.
LEMMA BlockKeeps ==
    ASSUME PenalizerInv
    PROVE  /\ BlockOn \in [Ids -> -Expiration..NotMined]
           /\ \A i \in Ids : /\ BlockOn[i] = NotMined <=> left[i] = NotMined
                             /\ BlockOn[i] <= left[i]
                             /\ left[i] <= 0 => BlockOn[i] < 0 \/ BlockOn[i] <= -Expiration
                             /\ left[i] <= 0 => i \in Committed
  <1>1. \A i \in Ids : left[i] \in -Expiration..NotMined
    BY DEF PenalizerInv, PenalizerTypeOK
  <1>2. \A i \in Ids : BlockOn[i] \in -Expiration..NotMined
    BY <1>1, DelayType DEF BlockOn
  <1>3. BlockOn \in [Ids -> -Expiration..NotMined]
    BY <1>2 DEF BlockOn
  <1>4. \A i \in Ids : /\ BlockOn[i] = NotMined <=> left[i] = NotMined
                       /\ BlockOn[i] <= left[i]
                       /\ left[i] <= 0 => BlockOn[i] < 0 \/ BlockOn[i] <= -Expiration
    BY <1>1, DelayType DEF BlockOn, NotMined
  <1>5. \A i \in Ids : left[i] <= 0 => i \in Committed
    BY <1>1, DelayType DEF Committed
  <1> QED
    BY <1>3, <1>4, <1>5

\* Numbers of penalizations.
LEMMA MadeIds == ASSUME PenalizerInv PROVE Made \subseteq Ids /\ Len(pens) \in Nat /\ Made \subseteq Nat
  BY AuditsCount DEF PenalizerInv, PenalizerTypeOK, Made, Ids

-----------------------------------------------------------------------------

LEMMA PenalizerInitHolds == PenalizerInit => PenalizerInv
  <1> SUFFICES ASSUME PenalizerInit PROVE PenalizerInv
    OBVIOUS
  <1>1. Made = {} /\ Len(pens) = 0 /\ Committed = {}
    BY DEF PenalizerInit, Made, Committed
  <1>2. \A a \in Audits : audit[a] = NoAudit
    BY DEF PenalizerInit
  <1>3. PenalizerTypeOK
    <2>1. audit \in [Audits -> AuditType]
      BY DEF PenalizerInit, AuditType, AuditPlaces, NoAudit
    <2>2. pass \in [Intervals -> PassType]
      BY DEF PenalizerInit, PassType, NoPass
    <2>3. left \in [Ids -> -Expiration..NotMined] /\ reveals \in [Ids -> Nat]
      BY DelayType DEF PenalizerInit
    <2>4. pens \in Seq(PenType) /\ Len(pens) <= Cardinality(Audits) /\ minedTxs \in Seq(workerTxs)
      BY AuditsCount DEF PenalizerInit
    <2>5. \A a \in Audits : audit[a].at = "idle"
      BY <1>2 DEF NoAudit
    <2>6. /\ workerTxs \in Histories /\ scheduled = {} /\ known = {} /\ commitsSent = {} /\ waiting = {}
          /\ slashed = FALSE /\ initialized = FALSE
          /\ failures \in 0..MaxBroadcastFailures /\ restarts \in 0..MaxRestarts
      BY DelayType DEF PenalizerInit
    <2> QED
      BY <2>1, <2>2, <2>3, <2>4, <2>5, <2>6 DEF PenalizerTypeOK
  <1>4. Offences /\ HonestKept
    BY <1>1 DEF PenalizerInit, Offences, HonestKept
  <1>5. Numbered
    <2>1. {a \in Audits : audit[a].id # 0} = {}
      BY <1>2 DEF NoAudit
    <2>2. Cardinality({}) = 0
      BY FS_EmptySet
    <2>3. \A a \in Audits : audit[a].at = "idle" /\ audit[a].id = 0
      BY <1>2 DEF NoAudit
    <2>4. \A i \in Ids : reveals[i] = 0
      BY DEF PenalizerInit
    <2>5. Len(pens) = Cardinality({a \in Audits : audit[a].id # 0})
      BY <1>1, <2>1, <2>2
    <2>6. /\ \A a \in Audits : audit[a].at \in Looking => audit[a].id = 0
          /\ \A a \in Audits : audit[a].at # "send"
          /\ \A a, b \in Audits : a # b /\ audit[a].id # 0 => audit[a].id # audit[b].id
      BY <2>3
    <2>7. Committed \subseteq Made /\ \A i \in Ids : reveals[i] > 0 => i \in Made
      BY <1>1, <2>4
    <2> QED
      BY <2>5, <2>6, <2>7 DEF Numbered
  <1>6. \A p \in Intervals : pass[p] = NoPass
    BY DEF PenalizerInit
  <1>7. Due
    BY <1>6 DEF PenalizerInit, Due, NoPass
  <1>8. Orderly
    BY <1>1, <1>6 DEF PenalizerInit, Orderly, NoPass, InHand, RevealedOnce, NoneDropped
  <1> QED
    BY <1>3, <1>4, <1>5, <1>7, <1>8 DEF PenalizerInv

-----------------------------------------------------------------------------
(* Audits.                                                                 *)

\* What is not about audits stays when only the audits change, or the failures.
LEMMA RestKeeps ==
    ASSUME PenalizerInv, UNCHANGED <<audited, pens, scheduled, known, pass, contract, reveals, restarts>>,
           failures' = failures \/ failures' = failures + 1,
           audit' \in [Audits -> AuditType], \A a \in Audits : audit'[a].at = "idle" \/ audit'[a].tx \in workerTxs,
           failures' \in 0..MaxBroadcastFailures, initialized' \in BOOLEAN, Numbered'
    PROVE  PenalizerInv'
  <1>1. Made' = Made /\ Committed' = Committed /\ workerTxs' = workerTxs /\ AuditType' = AuditType
        /\ PenType' = PenType /\ PassType' = PassType
    BY DEF Made, Committed, audited, contract, AuditType, PenType, PassType
  <1>2. PenalizerTypeOK'
    BY <1>1 DEF PenalizerInv, PenalizerTypeOK, audited, contract
  <1>3. Offences' /\ HonestKept' /\ Due'
    BY <1>1 DEF PenalizerInv, Offences, HonestKept, Due, audited, contract
  <1>4. Orderly => Orderly'
    <2>1. failures' = 0 => failures = 0
      BY DEF PenalizerInv, PenalizerTypeOK
    <2> QED
      BY <1>1, <2>1 DEF Orderly, RevealedOnce, NoneDropped, InHand
  <1> QED
    BY <1>2, <1>3, <1>4 DEF PenalizerInv, OnePass

\* An audit that goes on has the transaction and the penalization it had.
LEMMA AuditTurns ==
    ASSUME PenalizerInv, NEW a \in Audits, NEW place \in AuditPlaces, AuditGoes(a, place),
           UNCHANGED <<audited, initialized, pens, scheduled, known, pass, contract, reveals, restarts>>,
           failures' = failures \/ (failures' = failures + 1 /\ failures < MaxBroadcastFailures),
           audit[a].at # "idle", place # "send", place # "idle",
           place \in Looking => audit[a].at \in Looking
    PROVE  PenalizerInv'
  <1>1. \A b \in Audits : /\ audit'[b] \in AuditType /\ audit'[b].tx = audit[b].tx /\ audit'[b].id = audit[b].id
                          /\ audit'[b].at = IF b = a THEN place ELSE audit[b].at
    BY DEF AuditGoes, PenalizerInv, PenalizerTypeOK, AuditType
  <1>2. audit' \in [Audits -> AuditType]
    BY <1>1 DEF AuditGoes, PenalizerInv, PenalizerTypeOK
  <1>3. \A b \in Audits : audit'[b].at = "idle" \/ audit'[b].tx \in workerTxs
    BY <1>1 DEF PenalizerInv, PenalizerTypeOK
  <1>4. Numbered'
    <2>1. Made' = Made /\ Committed' = Committed /\ commitsSent' = commitsSent /\ reveals' = reveals /\ pens' = pens
      BY DEF Made, Committed, contract
    <2>2. {b \in Audits : audit'[b].id # 0} = {b \in Audits : audit[b].id # 0}
      BY <1>1
    <2>3. Numbered
      BY DEF PenalizerInv
    <2>4. \A b \in Audits : audit'[b].at = "send" => audit[b].at = "send"
      BY <1>1
    <2>5. /\ \A b \in Audits : audit'[b].at \in Looking => audit'[b].id = 0
          /\ \A b \in Audits : audit'[b].at = "send" =>
                 audit'[b].id \in Made /\ audit'[b].id \notin commitsSent /\ audit'[b].id \notin Committed
      BY <1>1, <2>3, <2>4 DEF Numbered
    <2>6. \A b, c \in Audits : b # c /\ audit'[b].id # 0 => audit'[b].id # audit'[c].id
      BY <1>1, <2>3 DEF Numbered
    <2>7. Len(pens) = Cardinality({b \in Audits : audit'[b].id # 0})
      BY <2>2, <2>3 DEF Numbered
    <2> QED
      BY <2>1, <2>3, <2>5, <2>6, <2>7 DEF Numbered
  <1>5. failures' \in 0..MaxBroadcastFailures /\ initialized' \in BOOLEAN
    BY DelayType DEF PenalizerInv, PenalizerTypeOK
  <1> QED
    BY <1>2, <1>3, <1>4, <1>5, RestKeeps

LEMMA StartAuditKeeps ==
    ASSUME PenalizerInv, NEW a \in Audits, NEW t \in workerTxs, StartAudit(a, t) PROVE PenalizerInv'
  <1>1. PICK place \in {"done", "validate", "illegal"} :
            audit' = [audit EXCEPT ![a] = [at |-> place, tx |-> t, id |-> 0]]
    BY DEF StartAudit
  <1>2. audit' \in [Audits -> AuditType]
    BY <1>1 DEF PenalizerInv, PenalizerTypeOK, AuditType, AuditPlaces
  <1>3. \A b \in Audits : audit'[b] = IF b = a THEN [at |-> place, tx |-> t, id |-> 0] ELSE audit[b]
    BY <1>1 DEF PenalizerInv, PenalizerTypeOK
  <1>4. audit[a].at = "idle" /\ audit[a].id = 0
    BY DEF StartAudit, PenalizerInv, Numbered, Looking
  <1>5. \A b \in Audits : audit'[b].id = audit[b].id
    BY <1>3, <1>4
  <1>6. Numbered'
    <2>1. Made' = Made /\ Committed' = Committed /\ commitsSent' = commitsSent /\ reveals' = reveals /\ pens' = pens
      BY DEF Made, Committed, contract, StartAudit, AuditOnly
    <2>2. {b \in Audits : audit'[b].id # 0} = {b \in Audits : audit[b].id # 0}
      BY <1>5
    <2>3. Len(pens') = Cardinality({b \in Audits : audit'[b].id # 0})
      BY <2>1, <2>2 DEF PenalizerInv, Numbered
    <2>4. \A b \in Audits : audit'[b].at \in Looking => audit'[b].id = 0
      BY <1>3, <1>4 DEF PenalizerInv, Numbered
    <2>5. \A b \in Audits : audit'[b].at = "send" => audit[b].at = "send"
      BY <1>3
    <2> QED
      BY <1>5, <2>1, <2>3, <2>4, <2>5 DEF PenalizerInv, Numbered
  <1>7. \A b \in Audits : audit'[b].at = "idle" \/ audit'[b].tx \in workerTxs
    BY <1>3 DEF PenalizerInv, PenalizerTypeOK
  <1>8. /\ UNCHANGED <<audited, pens, scheduled, known, pass, contract, reveals, restarts>>
        /\ failures' = failures /\ failures' \in 0..MaxBroadcastFailures /\ initialized' \in BOOLEAN
    BY DEF StartAudit, AuditOnly, budget, PenalizerInv, PenalizerTypeOK
  <1> QED
    BY <1>2, <1>6, <1>7, <1>8, RestKeeps

LEMMA AuditOnlyTurns ==
    ASSUME PenalizerInv, NEW a \in Audits, NEW place \in AuditPlaces, AuditGoes(a, place), AuditOnly,
           audit[a].at \in Looking, audit[a].at # "idle", place # "send", place # "idle"
    PROVE  PenalizerInv'
  BY AuditTurns DEF AuditOnly, budget

LEMMA LookingKeeps ==
    ASSUME PenalizerInv, NEW a \in Audits,
           ValidateTransaction(a) \/ IsTransactionMined(a) \/ CheckNonce(a) \/ LookupFails(a)
             \/ ValidateIllegal(a)
             \/ (audit[a].at = "view" /\ AuditGoes(a, "done") /\ AuditOnly)
    PROVE  PenalizerInv'
  <1>1. PICK place \in {"illegal", "mined", "nonce", "lookup", "done", "view"} :
            AuditGoes(a, place) /\ AuditOnly /\ audit[a].at \in Looking /\ audit[a].at # "idle"
    BY DEF ValidateTransaction, IsTransactionMined, CheckNonce, LookupFails, ValidateIllegal, Looking
  <1>2. place \in AuditPlaces /\ place # "send" /\ place # "idle"
    BY DEF AuditPlaces
  <1> QED
    BY <1>1, <1>2, AuditOnlyTurns

LEMMA CommitFailsKeeps ==
    ASSUME PenalizerInv, NEW a \in Audits, CommitFails(a) PROVE PenalizerInv'
  <1>1. "done" \in AuditPlaces /\ "done" \notin Looking
    BY DEF AuditPlaces, Looking
  <1> QED
    BY <1>1, AuditTurns DEF CommitFails

LEMMA BroadcastCommitKeeps ==
    ASSUME PenalizerInv, NEW a \in Audits, BroadcastCommit(a) PROVE PenalizerInv'
  <1> DEFINE n == audit[a].id
  <1>1. n \in Made /\ n \notin commitsSent /\ n \notin Committed /\ audit[a].at = "send" /\ n # 0
    BY MadeIds DEF BroadcastCommit, PenalizerInv, Numbered, Made
  <1>2. /\ UNCHANGED <<workerTxs, minedTxs, initialized, pens, scheduled, known, pass, left, waiting,
                       slashed, reveals, failures, restarts>>
        /\ commitsSent' = commitsSent \cup {n}
    BY DEF BroadcastCommit, audited, budget
  <1>3. \A b \in Audits : /\ audit'[b] \in AuditType /\ audit'[b].tx = audit[b].tx /\ audit'[b].id = audit[b].id
                          /\ audit'[b].at = IF b = a THEN "done" ELSE audit[b].at
    BY DEF BroadcastCommit, AuditGoes, PenalizerInv, PenalizerTypeOK, AuditType, AuditPlaces
  <1>4. audit' \in [Audits -> AuditType]
    BY <1>3 DEF BroadcastCommit, AuditGoes, PenalizerInv, PenalizerTypeOK
  <1>5. Made' = Made /\ Committed' = Committed /\ AuditType' = AuditType
        /\ PenType' = PenType /\ PassType' = PassType
    BY <1>2 DEF Made, Committed, AuditType, PenType, PassType
  <1> HIDE DEF n
  <1>6. PenalizerTypeOK'
    BY <1>1, <1>2, <1>3, <1>4, <1>5 DEF PenalizerInv, PenalizerTypeOK
  <1>7. Offences' /\ HonestKept' /\ Due'
    BY <1>2, <1>5 DEF PenalizerInv, Offences, HonestKept, Due
  <1>8. Orderly => Orderly'
    BY <1>2, <1>5 DEF Orderly, RevealedOnce, NoneDropped, InHand
  <1>9. Numbered'
    <2>1. {b \in Audits : audit'[b].id # 0} = {b \in Audits : audit[b].id # 0}
      BY <1>3
    <2>2. \A b \in Audits : b # a => audit[b].id # n
      BY <1>1 DEF PenalizerInv, Numbered, n
    <2>3. \A b \in Audits : audit'[b].at = "send" =>
             audit'[b].id \in Made' /\ audit'[b].id \notin commitsSent' /\ audit'[b].id \notin Committed'
      <3>1. ASSUME NEW b \in Audits, audit'[b].at = "send"
            PROVE  audit[b].at = "send" /\ b # a /\ audit'[b].id = audit[b].id
        BY <1>3, <3>1
      <3> QED
        BY <1>2, <1>5, <2>2, <3>1 DEF PenalizerInv, Numbered
    <2>4. \A b \in Audits : audit'[b].at \in Looking => audit'[b].id = 0
      BY <1>3 DEF PenalizerInv, Numbered, Looking
    <2>5. Len(pens') = Cardinality({b \in Audits : audit'[b].id # 0})
      BY <1>2, <2>1 DEF PenalizerInv, Numbered
    <2> QED
      BY <1>2, <1>3, <1>5, <2>3, <2>4, <2>5 DEF PenalizerInv, Numbered
  <1> QED
    BY <1>6, <1>7, <1>8, <1>9 DEF PenalizerInv, OnePass

\* An audit that schedules makes the next penalization.
LEMMA ScheduleKeeps ==
    ASSUME PenalizerInv, NEW a \in Audits, NEW pen \in PenType, Schedule(a, pen),
           audit[a].at \in {"lookup", "view"}, pen.kind = "repeated" => pen.other \in workerTxs
    PROVE  PenalizerInv'
  <1> DEFINE n == Len(pens) + 1
  <1>1. /\ audit[a].id = 0 /\ audit[a].tx \in workerTxs
        /\ pens \in Seq(PenType) /\ Len(pens) \in Nat
    BY MadeIds DEF PenalizerInv, Numbered, PenalizerTypeOK, Looking
  <1>2. /\ UNCHANGED <<workerTxs, minedTxs, initialized, known, pass, commitsSent, left, waiting,
                       slashed, reveals, failures, restarts>>
        /\ scheduled' = scheduled \cup {n} /\ pens' = Append(pens, pen)
    BY DEF Schedule, audited, contract, budget
  <1>3. Len(pens') = n /\ pens' \in Seq(PenType) /\ n \in Nat /\ n # 0
    BY <1>1, <1>2
  <1>4. \A i \in Made : pens'[i] = pens[i]
    BY <1>1, <1>2 DEF Made
  <1>5. pens'[n] = pen
    BY <1>1, <1>2
  <1>6. Made' = Made \cup {n} /\ n \notin Made
    BY <1>1, <1>3 DEF Made
  <1>7. \A b \in Audits : audit'[b] = IF b = a THEN [audit[a] EXCEPT !.at = "send", !.id = n] ELSE audit[b]
    BY DEF Schedule, PenalizerInv, PenalizerTypeOK
  <1>8. audit[a] \in AuditType
    BY DEF PenalizerInv, PenalizerTypeOK
  <1>9. audit'[a].at = "send" /\ audit'[a].id = n /\ audit'[a].tx = audit[a].tx
    BY <1>7, <1>8 DEF AuditType
  <1>10. \A b \in Audits : b # a => audit'[b] = audit[b]
    BY <1>7
  <1>11. n <= Cardinality(Audits) /\ Cardinality({b \in Audits : audit'[b].id # 0}) = n
    <2> DEFINE H == {b \in Audits : audit[b].id # 0}
    <2>1. {b \in Audits : audit'[b].id # 0} = H \cup {a}
      BY <1>3, <1>9, <1>10
    <2>2. IsFiniteSet(H) /\ a \notin H
      BY <1>1, AuditsCount, FS_Subset
    <2>3. Cardinality(H \cup {a}) = Cardinality(H) + 1
      BY <2>2, FS_AddElement
    <2>4. Cardinality(H) = Len(pens)
      BY DEF PenalizerInv, Numbered
    <2>5. H \cup {a} \subseteq Audits
      OBVIOUS
    <2>6. Cardinality(H \cup {a}) <= Cardinality(Audits)
      BY <2>5, AuditsCount, FS_Subset
    <2> QED
      BY <2>1, <2>3, <2>4, <2>6
  <1> HIDE DEF n
  <1>12. audit' \in [Audits -> AuditType']
    <2>1. AuditType' = [at : AuditPlaces, tx : workerTxs \cup {NoTx}, id : {0} \cup Made \cup {n}]
      BY <1>2, <1>6 DEF AuditType
    <2>2. audit'[a] \in AuditType'
      BY <1>7, <1>8, <2>1 DEF AuditType, AuditPlaces
    <2>3. \A b \in Audits : b # a => audit'[b] \in AuditType'
      <3>1. \A b \in Audits : audit[b] \in AuditType
        BY DEF PenalizerInv, PenalizerTypeOK
      <3>2. \A x : x \in AuditType => x \in AuditType'
        BY <2>1 DEF AuditType
      <3> QED
        BY <1>10, <3>1, <3>2
    <2> QED
      BY <2>2, <2>3 DEF Schedule, PenalizerInv, PenalizerTypeOK
  <1>13. pass' \in [Intervals -> PassType'] /\ Committed' = Committed
    <2>1. \A x : x \in PassType => x \in PassType'
      BY <1>6 DEF PassType
    <2> QED
      BY <1>2, <2>1 DEF PenalizerInv, PenalizerTypeOK, Committed
  <1>14. \A b \in Audits : audit'[b].at = "idle" \/ audit'[b].tx \in workerTxs
    BY <1>1, <1>9, <1>10 DEF PenalizerInv, PenalizerTypeOK
  <1>15. PenalizerTypeOK'
    <2>1. PenType' = PenType
      BY <1>2 DEF PenType
    <2> QED
      BY <1>2, <1>3, <1>6, <1>11, <1>12, <1>13, <1>14, <2>1 DEF PenalizerInv, PenalizerTypeOK
  <1>16. Offences' /\ HonestKept'
    BY <1>2, <1>4, <1>5, <1>6 DEF PenalizerInv, Offences, HonestKept
  <1>17. Due'
    BY <1>2 DEF PenalizerInv, Due
  <1>18. n \in Ids /\ reveals[n] = 0 /\ n \notin commitsSent /\ n \notin Committed
    <2>1. n \in Ids
      BY <1>3, <1>11, AuditsCount DEF Ids
    <2>2. /\ commitsSent \subseteq Made /\ Committed \subseteq Made /\ reveals[n] \in Nat
          /\ reveals[n] > 0 => n \in Made
      BY <2>1 DEF PenalizerInv, PenalizerTypeOK, Numbered
    <2> QED
      BY <1>6, <2>1, <2>2
  <1>19. Numbered'
    <2>1. \A b \in Audits : audit[b].id # n
      BY <1>1, <1>3, <1>6 DEF PenalizerInv, PenalizerTypeOK, AuditType
    <2>2. Numbered /\ Made' = Made \cup {n} /\ n > 0
      BY <1>1, <1>6 DEF PenalizerInv, n
    <2>3. \A b \in Audits : audit'[b].at \in Looking => audit'[b].id = 0
      BY <1>9, <1>10, <2>2 DEF Numbered, Looking
    <2>4. \A b \in Audits : audit'[b].at = "send" =>
             audit'[b].id \in Made' /\ audit'[b].id \notin commitsSent /\ audit'[b].id \notin Committed
      BY <1>9, <1>10, <1>18, <2>2 DEF Numbered
    <2>5. \A b, c \in Audits : b # c /\ audit'[b].id # 0 => audit'[b].id # audit'[c].id
      BY <1>9, <1>10, <2>1, <2>2 DEF Numbered
    <2>6. Len(pens') = Cardinality({b \in Audits : audit'[b].id # 0})
      BY <1>3, <1>11
    <2>7. Committed \subseteq Made' /\ \A i \in Ids : reveals[i] > 0 => i \in Made'
      BY <2>2 DEF Numbered
    <2> QED
      BY <1>2, <1>13, <2>3, <2>4, <2>5, <2>6, <2>7 DEF Numbered
  <1>20. Orderly => Orderly'
    <2> SUFFICES ASSUME Orderly PROVE Orderly'
      OBVIOUS
    <2>1. \A i \in scheduled' : reveals'[i] = 0
      BY <1>2, <1>18 DEF Orderly
    <2>2. ASSUME NEW p \in Intervals
          PROVE  n \notin InHand(p)
      <3>1. pass[p].todo \subseteq Made
        BY DEF PenalizerInv, PenalizerTypeOK, PassType
      <3>2. pass[p].at = "send" => Earliest(pass[p].todo) \in pass[p].todo
        BY <3>1, MadeIds, EarliestIs DEF PenalizerInv, Due
      <3> QED
        BY <1>6, <3>1, <3>2 DEF InHand
    <2>3. \A p \in Intervals : InHand(p)' = InHand(p)
      BY <1>2 DEF InHand
    <2>4. ASSUME NEW p \in Intervals
          PROVE  /\ pass'[p].todo \subseteq known'
                 /\ \A i \in pass'[p].todo : reveals'[i] = 0
                 /\ pass'[p].todo \ InHand(p)' \subseteq scheduled'
                 /\ InHand(p)' \intersect scheduled' = {}
      BY <1>2, <2>2, <2>3 DEF Orderly
    <2>5. RevealedOnce' /\ NoneDropped'
      BY <1>2, <1>6 DEF Orderly, RevealedOnce, NoneDropped
    <2> QED
      BY <2>1, <2>4, <2>5 DEF Orderly
  <1> QED
    BY <1>15, <1>16, <1>17, <1>19, <1>20 DEF PenalizerInv, OnePass

LEMMA RepeatedKeeps ==
    ASSUME PenalizerInv, NEW a \in Audits, PenalizeRepeatedNonce(a) PROVE PenalizerInv'
  <1> DEFINE t == audit[a].tx
             o == minedTxs[t.nonce + 1]
             pen == [kind |-> "repeated", tx |-> t, other |-> o]
  <1>1. audit[a].at = "lookup" /\ t.nonce < Len(minedTxs) /\ Schedule(a, pen)
    BY DEF PenalizeRepeatedNonce
  <1>2. t \in workerTxs /\ workerTxs \in Histories /\ minedTxs \in Seq(workerTxs)
    BY <1>1 DEF PenalizerInv, PenalizerTypeOK
  <1>3. t.nonce \in Nat
    BY <1>2, PenalizerAssumption
  <1>4. o \in workerTxs
    <2>1. t.nonce + 1 \in 1 .. Len(minedTxs)
      BY <1>1, <1>2, <1>3
    <2> QED
      BY <1>2, <2>1
  <1> HIDE DEF t, o
  <1>5. pen \in PenType /\ pen.other \in workerTxs
    BY <1>2, <1>4 DEF PenType
  <1> HIDE DEF pen
  <1> QED
    BY <1>1, <1>5, ScheduleKeeps

LEMMA IllegalKeeps ==
    ASSUME PenalizerInv, NEW a \in Audits, PenalizeIllegalTransaction(a) PROVE PenalizerInv'
  <1> DEFINE t == audit[a].tx
             pen == [kind |-> "illegal", tx |-> t, other |-> NoTx]
  <1>1. CASE Schedule(a, pen)
    <2>1. audit[a].at = "view"
      BY DEF PenalizeIllegalTransaction
    <2>2. t \in workerTxs
      BY <2>1 DEF PenalizerInv, PenalizerTypeOK
    <2> HIDE DEF t
    <2>3. pen \in PenType /\ pen.kind # "repeated"
      BY <2>2 DEF PenType
    <2> HIDE DEF pen
    <2> QED
      BY <1>1, <2>1, <2>3, ScheduleKeeps
  <1>2. CASE audit[a].at = "view" /\ AuditGoes(a, "done") /\ AuditOnly
    BY <1>2, LookingKeeps
  <1> QED
    BY <1>1, <1>2 DEF PenalizeIllegalTransaction

-----------------------------------------------------------------------------
(* The chain.                                                              *)

\* A block: commits come nearer; of those it mines one is new.
LEMMA ChainKeeps ==
    ASSUME PenalizerInv, UNCHANGED <<workerTxs, inServer, reveals, budget>>, minedTxs' \in Seq(workerTxs),
           left' \in [Ids -> -Expiration..NotMined],
           commitsSent' \subseteq commitsSent, waiting' \subseteq waiting, slashed' \in BOOLEAN,
           HonestKept',
           \A i \in Committed : left'[i] <= left[i] /\ left'[i] # NotMined,
           \A i \in Ids : left'[i] # NotMined => i \in Committed \/ i \in commitsSent \ commitsSent',
           \A i \in commitsSent' : left'[i] = NotMined
    PROVE  PenalizerInv'
  <1>1. /\ UNCHANGED <<audit, pens, scheduled, known, pass, initialized, failures, restarts>>
        /\ Made' = Made /\ AuditType' = AuditType /\ PenType' = PenType /\ PassType' = PassType
    BY DEF inServer, budget, Made, AuditType, PenType, PassType
  <1>2. Committed \subseteq Committed' /\ commitsSent' \cap Committed' = {} /\ Committed' \subseteq Made
    <2>1. Committed \subseteq Ids /\ Committed \subseteq Made /\ commitsSent \subseteq Made
      BY DEF Committed, PenalizerInv, PenalizerTypeOK, Numbered
    <2> QED
      BY <2>1 DEF Committed
  <1>3. PenalizerTypeOK'
    BY <1>1, <1>2 DEF PenalizerInv, PenalizerTypeOK
  <1>4. Offences' /\ (Orderly => Orderly')
    <2>1. Orderly => Orderly'
      BY <1>1 DEF Orderly, RevealedOnce, NoneDropped, InHand
    <2> QED
      BY <1>1, <2>1 DEF PenalizerInv, Offences
  <1>5. Numbered'
    <2>1. \A a \in Audits : audit[a].at = "send" => audit[a].id \notin commitsSent' /\ audit[a].id \notin Committed'
      <3>1. \A i \in Committed' : i \in Committed \/ i \in commitsSent
        BY DEF Committed
      <3> QED
        BY <3>1 DEF PenalizerInv, Numbered
    <2> QED
      BY <1>1, <1>2, <2>1 DEF PenalizerInv, Numbered
  <1>6. Due'
    <2>1. ASSUME NEW i \in Ids, left[i] <= 0
          PROVE  left'[i] <= 0
      <3>1. left[i] \in Int /\ left'[i] \in Int
        BY DelayType DEF PenalizerInv, PenalizerTypeOK
      <3> QED
        BY <2>1, <3>1, BlockKeeps
    <2>2. waiting \subseteq Ids /\ \A p \in Intervals : pass[p].todo \subseteq Ids
      BY MadeIds DEF PenalizerInv, PenalizerTypeOK, PassType
    <2> QED
      BY <1>1, <2>1, <2>2 DEF PenalizerInv, Due
  <1> QED
    BY <1>3, <1>4, <1>5, <1>6 DEF PenalizerInv, OnePass

\* The part of every block.
LEMMA BlockOnKeeps ==
    ASSUME PenalizerInv
    PROVE  /\ \A i \in Committed : BlockOn[i] <= left[i] /\ BlockOn[i] # NotMined /\ i \in Ids
           /\ \A i \in Ids : BlockOn[i] # NotMined => i \in Committed
           /\ \A i \in commitsSent : BlockOn[i] = NotMined /\ i \in Ids
           /\ minedTxs \in Seq(workerTxs) /\ slashed \in BOOLEAN /\ HonestKept
  BY BlockKeeps, MadeIds DEF Committed, PenalizerInv, PenalizerTypeOK

LEMMA EmptyBlockKeeps == ASSUME PenalizerInv, EmptyBlock PROVE PenalizerInv'
  <1>1. /\ left' = BlockOn
        /\ UNCHANGED <<workerTxs, minedTxs, inServer, commitsSent, waiting, slashed, reveals, budget>>
    BY DEF EmptyBlock, audited
  <1>2. HonestKept'
    BY <1>1, BlockOnKeeps DEF HonestKept
  <1> QED
    BY <1>1, <1>2, BlockKeeps, BlockOnKeeps, ChainKeeps

LEMMA MineCommitKeeps == ASSUME PenalizerInv, NEW n \in Ids, MineCommit(n) PROVE PenalizerInv'
  <1>1. /\ left' = [BlockOn EXCEPT ![n] = Delay] /\ n \in commitsSent /\ commitsSent' = commitsSent \ {n}
        /\ UNCHANGED <<workerTxs, minedTxs, inServer, waiting, slashed, reveals, budget>>
    BY DEF MineCommit, audited
  <1>2. HonestKept'
    BY <1>1, BlockOnKeeps DEF HonestKept
  <1>3. Delay \in -Expiration..NotMined /\ Delay # NotMined
    BY DelayType DEF NotMined
  <1>4. left' \in [Ids -> -Expiration..NotMined] /\ \A i \in Ids : left'[i] = IF i = n THEN Delay ELSE BlockOn[i]
    BY <1>1, <1>3, BlockKeeps
  <1>5. n \notin Committed
    BY <1>1 DEF PenalizerInv, PenalizerTypeOK
  <1> QED
    BY <1>1, <1>2, <1>3, <1>4, <1>5, BlockOnKeeps, ChainKeeps

\* Only a penalization that was made slashes, and it is of what the worker signed.
LEMMA MineRevealKeeps == ASSUME PenalizerInv, NEW n \in Ids, MineReveal(n) PROVE PenalizerInv'
  <1>1. /\ left' = BlockOn /\ n \in waiting /\ waiting' = waiting \ {n}
        /\ UNCHANGED <<workerTxs, minedTxs, inServer, commitsSent, reveals, budget>>
    BY DEF MineReveal, audited
  <1>2. n \in Made /\ pens \in Seq(PenType)
    BY <1>1 DEF PenalizerInv, PenalizerTypeOK
  <1>3. pens[n] \in PenType
    BY <1>2 DEF Made
  <1>4. ASSUME IsOffence(pens[n])
        PROVE  \E t, u \in workerTxs : ~t.legal \/ (t.nonce = u.nonce /\ t.content # u.content)
    <2>1. pens[n].tx \in workerTxs
      BY <1>3 DEF PenType
    <2>2. CASE pens[n].kind = "repeated"
      <3>1. pens[n].other \in workerTxs
        BY <1>2, <2>2 DEF PenalizerInv, Offences
      <3> QED
        BY <1>4, <2>1, <2>2, <3>1 DEF IsOffence, Repeated
    <2>3. CASE pens[n].kind # "repeated"
      BY <1>4, <2>1, <2>3 DEF IsOffence, Illegal
    <2> QED
      BY <2>2, <2>3
  <1>5. slashed' \in BOOLEAN /\ (slashed' => slashed \/ IsOffence(pens[n]))
    BY BlockOnKeeps DEF MineReveal
  <1>6. HonestKept'
    BY <1>1, <1>4, <1>5, BlockOnKeeps DEF HonestKept
  <1> QED
    BY <1>1, <1>5, <1>6, BlockKeeps, BlockOnKeeps, ChainKeeps

LEMMA MineWorkerKeeps == ASSUME PenalizerInv, NEW t \in workerTxs, MineWorkerTx(t) PROVE PenalizerInv'
  <1>1. /\ minedTxs' = Append(minedTxs, t)
        /\ UNCHANGED <<workerTxs, inServer, left, commitsSent, waiting, slashed, reveals, budget>>
    BY DEF MineWorkerTx, contract
  <1>2. minedTxs' \in Seq(workerTxs)
    BY <1>1, BlockOnKeeps
  <1>3. HonestKept'
    BY <1>1, BlockOnKeeps DEF HonestKept
  <1>4. /\ left \in [Ids -> -Expiration..NotMined] /\ slashed \in BOOLEAN
        /\ \A i \in Committed : left[i] <= left[i] /\ left[i] # NotMined
        /\ \A i \in Ids : left[i] # NotMined => i \in Committed
        /\ \A i \in commitsSent : left[i] = NotMined
    <2>1. \A i \in Ids : left[i] \in Int
      BY DelayType DEF PenalizerInv, PenalizerTypeOK
    <2> QED
      BY <2>1, MadeIds DEF PenalizerInv, PenalizerTypeOK, Committed
  <1> QED
    BY <1>1, <1>2, <1>3, <1>4, ChainKeeps

LEMMA InitializeKeeps == ASSUME PenalizerInv, Initialize PROVE PenalizerInv'
  <1>1. /\ UNCHANGED <<audited, pens, scheduled, known, pass, contract, reveals, restarts, audit, failures>>
        /\ initialized' \in BOOLEAN /\ failures' \in 0..MaxBroadcastFailures
    BY DEF Initialize, budget, PenalizerInv, PenalizerTypeOK
  <1>2. /\ Numbered' /\ audit' \in [Audits -> AuditType]
        /\ \A a \in Audits : audit'[a].at = "idle" \/ audit'[a].tx \in workerTxs
    BY <1>1 DEF PenalizerInv, PenalizerTypeOK, Numbered, Made, Committed, contract
  <1> QED
    BY <1>1, <1>2, RestKeeps

\* A restart forgets the schedule, and nothing that was signed or broadcast.
LEMMA RestartKeeps == ASSUME PenalizerInv, Restart PROVE PenalizerInv'
  <1>1. /\ UNCHANGED <<workerTxs, minedTxs, pens, commitsSent, left, waiting, slashed, reveals, failures>>
        /\ initialized' = FALSE /\ scheduled' = {} /\ known' = {}
        /\ restarts' = restarts + 1 /\ restarts < MaxRestarts
        /\ pass' = [p \in Intervals |-> NoPass]
    BY DEF Restart, audited, contract
  <1>2. Made' = Made /\ Committed' = Committed /\ AuditType' = AuditType /\ PenType' = PenType
        /\ PassType' = PassType
    BY <1>1 DEF Made, Committed, AuditType, PenType, PassType
  <1>3. ASSUME NEW a \in Audits
        PROVE  /\ audit'[a] \in AuditType /\ audit'[a].id = audit[a].id
               /\ audit'[a].at = "idle" \/ (audit'[a].at = "done" /\ audit'[a].tx \in workerTxs)
               /\ audit'[a].at = "idle" => audit'[a].id = 0
    <2>1. audit[a] \in AuditType /\ (audit[a].at = "idle" \/ audit[a].tx \in workerTxs)
      BY DEF PenalizerInv, PenalizerTypeOK
    <2>2. CASE audit[a].at = "idle"
      <3>1. audit[a].id = 0 /\ audit'[a] = NoAudit
        BY <2>2 DEF Restart, PenalizerInv, Numbered, Looking
      <3> QED
        BY <3>1 DEF NoAudit, AuditType, AuditPlaces
    <2>3. CASE audit[a].at # "idle"
      <3>1. audit'[a] = [audit[a] EXCEPT !.at = "done"]
        BY <2>3 DEF Restart
      <3> QED
        BY <2>1, <2>3, <3>1 DEF AuditType, AuditPlaces
    <2> QED
      BY <2>2, <2>3
  <1>4. \A p \in Intervals : pass'[p] = NoPass
    BY <1>1
  <1>5. audit' \in [Audits -> AuditType] /\ pass' \in [Intervals -> PassType]
    <2>1. audit' \in [Audits -> AuditType]
      <3>1. audit' = [a \in Audits |-> IF audit[a].at = "idle" THEN NoAudit ELSE [audit[a] EXCEPT !.at = "done"]]
        BY DEF Restart
      <3> QED
        BY <1>3, <3>1
    <2> QED
      BY <1>1, <2>1 DEF PassType, NoPass
  <1>6. PenalizerTypeOK'
    <2>1. restarts' \in 0..MaxRestarts
      BY <1>1, DelayType DEF PenalizerInv, PenalizerTypeOK
    <2>2. \A a \in Audits : audit'[a].at = "idle" \/ audit'[a].tx \in workerTxs
      BY <1>3
    <2> QED
      BY <1>1, <1>2, <1>5, <2>1, <2>2 DEF PenalizerInv, PenalizerTypeOK
  <1>7. Offences' /\ HonestKept'
    BY <1>1, <1>2 DEF PenalizerInv, Offences, HonestKept
  <1>8. Numbered'
    <2>1. {a \in Audits : audit'[a].id # 0} = {a \in Audits : audit[a].id # 0}
      BY <1>3
    <2> QED
      BY <1>1, <1>2, <1>3, <2>1 DEF PenalizerInv, Numbered, Looking
  <1>9. Due'
    BY <1>1, <1>4 DEF PenalizerInv, Due, NoPass
  <1>10. Orderly => Orderly'
    <2>1. restarts' # 0
      BY <1>1 DEF PenalizerInv, PenalizerTypeOK
    <2> QED
      BY <1>1, <1>4, <2>1 DEF Orderly, RevealedOnce, NoneDropped, InHand, NoPass
  <1> QED
    BY <1>6, <1>7, <1>8, <1>9, <1>10 DEF PenalizerInv, OnePass

-----------------------------------------------------------------------------
(* Passes.                                                                 *)

\* What a pass does to itself, to the schedule and to what is known and revealed.
LEMMA PassKeeps ==
    ASSUME PenalizerInv, NEW p \in Intervals, NEW r \in PassType, pass' = [pass EXCEPT ![p] = r],
           UNCHANGED <<audited, initialized, audit, pens, commitsSent, left, slashed, restarts>>,
           scheduled' \subseteq scheduled, known' \subseteq Committed,
           waiting' \subseteq Made, \A i \in waiting' : reveals'[i] > 0 /\ left[i] <= 0,
           reveals' \in [Ids -> Nat], \A i \in Ids : reveals'[i] > 0 => i \in Made,
           failures' \in 0..MaxBroadcastFailures,
           \A i \in r.todo : left[i] <= 0,
           r.at = "send" => r.todo # {},
           r.at \notin {"next", "send"} => r.todo = {},
           OnePass => Orderly'
    PROVE  PenalizerInv'
  <1>1. /\ UNCHANGED <<workerTxs, minedTxs>>
        /\ Made' = Made /\ Committed' = Committed /\ AuditType' = AuditType /\ PenType' = PenType
        /\ PassType' = PassType
    BY DEF audited, Made, Committed, AuditType, PenType, PassType
  <1>2. \A q \in Intervals : pass'[q] = IF q = p THEN r ELSE pass[q]
    BY DEF PenalizerInv, PenalizerTypeOK
  <1>3. pass' \in [Intervals -> PassType]
    BY <1>2 DEF PenalizerInv, PenalizerTypeOK
  <1>4. PenalizerTypeOK'
    BY <1>1, <1>3 DEF PenalizerInv, PenalizerTypeOK
  <1>5. Offences' /\ HonestKept'
    BY <1>1 DEF PenalizerInv, Offences, HonestKept
  <1>6. Numbered'
    BY <1>1 DEF PenalizerInv, Numbered
  <1>7. Due'
    BY <1>2 DEF PenalizerInv, Due
  <1> QED
    BY <1>4, <1>5, <1>6, <1>7 DEF PenalizerInv, OnePass

\* What is done and known of a pass.
LEMMA PassOf ==
    ASSUME PenalizerInv, NEW p \in Intervals
    PROVE  /\ pass[p] \in PassType /\ pass[p].todo \subseteq Made /\ pass[p].unconfirmed \subseteq Made
           /\ \A i \in pass[p].todo : left[i] <= 0 /\ i \in Made /\ i \in Ids /\ i \in Nat
           /\ pass[p].todo # {} => Earliest(pass[p].todo) \in pass[p].todo
           /\ pass[p].at \notin {"next", "send"} => pass[p].todo = {}
           /\ pass[p].at = "send" => pass[p].todo # {}
  <1>1. pass[p] \in PassType /\ pass[p].todo \subseteq Made /\ pass[p].unconfirmed \subseteq Made
    BY DEF PenalizerInv, PenalizerTypeOK, PassType
  <1>2. pass[p].todo # {} => Earliest(pass[p].todo) \in pass[p].todo
    BY <1>1, MadeIds, EarliestIs
  <1> QED
    BY <1>1, <1>2, MadeIds DEF PenalizerInv, Due

\* What stays of the order when a pass does not touch what was broadcast, and is alone.
LEMMA OrderOf ==
    ASSUME OnePass, Orderly, NEW p \in Intervals, NEW r, pass'[p] = r,
           UNCHANGED <<scheduled, reveals, pens, failures, restarts>>, known \subseteq known',
           pass[p].at # "send", r.at # "send",
           r.todo \subseteq known', r.todo \subseteq scheduled
    PROVE  Orderly'
  <1>1. \A q \in Intervals : q = p
    BY DEF OnePass
  <1>2. InHand(p)' = {} /\ InHand(p) = {}
    BY DEF InHand
  <1>3. Made' = Made
    BY DEF Made
  <1>4. RevealedOnce' /\ (\A i \in scheduled' : reveals'[i] = 0)
    BY DEF Orderly, RevealedOnce
  <1>5. NoneDropped'
    BY <1>1, <1>3 DEF Orderly, NoneDropped
  <1>6. \A q \in Intervals :
             /\ pass'[q].todo \subseteq known'
             /\ \A i \in pass'[q].todo : reveals'[i] = 0
             /\ pass'[q].todo \ InHand(q)' \subseteq scheduled'
             /\ InHand(q)' \intersect scheduled' = {}
    BY <1>1, <1>2, <1>4
  <1> QED
    BY <1>4, <1>5, <1>6 DEF Orderly

\* A pass that only goes on, with less to do than is scheduled.
LEMMA PassOnlyKeeps ==
    ASSUME PenalizerInv, NEW p \in Intervals, NEW r \in PassType, pass' = [pass EXCEPT ![p] = r],
           PassOnly, UNCHANGED <<scheduled, reveals>>, known \subseteq known', known' \subseteq Committed,
           pass[p].at # "send", r.at # "send", \A i \in r.todo : left[i] <= 0,
           r.at # "next" => r.todo = {},
           OnePass /\ Orderly => r.todo \subseteq known' /\ r.todo \subseteq scheduled
    PROVE  PenalizerInv'
  <1>1. pass'[p] = r
    BY DEF PenalizerInv, PenalizerTypeOK
  <1>2. /\ UNCHANGED <<audited, initialized, audit, pens, commitsSent, left, waiting, slashed, failures, restarts>>
    BY DEF PassOnly, contract, budget
  <1>3. OnePass => Orderly'
    BY <1>1, <1>2, OrderOf DEF PenalizerInv
  <1>4. /\ waiting' \subseteq Made /\ \A i \in waiting' : reveals'[i] > 0 /\ left[i] <= 0
        /\ reveals' \in [Ids -> Nat] /\ \A i \in Ids : reveals'[i] > 0 => i \in Made
        /\ failures' \in 0..MaxBroadcastFailures
    BY <1>2 DEF PenalizerInv, PenalizerTypeOK, Numbered, Due
  <1> QED
    BY <1>2, <1>3, <1>4, PassKeeps

LEMMA EnterKeeps == ASSUME PenalizerInv, NEW p \in Intervals, EnterInterval(p) PROVE PenalizerInv'
  <1> DEFINE u == scheduled \ known
             place == IF u = {} THEN "block" ELSE "events"
             r == [pass[p] EXCEPT !.at = place, !.unconfirmed = u]
  <1>1. /\ pass' = [pass EXCEPT ![p] = r] /\ PassOnly /\ UNCHANGED <<scheduled, known, reveals>>
        /\ pass[p].at = "idle"
    BY DEF EnterInterval, PenalizerInv, PenalizerTypeOK, PassType
  <1>2. u \subseteq Made /\ place \in {"block", "events"} /\ known \subseteq Committed
    BY DEF PenalizerInv, PenalizerTypeOK
  <1> HIDE DEF u, place
  <1>3. r \in PassType /\ r.at = place /\ r.todo = {}
    BY <1>1, <1>2, PassOf DEF PassType
  <1> HIDE DEF r
  <1> QED
    BY <1>1, <1>2, <1>3, PassOnlyKeeps

LEMMA QueryKeeps ==
    ASSUME PenalizerInv, NEW p \in Intervals, QueryReadyBlocksForMinedCommitments(p) PROVE PenalizerInv'
  <1> DEFINE r == [pass[p] EXCEPT !.at = "block"]
  <1>1. /\ pass' = [pass EXCEPT ![p] = r] /\ PassOnly /\ UNCHANGED <<scheduled, reveals>>
        /\ pass[p].at = "events"
    BY DEF QueryReadyBlocksForMinedCommitments, PenalizerInv, PenalizerTypeOK, PassType
  <1>2. known \subseteq known' /\ known' \subseteq Committed
    BY DEF QueryReadyBlocksForMinedCommitments, PenalizerInv, PenalizerTypeOK
  <1>3. r \in PassType /\ r.at = "block" /\ r.todo = {}
    BY <1>1, PassOf DEF PassType
  <1> HIDE DEF r
  <1> QED
    BY <1>1, <1>2, <1>3, PassOnlyKeeps

LEMMA ReadyKeeps == ASSUME PenalizerInv, NEW p \in Intervals, ReadyPenalizations(p) PROVE PenalizerInv'
  <1> DEFINE d == {i \in scheduled : IsReady(i)}
             r == [pass[p] EXCEPT !.at = "next", !.todo = d]
  <1>1. /\ pass' = [pass EXCEPT ![p] = r] /\ PassOnly /\ UNCHANGED <<scheduled, known, reveals>>
        /\ pass[p].at = "block"
    BY DEF ReadyPenalizations, PenalizerInv, PenalizerTypeOK, PassType
  <1>2. /\ d \subseteq Made /\ d \subseteq scheduled /\ d \subseteq known /\ known \subseteq Committed
        /\ \A i \in d : left[i] <= 0
    BY DEF PenalizerInv, PenalizerTypeOK, IsReady
  <1> HIDE DEF d
  <1>3. r \in PassType /\ r.at = "next" /\ r.todo = d
    BY <1>1, <1>2, PassOf DEF PassType
  <1> HIDE DEF r
  <1> QED
    BY <1>1, <1>2, <1>3, PassOnlyKeeps

LEMMA LeaveKeeps == ASSUME PenalizerInv, NEW p \in Intervals, LeaveInterval(p) PROVE PenalizerInv'
  <1>1. /\ pass' = [pass EXCEPT ![p] = NoPass] /\ PassOnly /\ UNCHANGED <<scheduled, known, reveals>>
        /\ pass[p].at = "next"
    BY DEF LeaveInterval
  <1>2. NoPass \in PassType /\ NoPass.at = "idle" /\ NoPass.todo = {}
    BY DEF NoPass, PassType
  <1>3. known \subseteq Committed
    BY DEF PenalizerInv, PenalizerTypeOK
  <1> QED
    BY <1>1, <1>2, <1>3, PassOnlyKeeps

\* The entry is removed before it is broadcast.
LEMMA RemoveKeeps == ASSUME PenalizerInv, NEW p \in Intervals, RemovePenalization(p) PROVE PenalizerInv'
  <1> DEFINE i == Earliest(pass[p].todo)
             r == [pass[p] EXCEPT !.at = "send"]
  <1>1. /\ pass' = [pass EXCEPT ![p] = r] /\ UNCHANGED <<known, reveals>>
        /\ pass[p].at = "next" /\ pass[p].todo # {} /\ scheduled' = Splice(i)
        /\ UNCHANGED <<audited, initialized, audit, pens, commitsSent, left, waiting, slashed, failures, restarts>>
    BY DEF RemovePenalization, PenalizerInv, PenalizerTypeOK, PassType, PassOnly, contract, budget
  <1>2. i \in pass[p].todo
    BY <1>1, PassOf
  <1> HIDE DEF i
  <1>3. r \in PassType /\ r.at = "send" /\ r.todo = pass[p].todo
    BY PassOf DEF PassType
  <1>4. scheduled' \subseteq scheduled /\ (i \in scheduled => scheduled' = scheduled \ {i})
    BY <1>1 DEF Splice
  <1>5. pass'[p] = r
    BY <1>1 DEF PenalizerInv, PenalizerTypeOK
  <1> HIDE DEF r
  <1>6. ASSUME OnePass
        PROVE  Orderly'
    <2>1. Orderly /\ \A q \in Intervals : q = p
      BY <1>6 DEF OnePass, PenalizerInv
    <2>2. InHand(p) = {} /\ InHand(p)' = {i}
      BY <1>1, <1>3, <1>5 DEF InHand, i
    <2>3. pass[p].todo \subseteq scheduled /\ pass[p].todo \subseteq known /\ \A j \in pass[p].todo : reveals[j] = 0
      BY <2>1, <2>2 DEF Orderly
    <2>4. scheduled' = scheduled \ {i}
      BY <1>2, <1>4, <2>3
    <2>5. RevealedOnce' /\ \A j \in scheduled' : reveals'[j] = 0
      BY <1>1, <1>4, <2>1 DEF Orderly, RevealedOnce
    <2>6. NoneDropped'
      <3>1. Made' = Made /\ \A q \in Intervals : pass[q].at # "send"
        BY <1>1, <2>1 DEF Made
      <3>2. pass'[p].at = "send" /\ Earliest(pass'[p].todo) = i
        BY <1>3, <1>5 DEF i
      <3>3. \A j \in Made : failures = 0 /\ restarts = 0 => j \in scheduled \/ reveals[j] > 0
        BY <2>1, <3>1 DEF Orderly, NoneDropped
      <3> QED
        BY <1>1, <2>4, <3>1, <3>2, <3>3 DEF NoneDropped
    <2>7. \A q \in Intervals :
               /\ pass'[q].todo \subseteq known'
               /\ \A j \in pass'[q].todo : reveals'[j] = 0
               /\ pass'[q].todo \ InHand(q)' \subseteq scheduled'
               /\ InHand(q)' \intersect scheduled' = {}
      BY <1>1, <1>3, <1>5, <2>1, <2>2, <2>3, <2>4
    <2> QED
      BY <2>5, <2>6, <2>7 DEF Orderly
  <1>7. /\ known' \subseteq Committed /\ waiting' \subseteq Made /\ (\A j \in waiting' : reveals'[j] > 0 /\ left[j] <= 0)
        /\ reveals' \in [Ids -> Nat] /\ (\A j \in Ids : reveals'[j] > 0 => j \in Made)
        /\ failures' \in 0..MaxBroadcastFailures
    BY <1>1 DEF PenalizerInv, PenalizerTypeOK, Numbered, Due
  <1>8. r.todo # {} /\ \A j \in r.todo : left[j] <= 0
    BY <1>1, <1>3, PassOf
  <1> QED
    BY <1>1, <1>3, <1>4, <1>6, <1>7, <1>8, PassKeeps

LEMMA ExecuteKeeps ==
    ASSUME PenalizerInv, NEW p \in Intervals, ExecuteDelayedPenalization(p) PROVE PenalizerInv'
  <1> DEFINE i == Earliest(pass[p].todo)
             r == [pass[p] EXCEPT !.at = "next", !.todo = pass[p].todo \ {i}]
  <1>1. /\ pass' = [pass EXCEPT ![p] = r] /\ UNCHANGED <<known, scheduled>>
        /\ pass[p].at = "send" /\ reveals' = [reveals EXCEPT ![i] = @ + 1] /\ waiting' = waiting \cup {i}
        /\ UNCHANGED <<audited, initialized, audit, pens, commitsSent, left, slashed, failures, restarts>>
    BY DEF ExecuteDelayedPenalization, PenalizerInv, PenalizerTypeOK, PassType, budget
  <1>2. i \in pass[p].todo /\ i \in Made /\ i \in Ids /\ left[i] <= 0
    BY <1>1, PassOf
  <1> HIDE DEF i
  <1>3. r \in PassType /\ r.at = "next" /\ r.todo = pass[p].todo \ {i}
    BY PassOf DEF PassType
  <1>4. pass'[p] = r
    BY <1>1 DEF PenalizerInv, PenalizerTypeOK
  <1>5. /\ \A j \in Ids : reveals'[j] = (IF j = i THEN reveals[i] + 1 ELSE reveals[j]) /\ reveals[j] \in Nat
        /\ reveals' \in [Ids -> Nat]
    BY <1>1, <1>2 DEF PenalizerInv, PenalizerTypeOK
  <1> HIDE DEF r
  <1>6. ASSUME OnePass
        PROVE  Orderly'
    <2>1. Orderly /\ \A q \in Intervals : q = p
      BY <1>6 DEF OnePass, PenalizerInv
    <2>2. InHand(p) = {i} /\ InHand(p)' = {}
      BY <1>1, <1>3, <1>4 DEF InHand, i
    <2>3. /\ pass[p].todo \ {i} \subseteq scheduled /\ pass[p].todo \subseteq known /\ i \notin scheduled
          /\ \A j \in pass[p].todo : reveals[j] = 0
      BY <2>1, <2>2 DEF Orderly
    <2>4. scheduled \subseteq Ids /\ pass[p].todo \subseteq Ids
      BY MadeIds, PassOf DEF PenalizerInv, PenalizerTypeOK
    <2>5. RevealedOnce' /\ \A j \in scheduled' : reveals'[j] = 0
      BY <1>1, <1>2, <1>5, <2>1, <2>3, <2>4 DEF Orderly, RevealedOnce
    <2>6. NoneDropped'
      <3>1. Made' = Made
        BY <1>1 DEF Made
      <3>2. \A j \in Made : failures = 0 /\ restarts = 0 => j \in scheduled \/ reveals[j] > 0 \/ j = i
        BY <2>1 DEF Orderly, NoneDropped, i
      <3>3. Made \subseteq Ids /\ reveals'[i] > 0
        BY <1>2, <1>5, MadeIds
      <3> QED
        BY <1>1, <1>5, <3>1, <3>2, <3>3 DEF NoneDropped
    <2>7. \A j \in pass'[p].todo : reveals'[j] = 0
      BY <1>3, <1>4, <1>5, <2>3, <2>4
    <2>8. \A q \in Intervals :
               /\ pass'[q].todo \subseteq known'
               /\ \A j \in pass'[q].todo : reveals'[j] = 0
               /\ pass'[q].todo \ InHand(q)' \subseteq scheduled'
               /\ InHand(q)' \intersect scheduled' = {}
      BY <1>1, <1>3, <1>4, <2>1, <2>2, <2>3, <2>7
    <2> QED
      BY <2>5, <2>6, <2>8 DEF Orderly
  <1>7. /\ known' \subseteq Committed /\ waiting' \subseteq Made /\ failures' \in 0..MaxBroadcastFailures
        /\ (\A j \in Ids : reveals'[j] > 0 => j \in Made)
    BY <1>1, <1>2, <1>5 DEF PenalizerInv, PenalizerTypeOK, Numbered
  <1>8. \A j \in waiting' : reveals'[j] > 0 /\ left[j] <= 0
    BY <1>1, <1>2, <1>5, MadeIds DEF PenalizerInv, PenalizerTypeOK, Due
  <1>9. \A j \in r.todo : left[j] <= 0
    BY <1>3, PassOf
  <1> QED
    BY <1>1, <1>3, <1>5, <1>6, <1>7, <1>8, <1>9, PassKeeps

LEMMA RevealFailsKeeps == ASSUME PenalizerInv, NEW p \in Intervals, RevealFails(p) PROVE PenalizerInv'
  <1>1. /\ pass' = [pass EXCEPT ![p] = NoPass] /\ pass[p].at = "send"
        /\ failures' = failures + 1 /\ failures < MaxBroadcastFailures
        /\ UNCHANGED <<audited, initialized, audit, pens, scheduled, known, commitsSent, left, waiting,
                       slashed, reveals, restarts>>
    BY DEF RevealFails, contract
  <1>2. NoPass \in PassType /\ NoPass.at = "idle" /\ NoPass.todo = {}
    BY DEF NoPass, PassType
  <1>3. pass'[p] = NoPass
    BY <1>1 DEF PenalizerInv, PenalizerTypeOK
  <1>4. failures' \in 0..MaxBroadcastFailures /\ failures' # 0
    BY <1>1, DelayType DEF PenalizerInv, PenalizerTypeOK
  <1>5. ASSUME OnePass
        PROVE  Orderly'
    <2>1. Orderly /\ \A q \in Intervals : q = p
      BY <1>5 DEF OnePass, PenalizerInv
    <2>2. InHand(p)' = {}
      BY <1>2, <1>3 DEF InHand
    <2>3. RevealedOnce' /\ NoneDropped' /\ \A j \in scheduled' : reveals'[j] = 0
      BY <1>1, <1>4, <2>1 DEF Orderly, RevealedOnce, NoneDropped
    <2>4. \A q \in Intervals :
               /\ pass'[q].todo \subseteq known'
               /\ \A j \in pass'[q].todo : reveals'[j] = 0
               /\ pass'[q].todo \ InHand(q)' \subseteq scheduled'
               /\ InHand(q)' \intersect scheduled' = {}
      BY <1>2, <1>3, <2>1, <2>2
    <2> QED
      BY <2>3, <2>4 DEF Orderly
  <1>6. /\ known' \subseteq Committed /\ waiting' \subseteq Made /\ (\A j \in waiting' : reveals'[j] > 0 /\ left[j] <= 0)
        /\ reveals' \in [Ids -> Nat] /\ (\A j \in Ids : reveals'[j] > 0 => j \in Made)
    BY <1>1 DEF PenalizerInv, PenalizerTypeOK, Numbered, Due
  <1> QED
    BY <1>1, <1>2, <1>4, <1>5, <1>6, PassKeeps

-----------------------------------------------------------------------------

LEMMA PenalizerNextKeeps == PenalizerInv /\ [PenalizerNext]_penalizerVars => PenalizerInv'
  <1> SUFFICES ASSUME PenalizerInv, [PenalizerNext]_penalizerVars PROVE PenalizerInv'
    OBVIOUS
  <1>1. CASE UNCHANGED penalizerVars
    <2>1. /\ UNCHANGED <<audited, pens, scheduled, known, pass, contract, reveals, restarts, audit, failures>>
          /\ initialized' \in BOOLEAN /\ failures' \in 0..MaxBroadcastFailures
      BY <1>1 DEF penalizerVars, inServer, budget, PenalizerInv, PenalizerTypeOK
    <2>2. /\ Numbered' /\ audit' \in [Audits -> AuditType]
          /\ \A a \in Audits : audit'[a].at = "idle" \/ audit'[a].tx \in workerTxs
      BY <2>1 DEF PenalizerInv, PenalizerTypeOK, Numbered, Made, Committed, contract
    <2> QED
      BY <2>1, <2>2, RestKeeps
  <1>2. CASE \E a \in Audits : AuditStep(a) \/ CommitFails(a) \/ \E t \in workerTxs : StartAudit(a, t)
    BY <1>2, LookingKeeps, RepeatedKeeps, IllegalKeeps, BroadcastCommitKeeps, CommitFailsKeeps,
       StartAuditKeeps DEF AuditStep
  <1>3. CASE \E p \in Intervals : PassStep(p) \/ RevealFails(p)
    BY <1>3, EnterKeeps, QueryKeeps, ReadyKeeps, RemoveKeeps, ExecuteKeeps, LeaveKeeps, RevealFailsKeeps
    DEF PassStep
  <1>4. CASE (\E i \in Ids : MineCommit(i) \/ MineReveal(i)) \/ \E t \in workerTxs : MineWorkerTx(t)
    BY <1>4, MineCommitKeeps, MineRevealKeeps, MineWorkerKeeps
  <1>5. CASE EmptyBlock \/ Initialize \/ Restart
    BY <1>5, EmptyBlockKeeps, InitializeKeeps, RestartKeeps
  <1> QED
    BY <1>1, <1>2, <1>3, <1>4, <1>5 DEF PenalizerNext

\* Only RemovePenalization takes from the schedule, and what it takes was found ready.
LEMMA RemovedIsReady ==
    ASSUME PenalizerInv, [PenalizerNext]_penalizerVars, OnePass
    PROVE  OnlyReadyRemovedStep
  <1> SUFFICES ASSUME restarts' = restarts, NEW i \in scheduled \ scheduled'
               PROVE  IsReady(i)
    BY DEF OnlyReadyRemovedStep
  <1>1. ~Restart
    BY DEF Restart, PenalizerInv, PenalizerTypeOK
  <1>2. PICK p \in Intervals : RemovePenalization(p)
    <2>1. scheduled \ scheduled' # {}
      OBVIOUS
    <2>2. ~UNCHANGED penalizerVars
      BY <2>1 DEF penalizerVars, inServer
    <2>3. ~\E a \in Audits : AuditStep(a) \/ CommitFails(a) \/ \E t \in workerTxs : StartAudit(a, t)
      BY <2>1 DEF AuditStep, CommitFails, StartAudit, ValidateTransaction, IsTransactionMined, CheckNonce,
         PenalizeRepeatedNonce, LookupFails, ValidateIllegal, PenalizeIllegalTransaction, BroadcastCommit,
         AuditOnly, Schedule
    <2>4. ~\E q \in Intervals : RevealFails(q) \/ EnterInterval(q) \/ QueryReadyBlocksForMinedCommitments(q)
             \/ ReadyPenalizations(q) \/ ExecuteDelayedPenalization(q) \/ LeaveInterval(q)
      BY <2>1 DEF RevealFails, EnterInterval, QueryReadyBlocksForMinedCommitments, ReadyPenalizations,
         ExecuteDelayedPenalization, LeaveInterval
    <2>5. /\ ~\E n \in Ids : MineCommit(n) \/ MineReveal(n)
          /\ ~\E t \in workerTxs : MineWorkerTx(t)
          /\ ~EmptyBlock /\ ~Initialize
      BY <2>1 DEF MineCommit, MineReveal, MineWorkerTx, EmptyBlock, Initialize, inServer
    <2> QED
      BY <1>1, <2>2, <2>3, <2>4, <2>5 DEF PenalizerNext, PassStep
  <1> DEFINE e == Earliest(pass[p].todo)
  <1>3. pass[p].at = "next" /\ pass[p].todo # {} /\ scheduled' = Splice(e)
    BY <1>2 DEF RemovePenalization
  <1>4. e \in pass[p].todo /\ left[e] <= 0
    BY <1>3, PassOf
  <1> HIDE DEF e
  <1>5. pass[p].todo \subseteq known /\ pass[p].todo \subseteq scheduled
    BY <1>3 DEF PenalizerInv, Orderly, InHand
  <1>6. scheduled' = scheduled \ {e}
    BY <1>3, <1>4, <1>5 DEF Splice
  <1>7. i = e
    BY <1>6
  <1> QED
    BY <1>4, <1>5, <1>7 DEF IsReady

\* What was found ready stays ready for the contract.
LEMMA Ready == ASSUME PenalizerInv PROVE NotTooSoon
  <1>1. waiting \subseteq Ids /\ \A i \in waiting : left[i] <= 0
    BY MadeIds DEF PenalizerInv, PenalizerTypeOK, Due
  <1>2. \A i \in Ids : BlockOn[i] \in Int
    BY BlockKeeps, DelayType
  <1> QED
    BY <1>1, <1>2, BlockKeeps, DelayType DEF NotTooSoon, CommitRevealOnly

\* The penalizer hurts nobody honest, reveals in time and, one pass at a time, once and
\* without forgetting, for any audits, transactions, delays, failures and restarts.
THEOREM PenaltiesAreSound == PenalizerSpec => PenaltiesSound
  <1>1. PenalizerInit => PenalizerInv
    BY PenalizerInitHolds
  <1>2. PenalizerInv /\ [PenalizerNext]_penalizerVars => PenalizerInv'
    BY PenalizerNextKeeps
  <1>3. PenalizerInv => PenalizerTypeOK /\ HonestKept /\ NotTooSoon /\ (OnePass => RevealedOnce /\ NoneDropped)
    BY Ready DEF PenalizerInv, Orderly
  <1>4. PenalizerInv /\ [PenalizerNext]_penalizerVars => [OnePass => OnlyReadyRemovedStep]_penalizerVars
    BY RemovedIsReady
  <1> QED
    BY <1>1, <1>2, <1>3, <1>4, PTL DEF PenalizerSpec, PenaltiesSound

-----------------------------------------------------------------------------
(* Paymaster reputation                                                    *)

RequestPlaces == {"new", "create", "updating", "validated", "served", "refused"}
WorkerPlaces == {"idle", "query", "handle", "create", "updating", "update"}
Jobs == {NoJob} \cup RequestJobs \cup WorkerJobs

\* A request that is in getPaymasterStatus; at most one is.
Judging(r) == at[r] = "create" \/ (at[r] = "updating" /\ job[r].then # "served")
OneIsJudging == \A r, s \in PaymasterRequests : Judging(r) /\ Judging(s) => r = s

\* Whoever writes, or is about to, has found an entry.
InPlace ==
    /\ \A r \in PaymasterRequests : at[r] \in RequestPlaces
    /\ at[Worker] \in WorkerPlaces
    /\ \A a \in Actors : at[a] \in {"updating", "validated", "update"} => entry \in EntryType

\* The worker has begun with the event of a block, and not yet written its change.
Begun == at[Worker] \in {"create", "update"} \/ (at[Worker] = "updating" /\ job[Worker].then = "update")
InTurn ==
    /\ Begun => todo # {}
    /\ at[Worker] \in {"idle", "query"} => todo = {}

\* The reputation when the worker's write is done.
Pending ==
    IF at[Worker] = "updating" /\ job[Worker].then = "handle" THEN job[Worker].update.reputation
    ELSE (IF entry = NoEntry THEN FreshEntry ELSE entry).reputation

\* The worker has handled the events up to block d.
Reached(d) ==
    /\ todo = {b \in d + 1..scanned : events[b] # "none"}
    /\ Pending = Ledger[d]
    /\ \A b \in 1..d : events[b] = "rejected" => b <= alertedAt

\* What an undisturbed worker can rely on.
Reliable ==
    /\ \E d \in 0..scanned : Reached(d)
    /\ at[Worker] = "query" => current = Height
    /\ at[Worker] = "create" => entry = NoEntry
    /\ Begun => (events[Block] = "rejected" => Block <= alertedAt)
    /\ Begun /\ at[Worker] # "create" => entry.reputation + ChangeAt(Block) <= MaximumReputation
    /\ at[Worker] = "updating" /\ "base" \in DOMAIN job[Worker] =>
           job[Worker].base.reputation = entry.reputation

ReputationInv ==
    ReputationTypeOK /\ InPlace /\ OneIsJudging /\ InTurn /\ (Undisturbed => Reliable)

-----------------------------------------------------------------------------

LEMMA BoundTypes ==
    /\ MaxBlock \in Nat /\ InitialReputation \in Nat /\ MaximumReputation \in Nat
    /\ AbuseTimeWindowBlocks \in Nat /\ AbuseTimeoutReputation \in Nat /\ AlertedDelay \in Nat
    /\ InitialReputation <= MaximumReputation /\ Worker \notin PaymasterRequests
  BY ReputationAssumption

Kinds == {"none", "relayed", "rejected"}

\* The first event to handle is one of those to handle, and no other comes before it.
LEMMA BlockIsFirst ==
    ASSUME ReputationInv, todo # {}
    PROVE  /\ Block \in todo /\ \A b \in todo : Block <= b
           /\ Block \in 1..Height /\ Block \in HubBlocks /\ Block \in Nat /\ Height \in Nat
  <1>1. todo \in SUBSET Nat /\ todo \subseteq 1..Height /\ Height \in Nat /\ Height <= MaxBlock
    BY DEF ReputationInv, ReputationTypeOK, Height
  <1>2. PICK m \in todo : \A b \in todo : m <= b
    BY <1>1, LeastNumber
  <1>3. Block \in todo /\ \A b \in todo : Block <= b
    BY <1>2 DEF Block
  <1> QED
    BY <1>1, <1>3, BoundTypes DEF HubBlocks

\* The ledger starts with the initial reputation and counts one block after another.
LEMMA LedgerTurn ==
    ASSUME NEW h \in Seq(Kinds), Len(h) <= MaxBlock
    PROVE  /\ LedgerOf(h)[0] = InitialReputation
           /\ \A b \in 0..MaxBlock : LedgerOf(h)[b] \in Int
           /\ \A b \in 1..Len(h) : b - 1 \in 0..MaxBlock /\ LedgerOf(h)[b] = Reckoned(LedgerOf(h)[b - 1], h[b])
  <1> DEFINE n == MaxBlock
             At(b, x) == IF b > Len(h) THEN x ELSE Reckoned(x, h[b])
             Equation(g) == g = [b \in 0..MaxBlock |-> IF b = 0 THEN InitialReputation
                                   ELSE IF b > Len(h) THEN g[b - 1] ELSE Reckoned(g[b - 1], h[b])]
             turn == [p \in (1..n) \X Int |-> At(p[1], p[2])]
             upTo == LedgerOf(h)
  <1>1. n \in Nat /\ Len(h) \in Nat /\ InitialReputation \in Int
    BY BoundTypes
  <1>2. upTo = CHOOSE g : Equation(g)
    BY DEF LedgerOf
  <1> HIDE DEF upTo
  <1>3. \A b \in 1..n, x \in Int : At(b, x) \in Int
    BY <1>1, BoundTypes DEF Reckoned, ChangeOf
  <1>4. turn \in Steps(n, Int)
    <2> HIDE DEF At
    <2> QED BY <1>3 DEF Steps
  <1>5. PICK f : Follows(f, n, Int, InitialReputation, turn)
    <2> HIDE DEF turn, n
    <2> QED BY <1>1, <1>4, RecursionExists
  <1>6. \A b \in 1..n : b - 1 \in 0..n /\ f[b - 1] \in Int /\ f[b] = At(b, f[b - 1])
    <2>1. ASSUME NEW b \in 1..n
          PROVE  b - 1 \in 0..n /\ f[b - 1] \in Int /\ f[b] = At(b, f[b - 1])
      <3> HIDE DEF At
      <3>1. b - 1 \in 0..n
        BY <1>1
      <3>2. f[b - 1] \in Int
        BY <1>5, <3>1 DEF Follows
      <3>3. <<b, f[b - 1]>> \in (1..n) \X Int
        BY <3>2
      <3>4. turn[<<b, f[b - 1]>>] = At(b, f[b - 1])
        BY <3>3
      <3> QED
        BY <1>5, <3>1, <3>2, <3>4 DEF Follows
    <2> QED BY <2>1
  <1>7. Equation(f)
    <2>1. \A b \in 0..n : b = 0 \/ b \in 1..n
      BY <1>1
    <2>2. f \in [0..n -> Int] /\ f[0] = InitialReputation
      BY <1>5 DEF Follows
    <2>3. f = [b \in 0..n |-> IF b = 0 THEN InitialReputation ELSE At(b, f[b - 1])]
      <3> HIDE DEF At, n, turn
      <3> QED BY <1>6, <2>1, <2>2
    <2> QED
      BY <2>3, Zenon
  <1>8. Equation(upTo)
    <2> HIDE DEF Equation
    <2> QED BY <1>2, <1>7
  <1>9. \A b \in 0..MaxBlock : upTo[b] = IF b = 0 THEN InitialReputation
                                   ELSE IF b > Len(h) THEN upTo[b - 1] ELSE Reckoned(upTo[b - 1], h[b])
    BY <1>8, Zenon
  <1> HIDE DEF Equation, turn
  <1>10. 0 \in 0..n /\ \A b \in 1..n : b \in 0..n /\ b # 0 /\ b - 1 \in 0..n
    BY <1>1
  <1>11. upTo[0] = InitialReputation /\ \A b \in 1..n : upTo[b] = At(b, upTo[b - 1])
    BY <1>9, <1>10
  <1>12. \A b \in 0..n : upTo[b] \in Int
    <2> DEFINE P == {b \in 0..n : upTo[b] \in Int}
    <2>1. 0 \in P
      BY <1>1, <1>10, <1>11
    <2>2. ASSUME NEW b \in 1..n, b - 1 \in P
          PROVE  b \in P
      <3> HIDE DEF At
      <3> QED BY <1>3, <1>10, <1>11, <2>2
    <2> HIDE DEF P
    <2>3. \A b \in 0..n : b \in P
      <3> HIDE DEF n
      <3> QED BY <1>1, <2>1, <2>2, Induction
    <2> QED BY <2>3 DEF P
  <1>13. \A b \in 1..Len(h) : b \in 1..n /\ ~(b > Len(h))
    BY <1>1
  <1>14. \A b \in 1..Len(h) : b - 1 \in 0..MaxBlock /\ upTo[b] = Reckoned(upTo[b - 1], h[b])
    BY <1>10, <1>11, <1>13
  <1> QED
    BY <1>11, <1>12, <1>14 DEF upTo

\* Blocks without events leave the ledger as it is.
LEMMA LedgerFlat ==
    ASSUME NEW h \in Seq(Kinds), Len(h) <= MaxBlock, NEW d \in 0..Len(h), NEW e \in d..Len(h),
           \A b \in d + 1..e : h[b] = "none"
    PROVE  LedgerOf(h)[e] = LedgerOf(h)[d]
  <1> DEFINE n == e - d
             P == {i \in 0..n : LedgerOf(h)[d + i] = LedgerOf(h)[d]}
  <1>1. Len(h) \in Nat /\ d \in Nat /\ e \in Nat /\ n \in Nat /\ e <= Len(h) /\ d + n = e
    OBVIOUS
  <1>2. 0 \in P
    BY <1>1
  <1>3. ASSUME NEW i \in 1..n, i - 1 \in P
        PROVE  i \in P
    <2>1. d + i \in 1..Len(h) /\ d + i \in d + 1..e /\ (d + i) - 1 = d + (i - 1)
      BY <1>1
    <2>2. LedgerOf(h)[d + i] = Reckoned(LedgerOf(h)[(d + i) - 1], h[d + i])
      BY <2>1, LedgerTurn
    <2>3. LedgerOf(h)[d + i] = LedgerOf(h)[d + (i - 1)]
      BY <2>1, <2>2 DEF Reckoned
    <2> QED
      BY <1>1, <1>3, <2>3
  <1> HIDE DEF n, P
  <1>4. \A i \in 0..n : i \in P
    BY <1>1, <1>2, <1>3, Induction
  <1>5. n \in P
    BY <1>1, <1>4
  <1> QED
    BY <1>1, <1>5 DEF P

\* A block more leaves what was counted before it.
LEMMA LedgerGrows ==
    ASSUME NEW h \in Seq(Kinds), NEW k \in Kinds, Len(h) < MaxBlock, NEW d \in 0..Len(h)
    PROVE  LedgerOf(Append(h, k))[d] = LedgerOf(h)[d]
  <1> DEFINE g == Append(h, k)
             P == {i \in 0..Len(h) : LedgerOf(g)[i] = LedgerOf(h)[i]}
  <1>1. /\ g \in Seq(Kinds) /\ Len(g) = Len(h) + 1 /\ Len(g) <= MaxBlock /\ Len(h) \in Nat
        /\ Len(h) <= MaxBlock /\ \A i \in 1..Len(h) : g[i] = h[i]
    BY BoundTypes
  <1> HIDE DEF g
  <1>2. 0 \in P
    BY <1>1, LedgerTurn
  <1>3. ASSUME NEW i \in 1..Len(h), i - 1 \in P
        PROVE  i \in P
    <2>1. i \in 1..Len(g)
      BY <1>1
    <2>2. LedgerOf(h)[i] = Reckoned(LedgerOf(h)[i - 1], h[i])
      BY <1>1, LedgerTurn
    <2>3. LedgerOf(g)[i] = Reckoned(LedgerOf(g)[i - 1], g[i])
      BY <1>1, <2>1, LedgerTurn
    <2> QED
      BY <1>1, <1>3, <2>2, <2>3
  <1> HIDE DEF P
  <1>4. d \in P
    BY <1>1, <1>2, <1>3, Induction
  <1> QED
    BY <1>4 DEF P, g

-----------------------------------------------------------------------------
(* The requests *)

LEMMA EntryTypes ==
    /\ FreshEntry \in EntryType /\ FreshEntry.reputation = InitialReputation /\ FreshEntry # NoEntry
    /\ NoEntry \notin EntryType /\ NoJob \notin RequestJobs /\ NoJob \notin WorkerJobs
  <1>1. FreshEntry \in EntryType /\ FreshEntry.reputation = InitialReputation
    BY BoundTypes DEF FreshEntry, EntryType
  <1>2. NoEntry \notin EntryType
    BY DEF NoEntry, EntryType
  <1>3. NoJob \notin RequestJobs /\ NoJob \notin WorkerJobs
    BY DEF NoJob, RequestJobs, WorkerJobs, JobOf
  <1> QED
    BY <1>1, <1>2, <1>3

\* What a request or the worker has the store take fits an entry.
Taken(base, update) ==
    /\ Assigned(base, update) \in EntryType
    /\ Assigned(base, update).reputation =
           (IF "reputation" \in DOMAIN update THEN update.reputation ELSE base.reputation)

LEMMA JobTypes ==
    ASSUME NEW j \in RequestJobs \cup WorkerJobs
    PROVE  /\ [update |-> j.update, then |-> j.then] = j \/ "base" \in DOMAIN j
           /\ "base" \in DOMAIN j => j.base \in EntryType
           /\ j \in RequestJobs => j.then \in {"served", "refused", "validated"}
           /\ j \in WorkerJobs => j.then \in {"update", "handle"}
  BY DEF RequestJobs, WorkerJobs, JobOf

LEMMA EntryAssigned ==
    ASSUME NEW e \in EntryType, NEW j \in RequestJobs \cup WorkerJobs
    PROVE  Taken(e, j.update)
  <1> DEFINE u == j.update
  <1>1. \/ u \in [recent : {TRUE}] \/ u \in [reputation : {AbuseTimeoutReputation}, abuse : {0}]
        \/ u \in [abuse : HubBlocks] \/ u \in [reputation : Int, changes : SUBSET Changes]
    BY DEF RequestJobs, WorkerJobs, JobOf
  <1>2. /\ e.reputation \in Int /\ e.recent \in BOOLEAN /\ e.abuse \in 0..MaxBlock /\ e.changes \in SUBSET Changes
        /\ DOMAIN e = {"reputation", "recent", "abuse", "changes"}
    BY DEF EntryType
  <1> HIDE DEF u
  <1>3. /\ "reputation" \in DOMAIN u => u["reputation"] \in Int
        /\ "recent" \in DOMAIN u => u["recent"] \in BOOLEAN
        /\ "abuse" \in DOMAIN u => u["abuse"] \in 0..MaxBlock
        /\ "changes" \in DOMAIN u => u["changes"] \in SUBSET Changes
    <2>1. CASE u \in [recent : {TRUE}]
      <3>1. DOMAIN u = {"recent"} /\ u["recent"] \in BOOLEAN
        BY <2>1
      <3> QED
        BY <3>1
    <2>2. CASE u \in [reputation : {AbuseTimeoutReputation}, abuse : {0}]
      <3>1. DOMAIN u = {"reputation", "abuse"} /\ u["reputation"] \in Int /\ u["abuse"] \in 0..MaxBlock
        BY <2>2, BoundTypes
      <3> QED
        BY <3>1
    <2>3. CASE u \in [abuse : HubBlocks]
      <3>1. DOMAIN u = {"abuse"} /\ u["abuse"] \in 0..MaxBlock
        BY <2>3, BoundTypes DEF HubBlocks
      <3> QED
        BY <3>1
    <2>4. CASE u \in [reputation : Int, changes : SUBSET Changes]
      <3>1. DOMAIN u = {"reputation", "changes"} /\ u["reputation"] \in Int /\ u["changes"] \in SUBSET Changes
        BY <2>4
      <3> QED
        BY <3>1
    <2> QED
      BY <1>1, <2>1, <2>2, <2>3, <2>4
  <1>4. Assigned(e, u) = [f \in {"reputation", "recent", "abuse", "changes"} |-> IF f \in DOMAIN u THEN u[f] ELSE e[f]]
    BY <1>2 DEF Assigned
  <1>5. PICK n : n = [reputation |-> IF "reputation" \in DOMAIN u THEN u["reputation"] ELSE e.reputation,
                      recent |-> IF "recent" \in DOMAIN u THEN u["recent"] ELSE e.recent,
                      abuse |-> IF "abuse" \in DOMAIN u THEN u["abuse"] ELSE e.abuse,
                      changes |-> IF "changes" \in DOMAIN u THEN u["changes"] ELSE e.changes]
    OBVIOUS
  <1>6. n \in EntryType
    BY <1>2, <1>3, <1>5 DEF EntryType
  <1>7. Assigned(e, u) = n
    BY <1>4, <1>5
  <1> QED
    BY <1>5, <1>6, <1>7 DEF Taken, u

\* A request that moves leaves the worker alone; the worker is disturbed.
LEMMA RequestTurns ==
    ASSUME ReputationInv, NEW r \in PaymasterRequests, NEW x \in RequestPlaces \ {"new"}, NEW j \in Jobs,
           at' = [at EXCEPT ![r] = x], job' = [job EXCEPT ![r] = j],
           x = "updating" => j \in RequestJobs,
           x \in {"updating", "validated"} => entry' \in EntryType,
           entry' = entry \/ entry' \in EntryType,
           x = "create" \/ (x = "updating" /\ j.then # "served") => Judging(r) \/ \A s \in PaymasterRequests : ~Judging(s),
           UNCHANGED <<events, scanVars, handled>>
    PROVE  ReputationInv'
  <1>1. /\ \A a \in Actors : at'[a] = IF a = r THEN x ELSE at[a]
        /\ \A a \in Actors : job'[a] = IF a = r THEN j ELSE job[a]
        /\ Worker # r /\ r \in Actors /\ Worker \in Actors /\ \A s \in PaymasterRequests : s \in Actors
    BY BoundTypes DEF ReputationInv, ReputationTypeOK, Actors
  <1>2. ReputationTypeOK'
    <2>1. at' \in [Actors -> {"new", "create", "updating", "validated", "served", "refused",
                              "idle", "query", "handle", "update"}]
      BY <1>1 DEF ReputationInv, ReputationTypeOK, RequestPlaces
    <2>2. job' \in [Actors -> Jobs]
      BY <1>1 DEF ReputationInv, ReputationTypeOK, Jobs
    <2>3. \A s \in PaymasterRequests : at'[s] = "updating" => job'[s] \in RequestJobs
      BY <1>1 DEF ReputationInv, ReputationTypeOK
    <2>4. at'[Worker] = "updating" => job'[Worker] \in WorkerJobs
      BY <1>1 DEF ReputationInv, ReputationTypeOK
    <2>5. entry' = NoEntry \/ entry' \in EntryType
      BY DEF ReputationInv, ReputationTypeOK
    <2> QED
      BY <2>1, <2>2, <2>3, <2>4, <2>5 DEF ReputationInv, ReputationTypeOK, Jobs, scanVars, Height
  <1>3. InPlace'
    BY <1>1 DEF ReputationInv, InPlace, RequestPlaces
  <1>4. OneIsJudging'
    <2>1. \A s \in PaymasterRequests : s # r => (Judging(s)' <=> Judging(s))
      BY <1>1 DEF Judging
    <2>2. Judging(r)' => Judging(r) \/ \A s \in PaymasterRequests : ~Judging(s)
      BY <1>1 DEF Judging
    <2> QED
      BY <2>1, <2>2 DEF ReputationInv, OneIsJudging
  <1>5. InTurn'
    BY <1>1 DEF ReputationInv, InTurn, Begun, scanVars
  <1>6. ~Undisturbed'
    BY <1>1 DEF Undisturbed
  <1> QED
    BY <1>2, <1>3, <1>4, <1>5, <1>6 DEF ReputationInv

LEMMA JobCopied ==
    ASSUME NEW j, "base" \notin DOMAIN j, NEW e \in EntryType
    PROVE  /\ j \in RequestJobs => [update |-> j.update, then |-> j.then, base |-> e] \in RequestJobs
           /\ j \in WorkerJobs => [update |-> j.update, then |-> j.then, base |-> e] \in WorkerJobs
  BY DEF RequestJobs, WorkerJobs, JobOf

LEMMA RequestPlace ==
    ASSUME ReputationInv, NEW r \in PaymasterRequests
    PROVE  /\ r \in Actors /\ at[r] \in RequestPlaces /\ job[r] \in Jobs
           /\ at = [at EXCEPT ![r] = at[r]] /\ job = [job EXCEPT ![r] = job[r]]
           /\ at[r] = "updating" => job[r] \in RequestJobs
           /\ at[r] \in {"updating", "validated"} => entry \in EntryType
  BY DEF ReputationInv, ReputationTypeOK, InPlace, Actors, Jobs

LEMMA CopyKeeps == ASSUME ReputationInv, NEW r \in PaymasterRequests, Copy(r) PROVE ReputationInv'
  <1> DEFINE j == [update |-> job[r].update, then |-> job[r].then, base |-> entry]
  <1>1. at[r] = "updating" /\ "base" \notin DOMAIN job[r] /\ UNCHANGED <<events, entry, at, scanVars, handled>>
    BY DEF Copy, chainVars
  <1>2. job[r] \in RequestJobs /\ entry \in EntryType /\ at' = [at EXCEPT ![r] = "updating"]
    BY <1>1, RequestPlace
  <1>3. j \in RequestJobs /\ j.then = job[r].then
    BY <1>1, <1>2, JobCopied
  <1>4. job' = [job EXCEPT ![r] = j]
    BY DEF Copy
  <1>5. Judging(r) \/ j.then = "served"
    BY <1>1, <1>3 DEF Judging
  <1>6. j \in Jobs /\ "updating" \in RequestPlaces \ {"new"}
    BY <1>3 DEF Jobs, RequestPlaces
  <1> HIDE DEF j
  <1> QED
    BY <1>1, <1>2, <1>3, <1>4, <1>5, <1>6, RequestTurns

LEMMA WriteKeeps == ASSUME ReputationInv, NEW r \in PaymasterRequests, Write(r) PROVE ReputationInv'
  <1>1. /\ at[r] = "updating" /\ "base" \in DOMAIN job[r] /\ UNCHANGED <<events, scanVars, handled>>
        /\ entry' = Assigned(job[r].base, job[r].update) /\ job' = [job EXCEPT ![r] = NoJob]
        /\ at' = [at EXCEPT ![r] = job[r].then]
    BY DEF Write, chainVars, Goto
  <1>2. job[r] \in RequestJobs
    BY <1>1, RequestPlace
  <1>3. job[r].then \in {"served", "refused", "validated"} /\ job[r].base \in EntryType
    BY <1>1, <1>2, JobTypes
  <1>4. entry' \in EntryType
    BY <1>1, <1>2, <1>3, EntryAssigned DEF Taken
  <1>5. NoJob \in Jobs /\ job[r].then \in RequestPlaces \ {"new"} /\ job[r].then \notin {"updating", "create"}
    BY <1>3 DEF Jobs, RequestPlaces
  <1> QED
    BY <1>1, <1>4, <1>5, RequestTurns

\* A request that judges the entry it read, alone.
LEMMA JudgeKeeps ==
    ASSUME ReputationInv, NEW r \in PaymasterRequests, NEW e \in EntryType, Judge(r, e),
           entry' \in EntryType, at[r] \in {"new", "create"},
           Judging(r) \/ \A s \in PaymasterRequests : ~Judging(s),
           UNCHANGED <<events, scanVars, handled>>
    PROVE  ReputationInv'
  <1>1. Judgement(e) \in {"refused", "validated"}
    BY DEF Judgement
  <1>2. job[r] \in Jobs /\ (UNCHANGED job => job' = [job EXCEPT ![r] = job[r]])
    BY RequestPlace
  <1>3. ASSUME NEW x \in {"refused", "validated"}, Goto(r, x), UNCHANGED job
        PROVE  ReputationInv'
    <2>1. x \in RequestPlaces \ {"new"} /\ x \notin {"updating", "create"}
      BY DEF RequestPlaces
    <2> QED
      BY <1>2, <1>3, <2>1, RequestTurns DEF Goto
  <1>4. CASE Submit(r, [reputation |-> AbuseTimeoutReputation, abuse |-> 0], Judgement(e))
    <2> DEFINE j == [update |-> [reputation |-> AbuseTimeoutReputation, abuse |-> 0], then |-> Judgement(e)]
    <2>1. j \in RequestJobs
      BY <1>1 DEF RequestJobs, JobOf
    <2>2. job' = [job EXCEPT ![r] = j] /\ at' = [at EXCEPT ![r] = "updating"]
      BY <1>4 DEF Submit, Goto
    <2> HIDE DEF j
    <2>3. j \in Jobs /\ "updating" \in RequestPlaces \ {"new"}
      BY <2>1 DEF Jobs, RequestPlaces
    <2> QED
      BY <2>1, <2>2, <2>3, RequestTurns
  <1> QED
    BY <1>1, <1>3, <1>4 DEF Judge

LEMMA GetStatusKeeps == ASSUME ReputationInv, NEW r \in PaymasterRequests, GetPaymasterStatus(r) PROVE ReputationInv'
  <1>1. at[r] = "new" /\ MutexFree /\ UNCHANGED <<events, entry, scanVars, handled>>
    BY DEF GetPaymasterStatus, chainVars
  <1>2. \A s \in PaymasterRequests : ~Judging(s)
    BY <1>1 DEF MutexFree, Judging
  <1>3. CASE entry = NoEntry /\ Goto(r, "create") /\ UNCHANGED job
    <2>1. job[r] \in Jobs /\ job' = [job EXCEPT ![r] = job[r]] /\ at' = [at EXCEPT ![r] = "create"]
      BY <1>3, RequestPlace DEF Goto
    <2>2. "create" \in RequestPlaces \ {"new"}
      BY DEF RequestPlaces
    <2> QED
      BY <1>1, <1>2, <2>1, <2>2, RequestTurns
  <1>4. CASE entry # NoEntry /\ Judge(r, entry)
    <2>1. entry \in EntryType
      BY <1>4 DEF ReputationInv, ReputationTypeOK
    <2> QED
      BY <1>1, <1>2, <1>4, <2>1, JudgeKeeps
  <1> QED
    BY <1>3, <1>4 DEF GetPaymasterStatus

LEMMA CreateKeeps == ASSUME ReputationInv, NEW r \in PaymasterRequests, CreateEntry(r) PROVE ReputationInv'
  <1>1. at[r] = "create" /\ Judging(r) /\ UNCHANGED <<events, scanVars, handled>>
    BY DEF CreateEntry, chainVars, Judging
  <1>2. CASE entry = NoEntry /\ entry' = FreshEntry /\ Judge(r, FreshEntry)
    BY <1>1, <1>2, EntryTypes, JudgeKeeps
  <1>3. CASE entry # NoEntry /\ Goto(r, "refused") /\ UNCHANGED <<entry, job>>
    <2>1. job[r] \in Jobs /\ job' = [job EXCEPT ![r] = job[r]] /\ at' = [at EXCEPT ![r] = "refused"]
      BY <1>3, RequestPlace DEF Goto
    <2>2. "refused" \in RequestPlaces \ {"new"}
      BY DEF RequestPlaces
    <2> QED
      BY <1>1, <1>3, <2>1, <2>2, RequestTurns
  <1> QED
    BY <1>2, <1>3 DEF CreateEntry

LEMMA AcceptedKeeps == ASSUME ReputationInv, NEW r \in PaymasterRequests, Accepted(r) PROVE ReputationInv'
  <1> DEFINE j == [update |-> [recent |-> TRUE], then |-> "served"]
  <1>1. at[r] = "validated" /\ UNCHANGED <<events, entry, scanVars, handled>>
    BY DEF Accepted, chainVars
  <1>2. job' = [job EXCEPT ![r] = j] /\ at' = [at EXCEPT ![r] = "updating"]
    BY DEF Accepted, Submit, Goto
  <1>3. j \in RequestJobs /\ j.then = "served"
    BY DEF RequestJobs, JobOf
  <1> HIDE DEF j
  <1>4. j \in Jobs /\ "updating" \in RequestPlaces \ {"new"} /\ entry \in EntryType
    BY <1>1, <1>3, RequestPlace DEF Jobs, RequestPlaces
  <1> QED
    BY <1>1, <1>2, <1>3, <1>4, RequestTurns

-----------------------------------------------------------------------------
(* The environment *)

LEMMA MineHubKeeps == ASSUME ReputationInv, MineHub PROVE ReputationInv'
  <1>1. PICK k \in Kinds : events' = Append(events, k)
    BY DEF MineHub, Kinds
  <1>2. /\ Height < MaxBlock /\ UNCHANGED <<entry, job, at, scanned, current, todo, inAlert, alertedAt, handled>>
        /\ current = Height => at[Worker] # "query" \/ LateBlocks
    BY DEF MineHub, scanVars
  <1>3. /\ events \in Seq(Kinds) /\ events' \in Seq(Kinds) /\ Height \in Nat /\ Height' = Height + 1
        /\ \A b \in 1..Height : events'[b] = events[b]
    BY <1>1 DEF ReputationInv, ReputationTypeOK, Kinds, Height
  <1>4. 0..Height \subseteq 0..Height' /\ 1..Height \subseteq 1..Height' /\ Height' <= MaxBlock
    BY <1>2, <1>3, BoundTypes
  <1>5. ReputationTypeOK'
    BY <1>2, <1>3, <1>4 DEF ReputationInv, ReputationTypeOK, Kinds
  <1>6. InPlace' /\ OneIsJudging' /\ InTurn'
    BY <1>2 DEF ReputationInv, InPlace, OneIsJudging, Judging, InTurn, Begun
  <1>7. ASSUME Undisturbed PROVE Reliable'
    <2>1. PICK d \in 0..scanned : Reached(d)
      BY <1>7 DEF ReputationInv, Reliable
    <2>2. d \in 0..Height /\ scanned \in 0..Height /\ d \in Nat /\ scanned \in Nat
      BY <1>3 DEF ReputationInv, ReputationTypeOK
    <2>3. LedgerOf(events')[d] = LedgerOf(events)[d]
      BY <1>1, <1>2, <1>3, <2>2, LedgerGrows DEF Height
    <2>4. Reached(d)'
      <3>1. Pending' = Pending
        BY <1>2 DEF Pending
      <3>2. \A b \in d + 1..scanned : b \in 1..Height
        BY <2>2, <1>3
      <3>3. \A b \in 1..d : b \in 1..Height
        BY <2>2, <1>3
      <3> QED
        BY <1>2, <1>3, <2>1, <2>3, <3>1, <3>2, <3>3 DEF Reached, Ledger
    <2>5. at[Worker] # "query"
      BY <1>2, <1>7 DEF Undisturbed, ReputationInv, Reliable
    <2>6. Begun => Block \in 1..Height /\ events'[Block] = events[Block] /\ ChangeAt(Block)' = ChangeAt(Block)
      <3>1. ASSUME Begun PROVE Block \in 1..Height
        BY <3>1, BlockIsFirst DEF ReputationInv, InTurn
      <3>2. Block' = Block
        BY <1>2 DEF Block
      <3> QED
        BY <1>3, <3>1, <3>2 DEF ChangeAt
    <2>7. Block' = Block /\ (Begun' <=> Begun)
      BY <1>2 DEF Block, Begun
    <2> QED
      BY <1>2, <1>7, <2>1, <2>4, <2>5, <2>6, <2>7 DEF ReputationInv, Reliable
  <1>8. Undisturbed' => Undisturbed
    BY <1>2 DEF Undisturbed
  <1> QED
    BY <1>5, <1>6, <1>7, <1>8 DEF ReputationInv

LEMMA DelayPassesKeeps == ASSUME ReputationInv, DelayPasses PROVE ReputationInv'
  <1>1. /\ entry # NoEntry /\ entry' = [entry EXCEPT !.recent = FALSE]
        /\ UNCHANGED <<events, job, at, scanned, current, todo, inAlert, alertedAt, handled>>
    BY DEF DelayPasses, chainVars, scanVars
  <1>2. entry \in EntryType
    BY <1>1 DEF ReputationInv, ReputationTypeOK
  <1>3. entry' \in EntryType /\ entry'.reputation = entry.reputation
    BY <1>1, <1>2 DEF EntryType
  <1>4. entry' # NoEntry
    BY <1>3, EntryTypes
  <1>5. ReputationTypeOK' /\ InPlace'
    BY <1>1, <1>3 DEF ReputationInv, ReputationTypeOK, InPlace, Height
  <1>6. OneIsJudging' /\ InTurn'
    BY <1>1 DEF ReputationInv, OneIsJudging, Judging, InTurn, Begun
  <1>7. ASSUME Undisturbed PROVE Reliable'
    <2>1. Pending' = Pending /\ Block' = Block /\ (Begun' <=> Begun) /\ Ledger' = Ledger /\ Height' = Height
      BY <1>1, <1>3, <1>4 DEF Pending, Block, Begun, Ledger, Height
    <2>2. Reliable
      BY <1>7 DEF ReputationInv
    <2>3. (\E d \in 0..scanned : Reached(d))'
      BY <1>1, <2>1, <2>2 DEF Reliable, Reached
    <2> QED
      BY <1>1, <1>3, <2>1, <2>2, <2>3 DEF Reliable, ChangeAt
  <1>8. Undisturbed' => Undisturbed
    BY <1>1 DEF Undisturbed
  <1> QED
    BY <1>5, <1>6, <1>7, <1>8 DEF ReputationInv

-----------------------------------------------------------------------------
(* The worker *)

\* A worker that moves leaves the requests alone.
LEMMA WorkerTurns ==
    ASSUME ReputationInv, NEW x \in WorkerPlaces, NEW j \in Jobs,
           at' = [at EXCEPT ![Worker] = x], job' = [job EXCEPT ![Worker] = j],
           x = "updating" => j \in WorkerJobs,
           x \in {"updating", "update"} => entry' \in EntryType,
           entry' = entry \/ entry' \in EntryType, UNCHANGED events,
           scanned' \in 0..Height, current' \in 0..Height, todo' \subseteq 1..Height,
           inAlert' \in BOOLEAN, alertedAt' \in 0..Height, handled' \in [HubBlocks -> Nat],
           x \in {"create", "update"} \/ (x = "updating" /\ j.then = "update") => todo' # {},
           x \in {"idle", "query"} => todo' = {},
           Undisturbed => Reliable'
    PROVE  ReputationInv'
  <1>1. /\ \A a \in Actors : at'[a] = IF a = Worker THEN x ELSE at[a]
        /\ \A a \in Actors : job'[a] = IF a = Worker THEN j ELSE job[a]
        /\ Worker \in Actors /\ \A s \in PaymasterRequests : s \in Actors /\ s # Worker
    BY BoundTypes DEF ReputationInv, ReputationTypeOK, Actors
  <1>2. ReputationTypeOK'
    <2>1. at' \in [Actors -> {"new", "create", "updating", "validated", "served", "refused",
                              "idle", "query", "handle", "update"}]
      BY <1>1 DEF ReputationInv, ReputationTypeOK, WorkerPlaces
    <2>2. job' \in [Actors -> Jobs]
      BY <1>1 DEF ReputationInv, ReputationTypeOK, Jobs
    <2>3. \A s \in PaymasterRequests : at'[s] = "updating" => job'[s] \in RequestJobs
      BY <1>1 DEF ReputationInv, ReputationTypeOK
    <2>4. at'[Worker] = "updating" => job'[Worker] \in WorkerJobs
      BY <1>1
    <2>5. entry' = NoEntry \/ entry' \in EntryType
      BY DEF ReputationInv, ReputationTypeOK
    <2> QED
      BY <2>1, <2>2, <2>3, <2>4, <2>5 DEF ReputationInv, ReputationTypeOK, Jobs, Height
  <1>3. InPlace'
    BY <1>1 DEF ReputationInv, InPlace, WorkerPlaces
  <1>4. OneIsJudging'
    <2>1. \A s \in PaymasterRequests : Judging(s)' <=> Judging(s)
      BY <1>1 DEF Judging
    <2> QED
      BY <2>1 DEF ReputationInv, OneIsJudging
  <1>5. InTurn'
    BY <1>1 DEF InTurn, Begun
  <1>6. Undisturbed' => Undisturbed
    BY <1>1 DEF Undisturbed
  <1> QED
    BY <1>2, <1>3, <1>4, <1>5, <1>6 DEF ReputationInv

LEMMA WorkerPlace ==
    ASSUME ReputationInv
    PROVE  /\ Worker \in Actors /\ at[Worker] \in WorkerPlaces /\ job[Worker] \in Jobs
           /\ at = [at EXCEPT ![Worker] = at[Worker]] /\ job = [job EXCEPT ![Worker] = job[Worker]]
           /\ at[Worker] = "updating" => job[Worker] \in WorkerJobs
           /\ at[Worker] \in {"updating", "update"} => entry \in EntryType
           /\ \A x : [at EXCEPT ![Worker] = x][Worker] = x
           /\ \A j : [job EXCEPT ![Worker] = j][Worker] = j
           /\ Height \in Nat /\ scanned \in 0..Height /\ current \in 0..Height /\ todo \subseteq 1..Height
           /\ alertedAt \in 0..Height /\ inAlert \in BOOLEAN /\ handled \in [HubBlocks -> Nat]
           /\ events \in Seq(Kinds) /\ Height <= MaxBlock /\ Height = Len(events)
  BY DEF ReputationInv, ReputationTypeOK, InPlace, Actors, Jobs, Kinds, Height

\* What is reached once the first event is counted.
LEMMA EventCounted ==
    ASSUME ReputationInv, todo # {}, NEW d \in 0..scanned, todo = {b \in d + 1..scanned : events[b] # "none"}
    PROVE  /\ Block \in 0..scanned /\ events[Block] # "none"
           /\ todo \ {Block} = {b \in Block + 1..scanned : events[b] # "none"}
           /\ Ledger[Block] = Reckoned(Ledger[d], events[Block])
           /\ \A b \in 1..Block : events[b] = "rejected" => b \in 1..d \/ b = Block
  <1>1. Block \in todo /\ \A b \in todo : Block <= b
    BY BlockIsFirst
  <1>2. scanned \in Nat /\ d \in Nat /\ Len(events) \in Nat /\ scanned <= Len(events) /\ events \in Seq(Kinds)
        /\ Len(events) <= MaxBlock
    BY WorkerPlace
  <1>3. Block \in d + 1..scanned /\ events[Block] # "none" /\ Block \in Nat
    BY <1>1, <1>2
  <1>4. \A b \in d + 1..Block - 1 : events[b] = "none"
    BY <1>1, <1>2, <1>3
  <1>5. d \in 0..Len(events) /\ Block - 1 \in d..Len(events) /\ Block \in 1..Len(events)
    BY <1>2, <1>3
  <1>6. LedgerOf(events)[Block - 1] = LedgerOf(events)[d]
    BY <1>2, <1>4, <1>5, LedgerFlat
  <1>7. LedgerOf(events)[Block] = Reckoned(LedgerOf(events)[Block - 1], events[Block])
    BY <1>2, <1>5, LedgerTurn
  <1>8. todo \ {Block} = {b \in Block + 1..scanned : events[b] # "none"}
    BY <1>1, <1>2, <1>3
  <1>9. \A b \in 1..Block : events[b] = "rejected" => b \in 1..d \/ b = Block
    <2>1. \A b \in 1..Block : b \in 1..d \/ b = Block \/ b \in d + 1..Block - 1
      BY <1>2, <1>3
    <2> QED
      BY <1>4, <2>1
  <1>10. Block \in 0..scanned
    BY <1>2, <1>3
  <1> QED
    BY <1>3, <1>6, <1>7, <1>8, <1>9, <1>10 DEF Ledger

LEMMA GetBlockKeeps == ASSUME ReputationInv, GetBlock PROVE ReputationInv'
  <1>1. /\ at[Worker] = "idle" /\ current' = Height /\ at' = [at EXCEPT ![Worker] = "query"]
        /\ UNCHANGED <<events, entry, job, scanned, todo, inAlert, alertedAt, handled>>
    BY DEF GetBlock, Goto, chainVars
  <1>2. todo = {} /\ job' = [job EXCEPT ![Worker] = job[Worker]] /\ at'[Worker] = "query"
    BY <1>1, WorkerPlace DEF ReputationInv, InTurn
  <1>3. Undisturbed => Reliable'
    <2> SUFFICES ASSUME Undisturbed PROVE Reliable'
      OBVIOUS
    <2>1. Pending' = Pending /\ ~Begun' /\ Ledger' = Ledger /\ Height' = Height
      BY <1>1, <1>2 DEF Pending, Begun, Ledger, Height
    <2>2. (\E d \in 0..scanned : Reached(d))'
      BY <1>1, <2>1 DEF ReputationInv, Reliable, Reached
    <2> QED
      BY <1>1, <1>2, <2>1, <2>2 DEF Reliable
  <1>4. "query" \in WorkerPlaces
    BY DEF WorkerPlaces
  <1>5. Height \in 0..Height
    BY WorkerPlace
  <1> QED
    BY <1>1, <1>2, <1>3, <1>4, <1>5, WorkerPlace, WorkerTurns

LEMMA QueryEventsKeeps == ASSUME ReputationInv, Query PROVE ReputationInv'
  <1>1. /\ at[Worker] = "query" /\ todo' = EventsFrom(scanned + 1) /\ scanned' = current
        /\ at' = [at EXCEPT ![Worker] = "handle"]
        /\ UNCHANGED <<events, entry, job, current, inAlert, alertedAt, handled>>
    BY DEF Query, Goto, chainVars
  <1>2. todo = {} /\ job' = [job EXCEPT ![Worker] = job[Worker]] /\ at'[Worker] = "handle"
    BY <1>1, WorkerPlace DEF ReputationInv, InTurn
  <1>3. todo' \subseteq 1..Height
    BY <1>1, WorkerPlace DEF EventsFrom
  <1>4. Undisturbed => Reliable'
    <2> SUFFICES ASSUME Undisturbed PROVE Reliable'
      OBVIOUS
    <2>1. Pending' = Pending /\ ~Begun' /\ Ledger' = Ledger /\ Height' = Height
      BY <1>1, <1>2 DEF Pending, Begun, Ledger, Height
    <2>2. Reliable /\ current = Height
      BY <1>1 DEF ReputationInv, Reliable
    <2>3. PICK d \in 0..scanned : Reached(d)
      BY <2>2 DEF Reliable
    <2>4. \A b \in d + 1..scanned : events[b] = "none"
      BY <1>2, <2>3 DEF Reached
    <2>5. /\ d \in 0..Len(events) /\ scanned \in d..Len(events) /\ scanned \in 0..Len(events) /\ scanned \in Nat /\ d \in Nat
          /\ events \in Seq(Kinds) /\ Len(events) <= MaxBlock /\ Len(events) \in Nat
      BY WorkerPlace
    <2>6. Ledger[scanned] = Ledger[d]
      BY <2>4, <2>5, LedgerFlat DEF Ledger
    <2>7. todo' = {b \in scanned + 1..scanned' : events[b] # "none"} /\ scanned \in 0..scanned'
      BY <1>1, <2>2, <2>5, WorkerPlace DEF EventsFrom
    <2>8. \A b \in 1..scanned : events[b] = "rejected" => b <= alertedAt
      <3>1. \A b \in 1..scanned : b \in 1..d \/ b \in d + 1..scanned
        BY <2>5
      <3> QED
        BY <2>3, <2>4, <3>1 DEF Reached
    <2>9. PICK m \in 0..scanned' : m = scanned
      BY <2>7
    <2>10. Reached(m)'
      BY <1>1, <2>1, <2>3, <2>6, <2>7, <2>8, <2>9 DEF Reached
    <2> QED
      BY <1>1, <1>2, <2>1, <2>9, <2>10 DEF Reliable
  <1>5. "handle" \in WorkerPlaces
    BY DEF WorkerPlaces
  <1> QED
    BY <1>1, <1>2, <1>3, <1>4, <1>5, WorkerPlace, WorkerTurns

\* What an undisturbed worker has counted, with the entry e it read or made.
Counting(d, e) ==
    /\ todo = {b \in d + 1..scanned : events[b] # "none"}
    /\ e.reputation = Ledger[d]
    /\ \A b \in 1..d : events[b] = "rejected" => b <= alertedAt'
    /\ events[Block] = "rejected" => Block <= alertedAt'

LEMMA AssessKeeps ==
    ASSUME ReputationInv, todo # {}, NEW e \in EntryType, entry' = e, Assess(e),
           UNCHANGED <<events, scanned, current>>, inAlert' \in BOOLEAN, alertedAt' \in 0..Height,
           Undisturbed => \E d \in 0..scanned : Counting(d, e)
    PROVE  ReputationInv'
  <1> DEFINE ch == ChangeAt(Block)
  <1>1. Block \in todo /\ Block \in HubBlocks
    BY BlockIsFirst
  <1>2. ch \in {1, -1} /\ e.reputation \in Int /\ MaximumReputation \in Int
    BY BoundTypes DEF EntryType, ChangeAt, ChangeOf
  <1>3. CASE /\ e.reputation + ch > MaximumReputation /\ Goto(Worker, "handle") /\ UNCHANGED job
             /\ todo' = todo \ {Block} /\ handled' = [handled EXCEPT ![Block] = @ + 1]
    <2>1. /\ at' = [at EXCEPT ![Worker] = "handle"] /\ job' = [job EXCEPT ![Worker] = job[Worker]]
          /\ at'[Worker] = "handle" /\ handled' \in [HubBlocks -> Nat] /\ "handle" \in WorkerPlaces
      <3>1. at' = [at EXCEPT ![Worker] = "handle"] /\ at'[Worker] = "handle"
        BY <1>3, WorkerPlace DEF Goto
      <3>2. job' = [job EXCEPT ![Worker] = job[Worker]]
        BY <1>3, WorkerPlace
      <3>3. handled' \in [HubBlocks -> Nat]
        BY <1>1, <1>3, WorkerPlace
      <3> QED
        BY <3>1, <3>2, <3>3 DEF WorkerPlaces
    <2>2. Undisturbed => Reliable'
      <3> SUFFICES ASSUME Undisturbed PROVE Reliable'
        OBVIOUS
      <3>1. PICK d \in 0..scanned : Counting(d, e)
        OBVIOUS
      <3>2. PICK m \in 0..scanned : /\ m = Block /\ events[Block] # "none"
                                    /\ todo \ {Block} = {b \in m + 1..scanned : events[b] # "none"}
                                    /\ Ledger[m] = Reckoned(Ledger[d], events[Block])
                                    /\ \A b \in 1..m : events[b] = "rejected" => b \in 1..d \/ b = Block
        BY <3>1, EventCounted DEF Counting
      <3>3. Reckoned(Ledger[d], events[Block]) = e.reputation
        BY <1>3, <3>1 DEF Counting, Reckoned, ChangeAt
      <3>4. Pending' = e.reputation /\ ~Begun' /\ Ledger' = Ledger
        BY <2>1, EntryTypes DEF Pending, Begun, Ledger
      <3>5. \A b \in 1..m : events[b] = "rejected" => b <= alertedAt'
        BY <3>1, <3>2 DEF Counting
      <3>6. Reached(m)'
        BY <1>3, <3>2, <3>3, <3>4, <3>5 DEF Reached
      <3> QED
        BY <2>1, <3>4, <3>6 DEF Reliable
    <2> QED
      BY <1>3, <2>1, <2>2, WorkerPlace, WorkerTurns
  <1>4. ASSUME todo' = todo, e.reputation + ch <= MaximumReputation, Undisturbed,
               at'[Worker] = "update" \/ (at'[Worker] = "updating" /\ job'[Worker] = [update |-> [abuse |-> Block], then |-> "update"])
        PROVE  Reliable'
    <2>1. PICK d \in 0..scanned : Counting(d, e)
      BY <1>4
    <2>2. Pending' = e.reputation /\ Ledger' = Ledger /\ Block' = Block /\ ch' = ch
      BY <1>4, EntryTypes DEF Pending, Ledger, Block, ChangeAt
    <2>3. Reached(d)'
      BY <1>4, <2>1, <2>2 DEF Reached, Counting
    <2>4. at'[Worker] \notin {"query", "create"} /\ ~("base" \in DOMAIN job'[Worker] /\ at'[Worker] = "updating")
      BY <1>4
    <2> QED
      BY <1>4, <2>1, <2>2, <2>3, <2>4 DEF Reliable, Counting
  <1>5. CASE /\ e.reputation + ch <= MaximumReputation /\ UNCHANGED <<todo, handled>>
             /\ Submit(Worker, [abuse |-> Block], "update")
    <2> DEFINE j == [update |-> [abuse |-> Block], then |-> "update"]
    <2>1. j \in WorkerJobs /\ j \in Jobs /\ "updating" \in WorkerPlaces
      BY <1>1 DEF WorkerJobs, JobOf, Jobs, WorkerPlaces
    <2>2. at' = [at EXCEPT ![Worker] = "updating"] /\ job' = [job EXCEPT ![Worker] = j]
      BY <1>5 DEF Submit, Goto
    <2>3. at'[Worker] = "updating" /\ job'[Worker] = j
      BY <2>2, WorkerPlace
    <2>4. Undisturbed => Reliable'
      BY <1>4, <1>5, <2>3
    <2> HIDE DEF j
    <2> QED
      BY <1>5, <2>1, <2>2, <2>4, WorkerPlace, WorkerTurns
  <1>6. CASE e.reputation + ch <= MaximumReputation /\ Goto(Worker, "update") /\ UNCHANGED <<job, todo, handled>>
    <2>1. /\ at' = [at EXCEPT ![Worker] = "update"] /\ job' = [job EXCEPT ![Worker] = job[Worker]]
          /\ at'[Worker] = "update" /\ "update" \in WorkerPlaces
      BY <1>6, WorkerPlace DEF Goto, WorkerPlaces
    <2>2. Undisturbed => Reliable'
      BY <1>4, <1>6, <2>1
    <2> QED
      BY <1>6, <2>1, <2>2, WorkerPlace, WorkerTurns
  <1> QED
    BY <1>3, <1>5, <1>6 DEF Assess

LEMMA HandleEventKeeps == ASSUME ReputationInv, HandleEvent PROVE ReputationInv'
  <1>1. /\ at[Worker] = "handle" /\ todo # {} /\ UNCHANGED <<events, entry, scanned, current>>
        /\ inAlert' \in BOOLEAN /\ alertedAt' \in 0..Height
        /\ events[Block] = "rejected" => alertedAt' = Block
        /\ events[Block] # "rejected" => alertedAt' = alertedAt
    <2>1. todo # {} /\ Alert
      BY DEF HandleEvent
    <2>2. Block \in 0..Height
      BY <2>1, BlockIsFirst
    <2> QED
      BY <2>1, <2>2, WorkerPlace DEF HandleEvent, Alert, Raise, chainVars
  <1>2. \A d \in 0..scanned : Reached(d) =>
            /\ \A b \in 1..d : events[b] = "rejected" => b <= alertedAt'
            /\ events[Block] = "rejected" => Block <= alertedAt'
    <2>1. Block \in Nat
      BY <1>1, BlockIsFirst
    <2> SUFFICES ASSUME NEW d \in 0..scanned, Reached(d)
                 PROVE  /\ \A b \in 1..d : events[b] = "rejected" => b <= alertedAt'
                        /\ events[Block] = "rejected" => Block <= alertedAt'
      OBVIOUS
    <2>2. \A b \in 1..d : b <= Block
      <3>1. Block \in todo /\ scanned \in Nat
        BY <1>1, BlockIsFirst, WorkerPlace
      <3> QED
        BY <3>1 DEF Reached
    <2> QED
      BY <1>1, <2>1, <2>2 DEF Reached
  <1>3. CASE entry = NoEntry /\ Goto(Worker, "create") /\ UNCHANGED <<job, todo, handled>>
    <2>1. /\ at' = [at EXCEPT ![Worker] = "create"] /\ job' = [job EXCEPT ![Worker] = job[Worker]]
          /\ at'[Worker] = "create" /\ "create" \in WorkerPlaces
      BY <1>3, WorkerPlace DEF Goto, WorkerPlaces
    <2>2. Undisturbed => Reliable'
      <3> SUFFICES ASSUME Undisturbed PROVE Reliable'
        OBVIOUS
      <3>1. PICK d \in 0..scanned : Reached(d)
        BY DEF ReputationInv, Reliable
      <3>2. Pending' = Pending /\ Block' = Block /\ Ledger' = Ledger
        BY <1>1, <1>3, <2>1 DEF Pending, Block, Ledger
      <3>3. Reached(d)'
        BY <1>1, <1>2, <1>3, <3>1, <3>2 DEF Reached
      <3> QED
        BY <1>1, <1>2, <1>3, <2>1, <3>1, <3>2, <3>3 DEF Reliable
    <2> QED
      BY <1>1, <1>3, <2>1, <2>2, WorkerPlace, WorkerTurns
  <1>4. CASE entry # NoEntry /\ Assess(entry)
    <2>1. PICK e : e = entry
      OBVIOUS
    <2>2. e \in EntryType
      BY <1>4, <2>1 DEF ReputationInv, ReputationTypeOK
    <2>3. Undisturbed => \E d \in 0..scanned : Counting(d, e)
      <3>1. Pending = e.reputation
        BY <1>1, <1>4, <2>1 DEF Pending
      <3> QED
        BY <1>2, <3>1 DEF ReputationInv, Reliable, Reached, Counting
    <2> QED
      BY <1>1, <1>4, <2>1, <2>2, <2>3, AssessKeeps
  <1> QED
    BY <1>3, <1>4 DEF HandleEvent

LEMMA WorkerCreatesKeeps == ASSUME ReputationInv, WorkerCreatesEntry PROVE ReputationInv'
  <1>1. at[Worker] = "create" /\ todo # {} /\ UNCHANGED <<events, scanned, current, inAlert, alertedAt>>
    BY DEF WorkerCreatesEntry, chainVars, ReputationInv, InTurn, Begun
  <1>2. CASE entry = NoEntry /\ entry' = FreshEntry /\ Assess(FreshEntry)
    <2>1. Undisturbed => \E d \in 0..scanned : Counting(d, FreshEntry)
      <3>1. Pending = FreshEntry.reputation /\ Begun
        BY <1>1, <1>2 DEF Pending, Begun
      <3> QED
        BY <1>1, <3>1 DEF ReputationInv, Reliable, Reached, Counting
    <2>2. PICK e \in EntryType : e = FreshEntry
      BY EntryTypes
    <2> QED
      BY <1>1, <1>2, <2>1, <2>2, WorkerPlace, AssessKeeps
  <1>3. CASE entry # NoEntry /\ todo' = {} /\ Goto(Worker, "idle") /\ UNCHANGED <<entry, job, handled>>
    <2>1. /\ at' = [at EXCEPT ![Worker] = "idle"] /\ job' = [job EXCEPT ![Worker] = job[Worker]]
          /\ "idle" \in WorkerPlaces
      BY <1>3, WorkerPlace DEF Goto, WorkerPlaces
    <2>2. ~Undisturbed
      BY <1>1, <1>3 DEF ReputationInv, Reliable
    <2> QED
      BY <1>1, <1>3, <2>1, <2>2, WorkerPlace, WorkerTurns
  <1> QED
    BY <1>2, <1>3 DEF WorkerCreatesEntry

LEMMA UpdateKeeps == ASSUME ReputationInv, UpdatePaymasterReputation PROVE ReputationInv'
  <1> DEFINE change == [block |-> Block, change |-> ChangeAt(Block), nth |-> handled[Block] + 1]
             kept == {c \in entry.changes \cup {change} : c.block > Block - AbuseTimeWindowBlocks}
             j == [update |-> [reputation |-> entry.reputation + change.change, changes |-> kept], then |-> "handle"]
  <1>1. /\ at[Worker] = "update" /\ Begun /\ todo # {} /\ entry \in EntryType
        /\ UNCHANGED <<events, entry, scanned, current, inAlert, alertedAt>>
        /\ handled' = [handled EXCEPT ![Block] = @ + 1] /\ todo' = todo \ {Block}
    BY WorkerPlace DEF UpdatePaymasterReputation, chainVars, ReputationInv, InTurn, Begun
  <1>2. job' = [job EXCEPT ![Worker] = j] /\ at' = [at EXCEPT ![Worker] = "updating"]
    BY DEF UpdatePaymasterReputation, Submit, Goto
  <1>3. Block \in HubBlocks /\ ChangeAt(Block) \in {1, -1} /\ handled[Block] \in Nat
    BY <1>1, BlockIsFirst, WorkerPlace DEF ChangeAt, ChangeOf
  <1>4. change \in Changes
    BY <1>3 DEF Changes
  <1>5. entry.reputation \in Int /\ entry.changes \subseteq Changes
    BY <1>1 DEF EntryType
  <1>6. kept \in SUBSET Changes /\ entry.reputation + change.change \in Int
    <2>1. change.change \in Int
      BY <1>3
    <2> HIDE DEF change
    <2> QED
      BY <1>4, <1>5, <2>1
  <1>7. j.update.reputation = entry.reputation + ChangeAt(Block) /\ j.then = "handle" /\ "base" \notin DOMAIN j
    OBVIOUS
  <1>8. j \in WorkerJobs
    <2> HIDE DEF kept, change
    <2> QED
      BY <1>6 DEF WorkerJobs, JobOf
  <1> HIDE DEF j, kept, change
  <1>9. j \in Jobs /\ "updating" \in WorkerPlaces /\ at'[Worker] = "updating" /\ job'[Worker] = j
    BY <1>2, <1>8, WorkerPlace DEF Jobs, WorkerPlaces
  <1>10. Undisturbed => Reliable'
    <2> SUFFICES ASSUME Undisturbed PROVE Reliable'
      OBVIOUS
    <2>1. PICK d \in 0..scanned : Reached(d)
      BY DEF ReputationInv, Reliable
    <2>2. Pending = entry.reputation
      BY <1>1, EntryTypes DEF Pending
    <2>3. PICK m \in 0..scanned : /\ m = Block /\ events[Block] # "none"
                                  /\ todo \ {Block} = {b \in m + 1..scanned : events[b] # "none"}
                                  /\ Ledger[m] = Reckoned(Ledger[d], events[Block])
                                  /\ \A b \in 1..m : events[b] = "rejected" => b \in 1..d \/ b = Block
      BY <1>1, <2>1, EventCounted DEF Reached
    <2>4. /\ entry.reputation + ChangeAt(Block) <= MaximumReputation
          /\ events[Block] = "rejected" => Block <= alertedAt
      BY <1>1 DEF ReputationInv, Reliable
    <2>5. Reckoned(Ledger[d], events[Block]) = entry.reputation + ChangeAt(Block)
      <3>1. Ledger[d] = entry.reputation
        BY <2>1, <2>2 DEF Reached
      <3>2. ChangeAt(Block) \in Int /\ MaximumReputation \in Int
        BY <1>3, BoundTypes
      <3>3. ~(entry.reputation + ChangeAt(Block) > MaximumReputation)
        BY <1>5, <2>4, <3>2
      <3> QED
        BY <2>3, <3>1, <3>3 DEF Reckoned, ChangeAt
    <2>6. Pending' = entry.reputation + ChangeAt(Block) /\ ~Begun' /\ Ledger' = Ledger
      BY <1>1, <1>7, <1>9 DEF Pending, Begun, Ledger
    <2>7. \A b \in 1..m : events[b] = "rejected" => b <= alertedAt
      BY <2>1, <2>3, <2>4 DEF Reached
    <2>8. Reached(m)'
      BY <1>1, <2>3, <2>5, <2>6, <2>7 DEF Reached
    <2> QED
      BY <1>1, <1>7, <1>9, <2>6, <2>8 DEF Reliable
  <1>11. handled' \in [HubBlocks -> Nat] /\ todo' \subseteq 1..Height
    BY <1>1, <1>3, WorkerPlace
  <1> QED
    BY <1>1, <1>2, <1>7, <1>8, <1>9, <1>10, <1>11, WorkerPlace, WorkerTurns

LEMMA FinishKeeps == ASSUME ReputationInv, FinishPass PROVE ReputationInv'
  <1>1. /\ at[Worker] = "handle" /\ todo = {} /\ at' = [at EXCEPT ![Worker] = "idle"]
        /\ inAlert' \in BOOLEAN
        /\ UNCHANGED <<events, entry, job, scanned, current, todo, alertedAt, handled>>
    BY DEF FinishPass, Goto, chainVars
  <1>2. job' = [job EXCEPT ![Worker] = job[Worker]] /\ at'[Worker] = "idle" /\ "idle" \in WorkerPlaces
    BY <1>1, WorkerPlace DEF WorkerPlaces
  <1>3. Undisturbed => Reliable'
    <2> SUFFICES ASSUME Undisturbed PROVE Reliable'
      OBVIOUS
    <2>1. Pending' = Pending /\ ~Begun' /\ Ledger' = Ledger
      BY <1>1, <1>2 DEF Pending, Begun, Ledger
    <2>2. (\E d \in 0..scanned : Reached(d))'
      BY <1>1, <2>1 DEF ReputationInv, Reliable, Reached
    <2> QED
      BY <1>1, <1>2, <2>1, <2>2 DEF Reliable
  <1> QED
    BY <1>1, <1>2, <1>3, WorkerPlace, WorkerTurns

LEMMA WorkerCopyKeeps == ASSUME ReputationInv, Copy(Worker) PROVE ReputationInv'
  <1> DEFINE j == [update |-> job[Worker].update, then |-> job[Worker].then, base |-> entry]
  <1>1. /\ at[Worker] = "updating" /\ "base" \notin DOMAIN job[Worker]
        /\ UNCHANGED <<events, entry, at, scanned, current, todo, inAlert, alertedAt, handled>>
    BY DEF Copy, chainVars, scanVars
  <1>2. job[Worker] \in WorkerJobs /\ entry \in EntryType /\ at' = [at EXCEPT ![Worker] = "updating"]
    BY <1>1, WorkerPlace
  <1>3. j \in WorkerJobs /\ j.then = job[Worker].then /\ j.update = job[Worker].update /\ j.base = entry
    BY <1>1, <1>2, JobCopied
  <1>4. job' = [job EXCEPT ![Worker] = j]
    BY DEF Copy
  <1> HIDE DEF j
  <1>5. j \in Jobs /\ "updating" \in WorkerPlaces /\ job'[Worker] = j
    BY <1>3, <1>4, WorkerPlace DEF Jobs, WorkerPlaces
  <1>6. Undisturbed => Reliable'
    <2> SUFFICES ASSUME Undisturbed PROVE Reliable'
      OBVIOUS
    <2>1. Pending' = Pending /\ (Begun' <=> Begun) /\ Ledger' = Ledger /\ Block' = Block
      BY <1>1, <1>3, <1>5 DEF Pending, Begun, Ledger, Block
    <2>2. Reliable
      BY DEF ReputationInv
    <2>3. (\E d \in 0..scanned : Reached(d))'
      BY <1>1, <2>1, <2>2 DEF Reliable, Reached
    <2> QED
      BY <1>1, <1>3, <1>5, <2>1, <2>2, <2>3 DEF Reliable, ChangeAt
  <1>7. j.then = "update" => todo # {}
    BY <1>1, <1>3 DEF ReputationInv, InTurn, Begun
  <1> QED
    BY <1>1, <1>2, <1>3, <1>4, <1>5, <1>6, <1>7, WorkerPlace, WorkerTurns

LEMMA WorkerWriteKeeps == ASSUME ReputationInv, Write(Worker) PROVE ReputationInv'
  <1> DEFINE j == job[Worker]
  <1>1. /\ at[Worker] = "updating" /\ "base" \in DOMAIN j
        /\ UNCHANGED <<events, scanned, current, todo, inAlert, alertedAt, handled>>
        /\ entry' = Assigned(j.base, j.update) /\ job' = [job EXCEPT ![Worker] = NoJob]
        /\ at' = [at EXCEPT ![Worker] = j.then]
    BY DEF Write, chainVars, scanVars, Goto
  <1>2. j \in WorkerJobs
    BY <1>1, WorkerPlace
  <1>3. /\ j.then \in {"update", "handle"} /\ j.base \in EntryType
        /\ "reputation" \in DOMAIN j.update <=> j.then = "handle"
    <2>1. "reputation" \in DOMAIN j.update <=> j.then = "handle"
      BY <1>2 DEF WorkerJobs, JobOf
    <2> QED
      BY <1>1, <1>2, <2>1, JobTypes
  <1>4. entry' \in EntryType /\ entry'.reputation = IF j.then = "handle" THEN j.update.reputation ELSE j.base.reputation
    BY <1>1, <1>2, <1>3, EntryAssigned DEF Taken
  <1>5. at'[Worker] = j.then /\ NoJob \in Jobs /\ j.then \in WorkerPlaces
    BY <1>1, <1>3, WorkerPlace DEF Jobs, WorkerPlaces
  <1>6. entry' # NoEntry /\ entry \in EntryType /\ entry # NoEntry
    BY <1>1, <1>4, EntryTypes, WorkerPlace
  <1>7. Undisturbed => Reliable'
    <2> SUFFICES ASSUME Undisturbed PROVE Reliable'
      OBVIOUS
    <2>1. Ledger' = Ledger /\ Block' = Block
      BY <1>1 DEF Ledger, Block
    <2>2. Reliable
      BY DEF ReputationInv
    <2>3. j.base.reputation = entry.reputation
      BY <1>1, <2>2 DEF Reliable
    <2>4. Pending' = Pending
      BY <1>1, <1>3, <1>4, <1>5, <1>6, <2>3 DEF Pending
    <2>5. (\E d \in 0..scanned : Reached(d))'
      BY <1>1, <2>1, <2>2, <2>4 DEF Reliable, Reached
    <2>6. Begun' => Begun /\ at[Worker] # "create" /\ entry'.reputation = entry.reputation
      BY <1>1, <1>3, <1>4, <1>5, <2>3 DEF Begun
    <2> QED
      BY <1>1, <1>3, <1>5, <2>1, <2>2, <2>5, <2>6 DEF Reliable, ChangeAt
  <1>8. j.then = "update" => todo # {}
    BY <1>1 DEF ReputationInv, InTurn, Begun
  <1> HIDE DEF j
  <1> QED
    BY <1>1, <1>3, <1>4, <1>5, <1>7, <1>8, WorkerPlace, WorkerTurns

-----------------------------------------------------------------------------

LEMMA ReputationInitHolds == ReputationInit => ReputationInv
  <1> SUFFICES ASSUME ReputationInit PROVE ReputationInv
    OBVIOUS
  <1>1. \A r \in PaymasterRequests : r \in Actors /\ at[r] = "new"
    BY BoundTypes DEF ReputationInit, Actors
  <1>2. at[Worker] = "idle" /\ Worker \in Actors
    BY DEF ReputationInit, Actors
  <1>3. Height = 0 /\ events \in Seq({"none", "relayed", "rejected"})
    BY DEF ReputationInit, Height
  <1>4. ReputationTypeOK
    <2>1. at \in [Actors -> {"new", "create", "updating", "validated", "served", "refused",
                             "idle", "query", "handle", "update"}]
      BY DEF ReputationInit
    <2>2. job \in [Actors -> {NoJob} \cup RequestJobs \cup WorkerJobs]
      BY DEF ReputationInit
    <2>3. handled \in [HubBlocks -> Nat]
      BY DEF ReputationInit
    <2>4. /\ \A r \in PaymasterRequests : at[r] = "updating" => job[r] \in RequestJobs
          /\ at[Worker] = "updating" => job[Worker] \in WorkerJobs
      BY <1>1, <1>2
    <2>5. Height <= MaxBlock /\ scanned \in 0..Height /\ current \in 0..Height /\ alertedAt \in 0..Height
      BY <1>3, BoundTypes DEF ReputationInit
    <2>6. entry = NoEntry /\ todo \subseteq 1..Height /\ inAlert \in BOOLEAN
      BY DEF ReputationInit
    <2> QED
      BY <1>3, <2>1, <2>2, <2>3, <2>4, <2>5, <2>6 DEF ReputationTypeOK
  <1>5. InPlace /\ OneIsJudging /\ InTurn
    <2>1. \A a \in Actors : at[a] \in {"idle", "new"}
      BY DEF ReputationInit
    <2> QED
      BY <1>1, <1>2, <2>1 DEF ReputationInit, InPlace, RequestPlaces, WorkerPlaces, OneIsJudging, Judging, InTurn, Begun
  <1>6. Reliable
    <2>1. Pending = InitialReputation /\ ~Begun
      BY <1>2, EntryTypes DEF ReputationInit, Pending, Begun
    <2>2. Ledger[0] = InitialReputation
      <3>1. events \in Seq(Kinds) /\ Len(events) <= MaxBlock
        BY <1>3, BoundTypes DEF Kinds, Height
      <3> QED
        BY <3>1, LedgerTurn DEF Ledger
    <2>3. Reached(0) /\ 0 \in 0..scanned
      BY <2>1, <2>2 DEF Reached, ReputationInit
    <2> QED
      BY <1>2, <2>1, <2>3 DEF Reliable
  <1> QED
    BY <1>4, <1>5, <1>6 DEF ReputationInv

LEMMA ReputationNextKeeps == ReputationInv /\ [ReputationNext]_reputationVars => ReputationInv'
  <1> SUFFICES ASSUME ReputationInv, [ReputationNext]_reputationVars PROVE ReputationInv'
    OBVIOUS
  <1>1. CASE UNCHANGED reputationVars
    BY <1>1 DEF reputationVars, chainVars, scanVars, ReputationInv, ReputationTypeOK, InPlace, OneIsJudging, Judging,
                InTurn, Begun, Undisturbed, Reliable, Reached, Pending, Ledger, Block, ChangeAt, Height
  <1>2. CASE MineHub \/ DelayPasses
    BY <1>2, MineHubKeeps, DelayPassesKeeps
  <1>3. CASE WorkerPass
    BY <1>3, GetBlockKeeps, QueryEventsKeeps, HandleEventKeeps, WorkerCreatesKeeps, UpdateKeeps, FinishKeeps DEF WorkerPass
  <1>4. CASE \E a \in Actors : Copy(a) \/ Write(a)
    BY <1>4, CopyKeeps, WriteKeeps, WorkerCopyKeeps, WorkerWriteKeeps DEF Actors
  <1>5. CASE \E r \in PaymasterRequests : GetPaymasterStatus(r) \/ CreateEntry(r) \/ Accepted(r)
    BY <1>5, GetStatusKeeps, CreateKeeps, AcceptedKeeps
  <1> QED
    BY <1>1, <1>2, <1>3, <1>4, <1>5 DEF ReputationNext

\* With nothing left to handle, what was reached is what was scanned.
LEMMA AllCounted ==
    ASSUME ReputationInv, NEW d \in 0..scanned, todo = {}, Reached(d)
    PROVE  /\ Ledger[scanned] = Ledger[d]
           /\ \A b \in 1..scanned : events[b] = "rejected" => b <= alertedAt
  <1>1. \A b \in d + 1..scanned : events[b] = "none"
    BY DEF Reached
  <1>2. /\ d \in 0..Len(events) /\ scanned \in d..Len(events) /\ scanned \in Nat /\ d \in Nat
        /\ events \in Seq(Kinds) /\ Len(events) <= MaxBlock
    BY WorkerPlace
  <1>3. \A b \in 1..scanned : b \in 1..d \/ b \in d + 1..scanned
    BY <1>2
  <1> QED
    BY <1>1, <1>2, <1>3, LedgerFlat DEF Reached, Ledger

LEMMA LedgerHolds == ASSUME ReputationInv, Undisturbed PROVE ReputationIsLedger
  <1> SUFFICES ASSUME at[Worker] = "idle"
               PROVE  (IF entry = NoEntry THEN FreshEntry ELSE entry).reputation = Ledger[scanned]
    BY DEF ReputationIsLedger
  <1>1. PICK d \in 0..scanned : Reached(d)
    BY DEF ReputationInv, Reliable
  <1>2. todo = {}
    BY DEF ReputationInv, InTurn
  <1>3. Pending = (IF entry = NoEntry THEN FreshEntry ELSE entry).reputation
    BY DEF Pending
  <1> QED
    BY <1>1, <1>2, <1>3, AllCounted DEF Reached

LEMMA AlertedLongEnough ==
    ASSUME ReputationInv, [ReputationNext]_reputationVars, Undisturbed PROVE AlertedLongEnoughStep
  <1> SUFFICES ASSUME inAlert, ~inAlert'
               PROVE  \A b \in 1..scanned : events[b] = "rejected" => b + AlertedDelay < current
    BY DEF AlertedLongEnoughStep
  <1>1. FinishPass
    BY DEF ReputationNext, reputationVars, scanVars, MineHub, DelayPasses, WorkerPass, GetBlock, Query, HandleEvent,
           Alert, Raise, WorkerCreatesEntry, UpdatePaymasterReputation, Copy, Write, GetPaymasterStatus, CreateEntry, Accepted
  <1>2. todo = {} /\ alertedAt + AlertedDelay < current
    <2>1. alertedAt + AlertedDelay \in Int /\ current \in Int
      BY WorkerPlace, BoundTypes
    <2>2. todo = {}
      BY <1>1 DEF FinishPass
    <2>3. inAlert' = (inAlert /\ alertedAt + AlertedDelay >= current)
      BY <1>1 DEF FinishPass
    <2>4. ~(alertedAt + AlertedDelay >= current)
      BY <2>3, Zenon
    <2> QED
      BY <2>1, <2>2, <2>4
  <1>3. PICK d \in 0..scanned : Reached(d)
    BY DEF ReputationInv, Reliable
  <1>4. \A b \in 1..scanned : events[b] = "rejected" => b <= alertedAt
    BY <1>2, <1>3, AllCounted
  <1>5. alertedAt \in Nat /\ current \in Nat /\ scanned \in Nat
    BY WorkerPlace
  <1> QED
    BY <1>2, <1>4, <1>5, BoundTypes

\* Two first requests never collide; and with an undisturbed worker the reputation counts
\* every event once and the alert lasts, for any events, requests, bounds and delays.
THEOREM ReputationIsSound == ReputationSpec => ReputationSound
  <1>1. ReputationInit => ReputationInv
    BY ReputationInitHolds
  <1>2. ReputationInv /\ [ReputationNext]_reputationVars => ReputationInv'
    BY ReputationNextKeeps
  <1>3. ReputationInv => ReputationTypeOK /\ OneJudgeAtATime /\ (Undisturbed => ReputationIsLedger)
    BY LedgerHolds DEF ReputationInv, OneIsJudging, Judging, OneJudgeAtATime
  <1>4. ReputationInv /\ [ReputationNext]_reputationVars => [Undisturbed => AlertedLongEnoughStep]_reputationVars
    BY AlertedLongEnough
  <1> QED
    BY <1>1, <1>2, <1>3, <1>4, PTL DEF ReputationSpec, ReputationSound

-----------------------------------------------------------------------------
(* Registration                                                            *)

\* A balance may go to the owner when a removal is due or the stake was withdrawn, the
\* manager's own only in the second case.
FundsMayLeave ==
    \E i \in DOMAIN log : \/ log[i].kind = "HubUnauthorized" /\ log[i].time <= regNow
                          \/ log[i].kind = "StakeWithdrawn"
StakeIsGone == \E i \in DOMAIN log : log[i].kind = "StakeWithdrawn"

\* What is to be sent may leave, and every delayed removal is an event.
LeavesInTime ==
    /\ sends # <<>> => FundsMayLeave
    /\ \A i \in DOMAIN sends : sends[i] = "managerToOwner" => StakeIsGone
    /\ txs["managerToOwner"] # "none" => StakeIsGone
    /\ \A t \in mem.delayed : \E i \in DOMAIN log : log[i].kind = "HubUnauthorized" /\ log[i].time = t

\* What the server may know at each place of its pass.
PlaceOfPass ==
    /\ regAt \notin {"events", "sending"} => regTodo = <<>>
    /\ regAt # "sending" => sends = <<>>
    /\ regAt = "down" => ~mem.hubAuthorized /\ ~mem.stakeLocked /\ ~regReady
    /\ regAt = "idle" /\ regReady => IsRegistered
    /\ mem.info => regChain.registered

\* An authorization in the log holds, or was taken back later.
TakenBack(kind, f) == \E i \in DOMAIN log : i > f /\ log[i].kind = kind
LogIsOrdered ==
    \A i \in DOMAIN log : log[i].kind = "HubAuthorized" => regChain.hub = "yes" \/ TakenBack("HubUnauthorized", i)

\* The events up to f were handled: what is remembered of them holds, or was taken back
\* by a later one.
RestOfEvents(f) ==
    /\ regScanned <= f /\ f + Len(regTodo) <= Len(log)
    /\ \A j \in DOMAIN regTodo : regTodo[j] = log[f + j]
    /\ regAt \in {"events", "sending", "info", "register", "relay", "end"} => regPass.block <= f + Len(regTodo)
MemoryHolds(f) ==
    /\ mem.hubAuthorized => regChain.hub = "yes" \/ TakenBack("HubUnauthorized", f)
    /\ PromptServer /\ mem.stakeLocked =>
         \/ regChain.stake = "locked"
         \/ regChain.stake = "unlocked" /\ TakenBack("StakeUnlocked", f)

RegistrationInv ==
    /\ RegistrationTypeOK /\ LeavesInTime /\ PlaceOfPass /\ LogIsOrdered
    /\ \E f \in 0..Len(log) : RestOfEvents(f) /\ MemoryHolds(f)

LEMMA RegNumbers ==
    UnstakeDelay \in Nat /\ ScanBack \in Nat /\ MaxRegTime \in Nat /\ PromptServer \in BOOLEAN /\ StartsRegistered \in BOOLEAN
  BY RegistrationAssumption

LEMMA LogTypes ==
    ASSUME RegistrationTypeOK
    PROVE  /\ log \in Seq(StakeEvents) /\ Len(log) \in Nat /\ DOMAIN log = 1..Len(log)
           /\ \A i \in DOMAIN log : log[i] \in StakeEvents /\ log[i].time \in Nat
           /\ regNow \in Nat /\ mem \in Memory /\ mem.delayed \subseteq Nat
           /\ regPass.block \in Nat /\ regPass.block <= Len(log) /\ regPass.time \in Nat /\ regPass.time <= regNow
           /\ regScanned \in Nat /\ regScanned <= Len(log) /\ regTodo \in Seq(StakeEvents) /\ Len(regTodo) \in Nat
           /\ sends \in Seq(Actions) /\ txs \in [Actions -> {"none", "pending", "recent"}]
  <1>1. log \in Seq(StakeEvents) /\ Len(log) \in Nat /\ DOMAIN log = 1..Len(log)
    BY DEF RegistrationTypeOK
  <1>2. \A i \in DOMAIN log : log[i] \in StakeEvents
    BY <1>1
  <1>3. \A i \in DOMAIN log : log[i].time \in Nat
    BY <1>2 DEF StakeEvents
  <1>4. regNow \in Nat
    BY RegNumbers DEF RegistrationTypeOK
  <1>5. mem \in Memory
    BY DEF RegistrationTypeOK
  <1>6. mem.delayed \subseteq Nat
    BY <1>5 DEF Memory
  <1>7. regPass \in [block : 0..Len(log), time : 0..regNow, force : BOOLEAN] /\ regScanned \in 0..Len(log)
    BY DEF RegistrationTypeOK
  <1>8. regPass.block \in 0..Len(log) /\ regPass.time \in 0..regNow
    BY <1>7
  <1>9. regTodo \in Seq(StakeEvents) /\ sends \in Seq(Actions) /\ txs \in [Actions -> {"none", "pending", "recent"}]
    BY DEF RegistrationTypeOK
  <1>10. Len(regTodo) \in Nat
    BY <1>9
  <1> QED
    BY <1>1, <1>2, <1>3, <1>4, <1>5, <1>6, <1>7, <1>8, <1>9, <1>10

\* The log grows, if it changes.
Grown == /\ log' \in Seq(StakeEvents) /\ Len(log') >= Len(log)
         /\ \A i \in DOMAIN log : i \in DOMAIN log' /\ log'[i] = log[i]
Added(kind) == \E i \in DOMAIN log' : i > Len(log) /\ log'[i].kind = kind

LEMMA Emitted ==
    ASSUME RegistrationTypeOK, NEW kind \in EventKinds, Emit(kind)
    PROVE  /\ Grown /\ Added(kind)
           /\ \A i \in DOMAIN log' : i > Len(log) => log'[i].kind = kind
  <1>1. /\ log \in Seq(StakeEvents) /\ Len(log) \in Nat /\ DOMAIN log = 1..Len(log) /\ regNow + UnstakeDelay \in Nat
        /\ regNow \in Nat
    BY LogTypes, RegNumbers
  <1>2. Event(kind) \in StakeEvents /\ Event(kind).kind = kind
    BY <1>1 DEF Event, StakeEvents
  <1>3. log' = Append(log, Event(kind))
    BY DEF Emit
  <1>4. /\ log' \in Seq(StakeEvents) /\ Len(log') = Len(log) + 1 /\ DOMAIN log' = 1..Len(log) + 1
        /\ \A i \in 1..Len(log) : log'[i] = log[i]
        /\ log'[Len(log) + 1] = Event(kind)
    BY <1>1, <1>2, <1>3
  <1>5. \A i \in DOMAIN log' : i > Len(log) => i = Len(log) + 1
    BY <1>1, <1>4
  <1> QED
    BY <1>1, <1>2, <1>4, <1>5 DEF Grown, Added

\* The chain moves: what the server remembers of it is as true as before.
LEMMA ChainMoves ==
    ASSUME RegistrationInv, UNCHANGED serverVars, Grown,
           regChain' \in [owner : BOOLEAN, stake : {"none", "locked", "unlocked"}, withdrawTime : Nat,
                          hub : {"no", "yes", "removed"}, worker : BOOLEAN, registered : BOOLEAN,
                          funds : SUBSET Actions],
           regNow' \in 0..MaxRegTime, regNow' >= regNow,
           txs' \in [Actions -> {"none", "pending", "recent"}],
           txs'["managerToOwner"] # "none" => txs["managerToOwner"] # "none",
           UNCHANGED regFaults, ownerCalls' \in Nat,
           regChain.registered => regChain'.registered,
           regChain.hub = "yes" => regChain'.hub = "yes" \/ Added("HubUnauthorized"),
           Added("HubAuthorized") => regChain'.hub = "yes",
           regChain.stake = "locked" =>
             regChain'.stake = "locked" \/ (regChain'.stake = "unlocked" /\ Added("StakeUnlocked")),
           regChain.stake = "unlocked" =>
             regChain'.stake = "unlocked" \/ (PromptServer => UnlockHandled)
    PROVE  RegistrationInv'
  <1>1. RegistrationTypeOK
    BY DEF RegistrationInv
  <1>2. /\ log \in Seq(StakeEvents) /\ Len(log) \in Nat /\ DOMAIN log = 1..Len(log)
        /\ log' \in Seq(StakeEvents) /\ Len(log') \in Nat /\ Len(log') >= Len(log) /\ DOMAIN log' = 1..Len(log')
        /\ \A i \in DOMAIN log : i \in DOMAIN log' /\ log'[i] = log[i]
        /\ regNow \in Nat /\ regNow' \in Nat
    BY <1>1, LogTypes, RegNumbers DEF Grown
  <1>3. UNCHANGED <<mem, regAt, regScanned, regReady, regPass, regTodo, sends>>
    BY DEF serverVars, passVars
  <1>4. RegistrationTypeOK'
    <2>1. regPass' \in [block : 0..Len(log'), time : 0..regNow', force : BOOLEAN]
      <3>1. regPass \in [block : 0..Len(log), time : 0..regNow, force : BOOLEAN]
        BY <1>1 DEF RegistrationTypeOK
      <3>2. 0..Len(log) \subseteq 0..Len(log') /\ 0..regNow \subseteq 0..regNow'
        BY <1>2
      <3> QED
        BY <1>3, <3>1, <3>2
    <2>2. regScanned' \in 0..Len(log')
      BY <1>1, <1>2, <1>3 DEF RegistrationTypeOK
    <2> QED
      BY <1>1, <1>2, <1>3, <2>1, <2>2 DEF RegistrationTypeOK
  <1>5. \A i \in DOMAIN log : log[i].time \in Nat
    BY <1>1, LogTypes
  <1>6. (FundsMayLeave => FundsMayLeave') /\ (StakeIsGone => StakeIsGone')
    <2>1. ASSUME NEW i \in DOMAIN log, log[i].time <= regNow PROVE log'[i].time <= regNow'
      BY <1>2, <1>5, <2>1
    <2> QED
      BY <1>2, <2>1 DEF FundsMayLeave, StakeIsGone
  <1>7. LeavesInTime'
    <2>1. LeavesInTime
      BY DEF RegistrationInv
    <2>2. \A t \in mem.delayed : \E i \in DOMAIN log' : log'[i].kind = "HubUnauthorized" /\ log'[i].time = t
      BY <1>2, <2>1 DEF LeavesInTime
    <2> QED
      BY <1>3, <1>6, <2>1, <2>2 DEF LeavesInTime
  <1>8. PlaceOfPass'
    BY <1>3 DEF RegistrationInv, PlaceOfPass, IsRegistered
  <1>9. \A f \in Nat, kind \in EventKinds : TakenBack(kind, f) => TakenBack(kind, f)'
    BY <1>2 DEF TakenBack
  <1>10. \A f \in 0..Len(log), kind \in EventKinds : Added(kind) => TakenBack(kind, f)'
    BY <1>2 DEF TakenBack, Added
  <1>11. LogIsOrdered'
    <2> SUFFICES ASSUME NEW i \in DOMAIN log', log'[i].kind = "HubAuthorized"
                 PROVE  regChain'.hub = "yes" \/ TakenBack("HubUnauthorized", i)'
      BY DEF LogIsOrdered
    <2>1. CASE i > Len(log)
      BY <2>1 DEF Added
    <2>2. CASE i \in DOMAIN log
      <3>1. regChain.hub = "yes" \/ TakenBack("HubUnauthorized", i)
        BY <1>2, <2>2 DEF RegistrationInv, LogIsOrdered
      <3>2. i \in 0..Len(log) /\ i \in Nat /\ "HubUnauthorized" \in EventKinds
        BY <1>2, <2>2 DEF EventKinds
      <3> QED
        BY <1>9, <1>10, <3>1, <3>2
    <2> QED
      BY <1>2, <2>1, <2>2
  <1>12. PICK f \in 0..Len(log) : RestOfEvents(f) /\ MemoryHolds(f)
    BY DEF RegistrationInv
  <1>13. f \in Nat /\ f \in 0..Len(log') /\ {"HubUnauthorized", "StakeUnlocked"} \subseteq EventKinds
    BY <1>2 DEF EventKinds
  <1>14. RestOfEvents(f)'
    <2>1. \A j \in DOMAIN regTodo : regTodo[j] = log'[f + j]
      <3>1. Len(regTodo) \in Nat /\ regTodo \in Seq(StakeEvents)
        BY <1>1, LogTypes
      <3>2. f + Len(regTodo) <= Len(log) /\ \A j \in DOMAIN regTodo : regTodo[j] = log[f + j]
        BY <1>12 DEF RestOfEvents
      <3>3. \A j \in DOMAIN regTodo : f + j \in DOMAIN log
        BY <1>2, <1>13, <3>1, <3>2
      <3> QED
        BY <1>2, <3>2, <3>3
    <2>2. f + Len(regTodo) <= Len(log')
      <3>1. Len(regTodo) \in Nat /\ f + Len(regTodo) <= Len(log)
        BY <1>1, <1>12, LogTypes DEF RestOfEvents
      <3> QED
        BY <1>2, <1>13, <3>1
    <2> QED
      BY <1>3, <1>12, <2>1, <2>2 DEF RestOfEvents
  <1>15. MemoryHolds(f)'
    <2>1. mem.hubAuthorized => regChain'.hub = "yes" \/ TakenBack("HubUnauthorized", f)'
      BY <1>9, <1>10, <1>12, <1>13 DEF MemoryHolds
    <2>2. ASSUME PromptServer, mem.stakeLocked
          PROVE  regChain'.stake = "locked" \/ (regChain'.stake = "unlocked" /\ TakenBack("StakeUnlocked", f)')
      <3>1. CASE regChain.stake = "locked"
        BY <1>10, <1>13, <3>1
      <3>2. CASE regChain.stake = "unlocked" /\ TakenBack("StakeUnlocked", f)
        <4>1. ~UnlockHandled
          <5>1. PICK i \in DOMAIN log : i > f /\ log[i].kind = "StakeUnlocked"
            BY <3>2 DEF TakenBack
          <5>2. regScanned <= f /\ regScanned \in Nat
            BY <1>1, <1>12, LogTypes DEF RestOfEvents
          <5>3. i \in regScanned + 1..Len(log)
            BY <1>2, <1>13, <5>1, <5>2
          <5> QED
            BY <5>1, <5>3 DEF UnlockHandled
        <4> QED
          BY <1>9, <1>13, <2>2, <3>2, <4>1
      <3> QED
        BY <1>12, <2>2, <3>1, <3>2 DEF MemoryHolds
    <2> QED
      BY <1>3, <2>1, <2>2 DEF MemoryHolds
  <1> QED
    BY <1>4, <1>7, <1>8, <1>11, <1>13, <1>14, <1>15 DEF RegistrationInv

ChainState == [owner : BOOLEAN, stake : {"none", "locked", "unlocked"}, withdrawTime : Nat,
               hub : {"no", "yes", "removed"}, worker : BOOLEAN, registered : BOOLEAN, funds : SUBSET Actions]

LEMMA SameLog ==
    ASSUME RegistrationTypeOK, UNCHANGED log
    PROVE  Grown /\ \A kind : ~Added(kind)
  BY LogTypes DEF Grown, Added

\* The owner calls the StakeManager.
LEMMA OwnerKeeps == ASSUME RegistrationInv, Owner PROVE RegistrationInv'
  <1>1. RegistrationTypeOK
    BY DEF RegistrationInv
  <1>2. /\ regChain \in ChainState /\ regNow \in 0..MaxRegTime /\ regNow \in Nat /\ ownerCalls \in Nat
        /\ txs \in [Actions -> {"none", "pending", "recent"}] /\ UnstakeDelay \in Nat
    BY <1>1, LogTypes, RegNumbers DEF RegistrationTypeOK, ChainState
  <1>3. regChain.funds \subseteq Actions /\ "managerToOwner" \in Actions
    BY <1>2 DEF ChainState, Actions
  <1>4. CASE FundManager
    <2>1. /\ regChain' = [regChain EXCEPT !.funds = regChain.funds \cup {"managerToOwner"}]
          /\ ownerCalls' = ownerCalls + 1 /\ UNCHANGED <<log, regNow, txs, regFaults>> /\ UNCHANGED serverVars
      BY <1>4 DEF FundManager
    <2>2. /\ regChain' \in ChainState /\ regChain'.hub = regChain.hub /\ regChain'.stake = regChain.stake
          /\ regChain'.registered = regChain.registered
      BY <1>2, <1>3, <2>1 DEF ChainState
    <2> QED
      BY <1>1, <1>2, <2>1, <2>2, SameLog, ChainMoves DEF ChainState
  <1>5. CASE Stake
    <2>1. /\ regChain.stake = "none" /\ regChain' = [regChain EXCEPT !.stake = "locked"] /\ Emit("StakeAdded")
          /\ ownerCalls' = ownerCalls + 1 /\ UNCHANGED <<regNow, txs, regFaults>> /\ UNCHANGED serverVars
      BY <1>5 DEF Stake, OwnerCall
    <2>2. Grown /\ ~Added("HubAuthorized")
      BY <1>1, <2>1, Emitted DEF EventKinds, Added
    <2>3. /\ regChain' \in ChainState /\ regChain'.hub = regChain.hub /\ regChain'.registered = regChain.registered
      BY <1>2, <2>1 DEF ChainState
    <2> QED
      BY <1>1, <1>2, <2>1, <2>2, <2>3, ChainMoves DEF ChainState
  <1>6. CASE AuthorizeHub
    <2>1. /\ regChain' = [regChain EXCEPT !.hub = "yes"] /\ Emit("HubAuthorized")
          /\ ownerCalls' = ownerCalls + 1 /\ UNCHANGED <<regNow, txs, regFaults>> /\ UNCHANGED serverVars
      BY <1>6 DEF AuthorizeHub, OwnerCall
    <2>2. Grown
      BY <1>1, <2>1, Emitted DEF EventKinds
    <2>3. /\ regChain' \in ChainState /\ regChain'.hub = "yes" /\ regChain'.registered = regChain.registered
          /\ regChain'.stake = regChain.stake
      BY <1>2, <2>1 DEF ChainState
    <2> QED
      BY <1>1, <1>2, <2>1, <2>2, <2>3, ChainMoves DEF ChainState
  <1>7. CASE UnauthorizeHub
    <2>1. /\ regChain' = [regChain EXCEPT !.hub = "removed"] /\ Emit("HubUnauthorized")
          /\ ownerCalls' = ownerCalls + 1 /\ UNCHANGED <<regNow, txs, regFaults>> /\ UNCHANGED serverVars
      BY <1>7 DEF UnauthorizeHub, OwnerCall
    <2>2. Grown /\ ~Added("HubAuthorized") /\ Added("HubUnauthorized")
      BY <1>1, <2>1, Emitted DEF EventKinds, Added
    <2>3. /\ regChain' \in ChainState /\ regChain'.registered = regChain.registered
          /\ regChain'.stake = regChain.stake
      BY <1>2, <2>1 DEF ChainState
    <2> QED
      BY <1>1, <1>2, <2>1, <2>2, <2>3, ChainMoves DEF ChainState
  <1>8. CASE UnlockStake
    <2>1. /\ regChain' = [regChain EXCEPT !.stake = "unlocked", !.withdrawTime = regNow + UnstakeDelay]
          /\ Emit("StakeUnlocked") /\ regChain.stake = "locked"
          /\ ownerCalls' = ownerCalls + 1 /\ UNCHANGED <<regNow, txs, regFaults>> /\ UNCHANGED serverVars
      BY <1>8 DEF UnlockStake, OwnerCall
    <2>2. Grown /\ ~Added("HubAuthorized") /\ Added("StakeUnlocked")
      BY <1>1, <2>1, Emitted DEF EventKinds, Added
    <2>3. regNow + UnstakeDelay \in Nat
      BY <1>2
    <2>4. /\ regChain' \in ChainState /\ regChain'.registered = regChain.registered
          /\ regChain'.stake = "unlocked" /\ regChain'.hub = regChain.hub
      BY <1>2, <2>1, <2>3 DEF ChainState
    <2> QED
      BY <1>1, <1>2, <2>1, <2>2, <2>4, ChainMoves DEF ChainState
  <1>9. CASE WithdrawStake
    <2>1. /\ regChain' = [regChain EXCEPT !.stake = "none", !.withdrawTime = 0]
          /\ Emit("StakeWithdrawn") /\ regChain.stake = "unlocked" /\ (PromptServer => UnlockHandled)
          /\ ownerCalls' = ownerCalls + 1 /\ UNCHANGED <<regNow, txs, regFaults>> /\ UNCHANGED serverVars
      BY <1>9 DEF WithdrawStake, OwnerCall
    <2>2. Grown /\ ~Added("HubAuthorized")
      BY <1>1, <2>1, Emitted DEF EventKinds, Added
    <2>3. /\ regChain' \in ChainState /\ regChain'.registered = regChain.registered /\ regChain'.hub = regChain.hub
      BY <1>2, <2>1 DEF ChainState
    <2> QED
      BY <1>1, <1>2, <2>1, <2>2, <2>3, ChainMoves DEF ChainState
  <1> QED
    BY <1>4, <1>5, <1>6, <1>7, <1>8, <1>9 DEF Owner

\* A transaction of the server is mined.
LEMMA MineActionKeeps == ASSUME RegistrationInv, NEW a \in Actions, MineAction(a) PROVE RegistrationInv'
  <1>1. RegistrationTypeOK
    BY DEF RegistrationInv
  <1>2. /\ regChain \in ChainState /\ regNow \in 0..MaxRegTime /\ regNow \in Nat /\ ownerCalls \in Nat
        /\ txs \in [Actions -> {"none", "pending", "recent"}] /\ "managerToOwner" \in Actions
        /\ regChain.funds \ {a} \subseteq Actions
    BY <1>1, LogTypes DEF RegistrationTypeOK, ChainState, Actions
  <1>3. /\ txs[a] = "pending" /\ txs' = [txs EXCEPT ![a] = "recent"]
        /\ UNCHANGED <<regNow, regFaults, ownerCalls>> /\ UNCHANGED serverVars
    BY DEF MineAction
  <1>4. /\ txs' \in [Actions -> {"none", "pending", "recent"}]
        /\ txs'["managerToOwner"] # "none" => txs["managerToOwner"] # "none"
    BY <1>2, <1>3
  <1>5. CASE UNCHANGED log /\ \/ regChain' = [regChain EXCEPT !.worker = TRUE]
                              \/ regChain' = [regChain EXCEPT !.registered = TRUE]
                              \/ regChain' = [regChain EXCEPT !.funds = regChain.funds \ {a}]
                              \/ UNCHANGED regChain
    <2>1. /\ regChain' \in ChainState /\ regChain'.hub = regChain.hub /\ regChain'.stake = regChain.stake
          /\ regChain.registered => regChain'.registered
      <3>1. CASE regChain' = [regChain EXCEPT !.worker = TRUE]
        BY <1>2, <3>1 DEF ChainState
      <3>2. CASE regChain' = [regChain EXCEPT !.registered = TRUE]
        BY <1>2, <3>2 DEF ChainState
      <3>3. CASE regChain' = [regChain EXCEPT !.funds = regChain.funds \ {a}]
        BY <1>2, <3>3 DEF ChainState
      <3>4. CASE UNCHANGED regChain
        BY <1>2, <3>4
      <3> QED
        BY <1>5, <3>1, <3>2, <3>3, <3>4
    <2> QED
      BY <1>1, <1>2, <1>3, <1>4, <1>5, <2>1, SameLog, ChainMoves DEF ChainState
  <1>6. CASE regChain' = [regChain EXCEPT !.owner = TRUE] /\ Emit("OwnerSet")
    <2>1. /\ regChain' \in ChainState /\ regChain'.hub = regChain.hub /\ regChain'.stake = regChain.stake
          /\ regChain'.registered = regChain.registered
      BY <1>2, <1>6 DEF ChainState
    <2>2. Grown /\ ~Added("HubAuthorized")
      BY <1>1, <1>6, Emitted DEF EventKinds, Added
    <2> QED
      BY <1>1, <1>2, <1>3, <1>4, <2>1, <2>2, ChainMoves DEF ChainState
  <1>7. CASE regChain' = [regChain EXCEPT !.hub = "yes"] /\ Emit("HubAuthorized")
    <2>1. /\ regChain' \in ChainState /\ regChain'.hub = "yes" /\ regChain'.stake = regChain.stake
          /\ regChain'.registered = regChain.registered
      BY <1>2, <1>7 DEF ChainState
    <2>2. Grown
      BY <1>1, <1>7, Emitted DEF EventKinds
    <2> QED
      BY <1>1, <1>2, <1>3, <1>4, <2>1, <2>2, ChainMoves DEF ChainState
  <1> QED
    BY <1>5, <1>6, <1>7 DEF MineAction

LEMMA ForgetActionKeeps == ASSUME RegistrationInv, NEW a \in Actions, ForgetAction(a) PROVE RegistrationInv'
  <1>1. RegistrationTypeOK
    BY DEF RegistrationInv
  <1>2. /\ regChain \in ChainState /\ regNow \in 0..MaxRegTime /\ regNow \in Nat /\ ownerCalls \in Nat
        /\ txs \in [Actions -> {"none", "pending", "recent"}] /\ "managerToOwner" \in Actions
    BY <1>1, LogTypes DEF RegistrationTypeOK, ChainState, Actions
  <1>3. txs' = [txs EXCEPT ![a] = "none"] /\ UNCHANGED <<regChain, log, regNow, regFaults, ownerCalls>> /\ UNCHANGED serverVars
    BY DEF ForgetAction
  <1>4. /\ txs' \in [Actions -> {"none", "pending", "recent"}]
        /\ txs'["managerToOwner"] # "none" => txs["managerToOwner"] # "none"
    BY <1>2, <1>3
  <1> QED
    BY <1>1, <1>2, <1>3, <1>4, SameLog, ChainMoves DEF ChainState

LEMMA RegTickKeeps == ASSUME RegistrationInv, RegTick PROVE RegistrationInv'
  <1>1. RegistrationTypeOK
    BY DEF RegistrationInv
  <1>2. /\ regChain \in ChainState /\ regNow \in 0..MaxRegTime /\ regNow \in Nat /\ ownerCalls \in Nat
        /\ txs \in [Actions -> {"none", "pending", "recent"}] /\ MaxRegTime \in Nat
    BY <1>1, LogTypes, RegNumbers DEF RegistrationTypeOK, ChainState
  <1>3. /\ regNow < MaxRegTime /\ regNow' = regNow + 1
        /\ UNCHANGED <<regChain, log, txs, regFaults, ownerCalls>> /\ UNCHANGED serverVars
    BY DEF RegTick
  <1>4. regNow' \in 0..MaxRegTime /\ regNow' >= regNow
    BY <1>2, <1>3
  <1> QED
    BY <1>1, <1>2, <1>3, <1>4, SameLog, ChainMoves DEF ChainState

PlacesOfPass == {"down", "idle", "query", "events", "sending", "info", "register", "relay", "end"}

\* The server moves, the chain does not.
LEMMA ServerMoves ==
    ASSUME RegistrationInv, UNCHANGED <<regChain, log, regNow, ownerCalls>>,
           txs' \in [Actions -> {"none", "pending", "recent"}], mem' \in Memory,
           regScanned' \in 0..Len(log), regReady' \in BOOLEAN, regAt' \in PlacesOfPass,
           regPass' \in [block : 0..Len(log), time : 0..regNow, force : BOOLEAN],
           regTodo' \in Seq(StakeEvents), sends' \in Seq(Actions), regFaults' \in [crash : Nat, failure : Nat],
           sends' # <<>> => FundsMayLeave,
           \A i \in DOMAIN sends' : sends'[i] = "managerToOwner" => StakeIsGone,
           txs'["managerToOwner"] # "none" => txs["managerToOwner"] # "none" \/ StakeIsGone,
           \A t \in mem'.delayed \ mem.delayed : \E i \in DOMAIN log : log[i].kind = "HubUnauthorized" /\ log[i].time = t,
           regAt' \notin {"events", "sending"} => regTodo' = <<>>,
           regAt' # "sending" => sends' = <<>>,
           regAt' = "down" => ~mem'.hubAuthorized /\ ~mem'.stakeLocked /\ ~regReady',
           regAt' = "idle" /\ regReady' => IsRegistered',
           mem'.info => regChain.registered,
           NEW f \in 0..Len(log), RestOfEvents(f)',
           mem'.hubAuthorized => regChain.hub = "yes" \/ TakenBack("HubUnauthorized", f),
           PromptServer /\ mem'.stakeLocked =>
             \/ regChain.stake = "locked"
             \/ regChain.stake = "unlocked" /\ TakenBack("StakeUnlocked", f)
    PROVE  RegistrationInv'
  <1>1. RegistrationTypeOK'
    BY DEF RegistrationInv, RegistrationTypeOK, PlacesOfPass
  <1>2. LeavesInTime'
    <2>1. (FundsMayLeave' <=> FundsMayLeave) /\ (StakeIsGone' <=> StakeIsGone)
      BY DEF FundsMayLeave, StakeIsGone
    <2>2. LeavesInTime
      BY DEF RegistrationInv
    <2>3. \A t \in mem'.delayed : \E i \in DOMAIN log : log[i].kind = "HubUnauthorized" /\ log[i].time = t
      BY <2>2 DEF LeavesInTime
    <2>4. txs'["managerToOwner"] # "none" => StakeIsGone
      BY <2>2 DEF LeavesInTime
    <2> QED
      BY <2>1, <2>3, <2>4 DEF LeavesInTime
  <1>3. PlaceOfPass'
    BY DEF PlaceOfPass
  <1>4. LogIsOrdered'
    BY DEF RegistrationInv, LogIsOrdered, TakenBack
  <1>5. MemoryHolds(f)'
    BY DEF MemoryHolds, TakenBack
  <1> QED
    BY <1>1, <1>2, <1>3, <1>4, <1>5 DEF RegistrationInv

LEMMA RegTypes ==
    ASSUME RegistrationInv
    PROVE  /\ RegistrationTypeOK /\ LeavesInTime /\ PlaceOfPass /\ LogIsOrdered
           /\ txs \in [Actions -> {"none", "pending", "recent"}] /\ mem \in Memory
           /\ regScanned \in 0..Len(log) /\ regReady \in BOOLEAN /\ regAt \in PlacesOfPass
           /\ regPass \in [block : 0..Len(log), time : 0..regNow, force : BOOLEAN]
           /\ regTodo \in Seq(StakeEvents) /\ sends \in Seq(Actions) /\ regFaults \in [crash : Nat, failure : Nat]
           /\ \E f \in 0..Len(log) : RestOfEvents(f) /\ MemoryHolds(f)
           /\ {"managerToOwner", "setOwner", "authorizeHub", "addWorker", "register", "withdrawHub", "workerToOwner"}
                \subseteq Actions
  BY DEF RegistrationInv, RegistrationTypeOK, PlacesOfPass, Actions

\* A transaction that is sent, of another kind than the manager's own balance.
LEMMA SendTypes ==
    ASSUME RegistrationInv, NEW a \in Actions, SendAction(a)
    PROVE  /\ txs' \in [Actions -> {"none", "pending", "recent"}]
           /\ a # "managerToOwner" => txs'["managerToOwner"] = txs["managerToOwner"]
           /\ \A b \in Actions \ {a} : txs'[b] = txs[b]
  BY RegTypes DEF SendAction

LEMMA FaultTypes ==
    ASSUME RegistrationInv, NEW kind \in {"crash", "failure"}, NEW max, RegFault(kind, max)
    PROVE  regFaults' \in [crash : Nat, failure : Nat]
  <1>1. regFaults \in [crash : Nat, failure : Nat] /\ regFaults' = [regFaults EXCEPT ![kind] = regFaults[kind] + 1]
    BY RegTypes DEF RegFault
  <1>2. regFaults[kind] + 1 \in Nat
    BY <1>1
  <1> QED
    BY <1>1, <1>2

\* A pass that throws forgets what it had still to do.
LEMMA ThrowKeeps ==
    ASSUME RegistrationInv, Throw, UNCHANGED <<regChain, log, regNow, ownerCalls>>,
           mem' \in Memory, mem'.hubAuthorized = mem.hubAuthorized, mem'.stakeLocked = mem.stakeLocked,
           mem'.info = mem.info, mem'.delayed = mem.delayed,
           regFaults' \in [crash : Nat, failure : Nat]
    PROVE  RegistrationInv'
  <1>1. /\ regAt' = "idle" /\ ~regReady' /\ regReady' \in BOOLEAN /\ regTodo' = <<>> /\ sends' = <<>>
        /\ UNCHANGED <<txs, regScanned, regPass>>
    BY DEF Throw
  <1>2. PICK f \in 0..Len(log) : RestOfEvents(f) /\ MemoryHolds(f)
    BY RegTypes
  <1>3. RestOfEvents(f)'
    <2>1. f + Len(regTodo) <= Len(log) /\ Len(regTodo) \in Nat /\ f \in Nat /\ Len(log) \in Nat
      BY <1>2, RegTypes, LogTypes DEF RestOfEvents
    <2>2. f + Len(regTodo') <= Len(log)
      BY <1>1, <2>1
    <2> QED
      BY <1>1, <1>2, <2>2 DEF RestOfEvents
  <1>4. mem'.info => regChain.registered
    BY RegTypes DEF PlaceOfPass
  <1>5. /\ mem'.hubAuthorized => regChain.hub = "yes" \/ TakenBack("HubUnauthorized", f)
        /\ PromptServer /\ mem'.stakeLocked =>
             regChain.stake = "locked" \/ (regChain.stake = "unlocked" /\ TakenBack("StakeUnlocked", f))
    BY <1>2 DEF MemoryHolds
  <1>6. regTodo' \in Seq(StakeEvents) /\ sends' \in Seq(Actions) /\ DOMAIN sends' = {}
    BY <1>1
  <1>7. /\ txs' \in [Actions -> {"none", "pending", "recent"}] /\ regScanned' \in 0..Len(log) /\ regAt' \in PlacesOfPass
        /\ regPass' \in [block : 0..Len(log), time : 0..regNow, force : BOOLEAN]
    BY <1>1, RegTypes DEF PlacesOfPass
  <1> QED
    BY <1>1, <1>3, <1>4, <1>5, <1>6, <1>7, ServerMoves

\* What refreshStake reads is so.
LEMMA Refreshed ==
    ASSUME RegistrationInv, NEW then, RefreshStake(then)
    PROVE  /\ mem' \in Memory /\ mem'.delayed = mem.delayed /\ mem'.info = mem.info
           /\ mem'.hubAuthorized => mem.hubAuthorized \/ regChain.hub = "yes"
           /\ mem'.stakeLocked => regChain.stake = "locked" \/ (regChain.stake = "none" /\ mem.stakeLocked)
           /\ regAt' = then /\ regFaults' = regFaults
           /\ txs' \in [Actions -> {"none", "pending", "recent"}] /\ txs'["managerToOwner"] = txs["managerToOwner"]
           /\ \A a \in Actions \ {"authorizeHub"} : txs'[a] = txs[a]
  <1>1. mem' = RefreshedFields /\ regAt' = then /\ regFaults' = regFaults
        /\ (UNCHANGED txs \/ SendAction("authorizeHub"))
    BY DEF RefreshStake
  <1>2. mem \in Memory /\ regChain.owner \in BOOLEAN /\ StakedOnHub \in BOOLEAN
    BY RegTypes DEF RegistrationTypeOK, StakedOnHub
  <1>3. mem.hubAuthorized \in BOOLEAN
    BY <1>2 DEF Memory
  <1>4. PICK seen : seen = [mem EXCEPT !.hubAuthorized = mem.hubAuthorized \/ StakedOnHub, !.ownerSet = regChain.owner]
    OBVIOUS
  <1>5. seen \in Memory /\ seen.delayed = mem.delayed /\ seen.info = mem.info /\ seen.stakeLocked = mem.stakeLocked
        /\ (seen.hubAuthorized <=> mem.hubAuthorized \/ StakedOnHub)
    BY <1>2, <1>3, <1>4 DEF Memory
  <1>6. mem' = IF regChain.stake = "none" THEN seen
               ELSE [seen EXCEPT !.stakeLocked = regChain.stake = "locked", !.stakeOk = TRUE, !.owner = TRUE]
    BY <1>1, <1>4 DEF RefreshedFields
  <1>7. /\ mem' \in Memory /\ mem'.delayed = mem.delayed /\ mem'.info = mem.info
        /\ mem'.hubAuthorized = seen.hubAuthorized
        /\ mem'.stakeLocked => regChain.stake = "locked" \/ (regChain.stake = "none" /\ mem.stakeLocked)
    <2>1. CASE regChain.stake = "none"
      BY <1>5, <1>6, <2>1
    <2>2. CASE regChain.stake # "none"
      BY <1>5, <1>6, <2>2 DEF Memory
    <2> QED
      BY <2>1, <2>2
  <1>8. txs' \in [Actions -> {"none", "pending", "recent"}] /\ \A a \in Actions \ {"authorizeHub"} : txs'[a] = txs[a]
    BY <1>1, RegTypes, SendTypes
  <1>9. txs'["managerToOwner"] = txs["managerToOwner"]
    BY <1>8, RegTypes
  <1> QED
    BY <1>1, <1>5, <1>7, <1>8, <1>9 DEF StakedOnHub

\* The next event is the first that was not handled.
LEMMA NextEvent ==
    ASSUME RegistrationInv, NEW f \in 0..Len(log), RestOfEvents(f), regTodo # <<>>
    PROVE  /\ f + 1 \in 0..Len(log) /\ f + 1 \in DOMAIN log /\ Head(regTodo) = log[f + 1] /\ Head(regTodo) \in StakeEvents
           /\ Tail(regTodo) \in Seq(StakeEvents) /\ Len(Tail(regTodo)) = Len(regTodo) - 1
           /\ f + 1 + Len(Tail(regTodo)) = f + Len(regTodo) /\ f + Len(regTodo) <= Len(log)
           /\ \A j \in DOMAIN Tail(regTodo) : Tail(regTodo)[j] = log[f + 1 + j]
           /\ regScanned <= f + 1
           /\ \A kind : kind # log[f + 1].kind /\ TakenBack(kind, f) => TakenBack(kind, f + 1)
  <1>1. /\ regTodo \in Seq(StakeEvents) /\ Len(regTodo) \in Nat /\ Len(log) \in Nat /\ f \in Nat
        /\ DOMAIN log = 1..Len(log) /\ regScanned \in Nat
    BY RegTypes, LogTypes
  <1>2. Len(regTodo) >= 1 /\ 1 \in DOMAIN regTodo /\ Head(regTodo) = regTodo[1] /\ regTodo[1] \in StakeEvents
    BY <1>1
  <1>3. f + Len(regTodo) <= Len(log) /\ regScanned <= f /\ \A j \in DOMAIN regTodo : regTodo[j] = log[f + j]
    BY DEF RestOfEvents
  <1>4. Tail(regTodo) \in Seq(StakeEvents) /\ Len(Tail(regTodo)) = Len(regTodo) - 1
        /\ \A j \in DOMAIN Tail(regTodo) : j \in Nat /\ j + 1 \in DOMAIN regTodo /\ Tail(regTodo)[j] = regTodo[j + 1]
    BY <1>1, <1>2
  <1>5. \A j \in DOMAIN Tail(regTodo) : f + (j + 1) = f + 1 + j
    BY <1>1, <1>4
  <1>6. \A j \in DOMAIN Tail(regTodo) : Tail(regTodo)[j] = log[f + 1 + j]
    BY <1>3, <1>4, <1>5
  <1>7. f + 1 \in 0..Len(log) /\ f + 1 \in DOMAIN log /\ Head(regTodo) = log[f + 1] /\ regScanned <= f + 1
    BY <1>1, <1>2, <1>3
  <1>8. f + 1 + Len(Tail(regTodo)) = f + Len(regTodo)
    BY <1>1, <1>4
  <1>9. ASSUME NEW kind, kind # log[f + 1].kind, TakenBack(kind, f) PROVE TakenBack(kind, f + 1)
    <2>1. PICK i \in DOMAIN log : i > f /\ log[i].kind = kind
      BY <1>9 DEF TakenBack
    <2>2. i > f + 1
      BY <1>1, <1>9, <2>1
    <2> QED
      BY <2>1, <2>2 DEF TakenBack
  <1> QED
    BY <1>2, <1>3, <1>4, <1>6, <1>7, <1>8, <1>9

\* The server starts with what it reads from the chain.
LEMMA StartServerKeeps == ASSUME RegistrationInv, StartServer PROVE RegistrationInv'
  <1>1. /\ regAt = "down" /\ RefreshStake("idle") /\ UNCHANGED <<regChain, log, regNow, ownerCalls>>
        /\ UNCHANGED <<regReady, regPass, regTodo, sends>>
        /\ regScanned' = IF Len(log) > ScanBack THEN Len(log) - ScanBack ELSE 0
    BY DEF StartServer
  <1>2. Len(log) \in Nat /\ ScanBack \in Nat
    BY RegTypes, LogTypes, RegNumbers
  <1>3. regScanned' \in 0..Len(log) /\ regScanned' <= Len(log)
    BY <1>1, <1>2
  <1>4. regTodo = <<>> /\ sends = <<>> /\ ~mem.hubAuthorized /\ ~mem.stakeLocked /\ ~regReady
        /\ (mem.info => regChain.registered)
    BY <1>1, RegTypes DEF PlaceOfPass
  <1>5. /\ mem' \in Memory /\ mem'.delayed = mem.delayed /\ mem'.info = mem.info /\ regAt' = "idle"
        /\ mem'.hubAuthorized => regChain.hub = "yes"
        /\ mem'.stakeLocked => regChain.stake = "locked"
        /\ txs' \in [Actions -> {"none", "pending", "recent"}] /\ txs'["managerToOwner"] = txs["managerToOwner"]
        /\ regFaults' = regFaults
    BY <1>1, <1>4, Refreshed
  <1>6. PICK f \in 0..Len(log) : f = Len(log)
    BY <1>2
  <1>8. RestOfEvents(f)'
    BY <1>1, <1>2, <1>3, <1>4, <1>5, <1>6 DEF RestOfEvents
  <1>7. /\ regReady' \in BOOLEAN /\ ~regReady' /\ regAt' \in PlacesOfPass
        /\ regPass' \in [block : 0..Len(log), time : 0..regNow, force : BOOLEAN]
        /\ regTodo' = <<>> /\ sends' = <<>> /\ regTodo' \in Seq(StakeEvents) /\ sends' \in Seq(Actions) /\ DOMAIN sends' = {}
        /\ regFaults' \in [crash : Nat, failure : Nat]
    BY <1>1, <1>2, <1>4, <1>5, RegTypes DEF PlacesOfPass
  <1> QED
    BY <1>1, <1>3, <1>4, <1>5, <1>7, <1>8, ServerMoves

\* Fields that registration depends on do not change.
LEMMA SameMemory ==
    ASSUME RegistrationInv, NEW f, MemoryHolds(f), mem'.hubAuthorized = mem.hubAuthorized,
           mem'.stakeLocked = mem.stakeLocked
    PROVE  /\ mem'.hubAuthorized => regChain.hub = "yes" \/ TakenBack("HubUnauthorized", f)
           /\ PromptServer /\ mem'.stakeLocked =>
                \/ regChain.stake = "locked"
                \/ regChain.stake = "unlocked" /\ TakenBack("StakeUnlocked", f)
  BY DEF MemoryHolds

LEMMA BeginRegPassKeeps == ASSUME RegistrationInv, BeginRegPass PROVE RegistrationInv'
  <1> DEFINE funded == "managerToOwner" \in regChain.funds
  <1>1. /\ regAt = "idle" /\ mem' = [mem EXCEPT !.balanceOk = funded]
        /\ regAt' = IF funded THEN "query" ELSE "idle"
        /\ regReady' = (regReady /\ funded)
        /\ UNCHANGED <<regChain, log, regNow, ownerCalls>> /\ UNCHANGED <<txs, regScanned, regTodo, sends, regFaults>>
    BY DEF BeginRegPass
  <1>2. regPass' \in [block : 0..Len(log), time : 0..regNow, force : BOOLEAN]
    <2>1. \E force \in BOOLEAN : regPass' = [block |-> Len(log), time |-> regNow, force |-> force]
      BY DEF BeginRegPass
    <2>2. Len(log) \in 0..Len(log) /\ regNow \in 0..regNow
      BY RegTypes, LogTypes
    <2> QED
      BY <2>1, <2>2
  <1>3. mem' \in Memory /\ mem'.hubAuthorized = mem.hubAuthorized /\ mem'.stakeLocked = mem.stakeLocked
        /\ mem'.info = mem.info /\ mem'.delayed = mem.delayed
    <2>1. mem \in Memory /\ funded \in BOOLEAN
      BY RegTypes
    <2> QED
      BY <1>1, <2>1 DEF Memory
  <1>4. regTodo = <<>> /\ sends = <<>> /\ (mem.info => regChain.registered)
    BY <1>1, RegTypes DEF PlaceOfPass
  <1>5. PICK f \in 0..Len(log) : RestOfEvents(f) /\ MemoryHolds(f)
    BY RegTypes
  <1>6. RestOfEvents(f)'
    BY <1>1, <1>5 DEF RestOfEvents
  <1>7. regAt' = "idle" => ~regReady'
    BY <1>1
  <1>8. regReady' \in BOOLEAN /\ regAt' \in {"query", "idle"} /\ regAt' \in PlacesOfPass
    BY <1>1, RegTypes DEF PlacesOfPass
  <1>9. sends' = <<>> /\ DOMAIN sends' = {} /\ regTodo' = <<>>
    BY <1>1, <1>4
  <1>10. txs' = txs /\ regScanned' \in 0..Len(log) /\ regTodo' \in Seq(StakeEvents) /\ sends' \in Seq(Actions)
         /\ regFaults' \in [crash : Nat, failure : Nat] /\ txs' \in [Actions -> {"none", "pending", "recent"}]
    BY <1>1, RegTypes
  <1>11. mem'.hubAuthorized => regChain.hub = "yes" \/ TakenBack("HubUnauthorized", f)
    BY <1>3, <1>5, SameMemory
  <1>12. PromptServer /\ mem'.stakeLocked =>
           regChain.stake = "locked" \/ (regChain.stake = "unlocked" /\ TakenBack("StakeUnlocked", f))
    BY <1>3, <1>5, SameMemory
  <1> HIDE DEF funded
  <1> QED
    BY <1>1, <1>2, <1>3, <1>4, <1>6, <1>7, <1>8, <1>9, <1>10, <1>11, <1>12, ServerMoves

LEMMA QueryStakeEventsKeeps == ASSUME RegistrationInv, QueryStakeEvents PROVE RegistrationInv'
  <1>1. regAt = "query" /\ UNCHANGED <<regChain, log, regNow, ownerCalls>>
    BY DEF QueryStakeEvents
  <1>2. mem' \in Memory /\ mem'.hubAuthorized = mem.hubAuthorized /\ mem'.stakeLocked = mem.stakeLocked
        /\ mem'.info = mem.info /\ mem'.delayed = mem.delayed
    <2>1. mem' = mem \/ mem' = [mem EXCEPT !.setOwnerCalled = TRUE]
      BY DEF QueryStakeEvents
    <2>2. mem \in Memory
      BY RegTypes
    <2> QED
      BY <2>1, <2>2 DEF Memory
  <1>3. CASE Throw /\ RegFault("failure", MaxSendFailures)
    BY <1>1, <1>2, <1>3, ThrowKeeps, FaultTypes
  <1>4. CASE /\ regAt' = "events" /\ regTodo' = SubSeq(log, regScanned + 1, Len(log))
             /\ UNCHANGED <<regReady, sends, regScanned, regPass, regFaults>>
             /\ UNCHANGED txs \/ SendAction("setOwner")
    <2>1. PICK f \in 0..Len(log) : RestOfEvents(f) /\ MemoryHolds(f)
      BY RegTypes
    <2>2. /\ regScanned <= f /\ regScanned \in Nat /\ Len(log) \in Nat /\ f \in Nat /\ regScanned \in 0..Len(log)
          /\ log \in Seq(StakeEvents) /\ DOMAIN log = 1..Len(log) /\ regPass.block \in Nat /\ regPass.block <= Len(log)
      BY <2>1, RegTypes, LogTypes DEF RestOfEvents
    <2>3. /\ regTodo' \in Seq(StakeEvents) /\ Len(regTodo') = Len(log) - regScanned
          /\ \A j \in DOMAIN regTodo' : regTodo'[j] = log[regScanned + j]
      <3>1. /\ regScanned + 1 \in Int /\ Len(log) \in Int
            /\ \A i \in regScanned + 1..Len(log) : log[i] \in StakeEvents
        <4>1. \A i \in regScanned + 1..Len(log) : i \in DOMAIN log
          BY <2>2
        <4>2. \A i \in DOMAIN log : log[i] \in StakeEvents
          BY RegTypes, LogTypes
        <4> QED
          BY <2>2, <4>1, <4>2
      <3>2. /\ SubSeq(log, regScanned + 1, Len(log)) \in Seq(StakeEvents)
            /\ Len(SubSeq(log, regScanned + 1, Len(log))) =
                 IF regScanned + 1 <= Len(log) THEN Len(log) - (regScanned + 1) + 1 ELSE 0
            /\ \A j \in 1..Len(log) - (regScanned + 1) + 1 :
                 SubSeq(log, regScanned + 1, Len(log))[j] = log[regScanned + 1 + j - 1]
        BY <3>1, SubSeqProperties
      <3>3. Len(regTodo') = Len(log) - regScanned /\ DOMAIN regTodo' = 1..Len(log) - regScanned
        <4>0. PICK rest : rest = SubSeq(log, regScanned + 1, Len(log))
          OBVIOUS
        <4>3. regTodo' = rest
          BY <1>4, <4>0
        <4>4. rest \in Seq(StakeEvents)
          BY <3>2, <4>0
        <4>5. Len(rest) = IF regScanned + 1 <= Len(log) THEN Len(log) - (regScanned + 1) + 1 ELSE 0
          BY <3>2, <4>0
        <4>6. Len(rest) = Len(log) - regScanned
          <5>1. regScanned \in Nat /\ Len(log) \in Nat /\ regScanned <= Len(log)
            BY <2>2
          <5>2. (regScanned + 1 <= Len(log)) => Len(log) - (regScanned + 1) + 1 = Len(log) - regScanned
            BY <5>1
          <5>3. ~(regScanned + 1 <= Len(log)) => 0 = Len(log) - regScanned
            BY <5>1
          <5> QED
            BY <4>5, <5>2, <5>3
        <4>1. regTodo' \in Seq(StakeEvents)
          BY <4>3, <4>4
        <4>2. Len(regTodo') = Len(log) - regScanned
          BY <4>3, <4>6
        <4> QED
          BY <4>1, <4>2
      <3>4. ASSUME NEW j \in DOMAIN regTodo' PROVE regTodo'[j] = log[regScanned + j]
        <4>1. j \in 1..Len(log) - (regScanned + 1) + 1 /\ regScanned + 1 + j - 1 = regScanned + j
          BY <2>2, <3>3
        <4> QED
          BY <1>4, <3>2, <4>1
      <3> QED
        BY <1>4, <3>2, <3>3, <3>4
    <2>4. PICK g \in 0..Len(log) : g = regScanned
      BY <2>2
    <2>11. RestOfEvents(g)'
      <3>1. g + Len(regTodo') = Len(log)
        <4>1. Len(regTodo') = Len(log) - regScanned
          BY <2>3
        <4> QED
          BY <2>2, <2>4, <4>1
      <3>2. regScanned' <= g /\ g + Len(regTodo') <= Len(log)
        <4>1. regScanned' = regScanned
          BY <1>4
        <4> QED
          BY <2>2, <2>4, <3>1, <4>1
      <3>3. regPass'.block <= g + Len(regTodo')
        BY <1>4, <2>2, <3>1
      <3> QED
        BY <1>1, <2>3, <2>4, <3>2, <3>3 DEF RestOfEvents
    <2>5. \A kind : TakenBack(kind, f) => TakenBack(kind, g)
      <3>1. \A i \in DOMAIN log : i > f => i > g
        BY <2>2, <2>4
      <3> QED
        BY <3>1 DEF TakenBack
    <2>6. mem'.hubAuthorized => regChain.hub = "yes" \/ TakenBack("HubUnauthorized", g)
      BY <1>2, <2>1, <2>5, SameMemory
    <2>7. PromptServer /\ mem'.stakeLocked =>
             regChain.stake = "locked" \/ (regChain.stake = "unlocked" /\ TakenBack("StakeUnlocked", g))
      BY <1>2, <2>1, <2>5, SameMemory
    <2>8. sends' = <<>> /\ DOMAIN sends' = {} /\ (mem.info => regChain.registered)
      BY <1>1, <1>4, RegTypes DEF PlaceOfPass
    <2>9. txs' \in [Actions -> {"none", "pending", "recent"}] /\ txs'["managerToOwner"] = txs["managerToOwner"]
      BY <1>4, RegTypes, SendTypes
    <2>10. regAt' \in PlacesOfPass /\ regReady' \in BOOLEAN /\ regScanned' \in 0..Len(log) /\ sends' \in Seq(Actions)
           /\ regPass' \in [block : 0..Len(log), time : 0..regNow, force : BOOLEAN]
           /\ regFaults' \in [crash : Nat, failure : Nat]
      BY <1>4, RegTypes DEF PlacesOfPass
    <2> QED
      BY <1>1, <1>2, <1>4, <2>3, <2>6, <2>7, <2>8, <2>9, <2>10, <2>11, ServerMoves
  <1> QED
    BY <1>3, <1>4 DEF QueryStakeEvents

\* An event is handled: what is remembered of it is taken from the chain or from the log.
LEMMA EventMoves ==
    ASSUME RegistrationInv, UNCHANGED <<regChain, log, regNow, ownerCalls>>,
           regAt = "events", regTodo # <<>>, regTodo' = Tail(regTodo),
           UNCHANGED <<regScanned, regReady, regPass>>, regAt' \in {"events", "sending"},
           txs' \in [Actions -> {"none", "pending", "recent"}], txs'["managerToOwner"] = txs["managerToOwner"],
           mem' \in Memory, mem'.info = mem.info, regFaults' = regFaults,
           \A t \in mem'.delayed \ mem.delayed : Head(regTodo).kind = "HubUnauthorized" /\ t = Head(regTodo).time,
           \/ ~mem'.hubAuthorized
           \/ regChain.hub = "yes"
           \/ Head(regTodo).kind = "HubAuthorized"
           \/ mem.hubAuthorized /\ Head(regTodo).kind # "HubUnauthorized",
           mem'.stakeLocked => \/ regChain.stake = "locked"
                               \/ mem.stakeLocked /\ (Head(regTodo).kind # "StakeUnlocked" \/ regChain.stake = "none"),
           sends' \in Seq(Actions), regAt' = "events" => sends' = <<>>,
           sends' # <<>> => Head(regTodo).kind = "StakeWithdrawn"
    PROVE  RegistrationInv'
  <1>1. PICK f \in 0..Len(log) : RestOfEvents(f) /\ MemoryHolds(f)
    BY RegTypes
  <1>2. /\ f + 1 \in 0..Len(log) /\ f + 1 \in DOMAIN log /\ Head(regTodo) = log[f + 1]
        /\ regTodo' \in Seq(StakeEvents) /\ f + 1 + Len(regTodo') = f + Len(regTodo) /\ f + Len(regTodo) <= Len(log)
        /\ \A j \in DOMAIN regTodo' : regTodo'[j] = log[f + 1 + j]
        /\ regScanned <= f + 1
        /\ \A kind : kind # log[f + 1].kind /\ TakenBack(kind, f) => TakenBack(kind, f + 1)
    BY <1>1, NextEvent
  <1>3. regPass.block <= f + Len(regTodo)
    BY <1>1 DEF RestOfEvents
  <1>4. RestOfEvents(f + 1)'
    BY <1>2, <1>3 DEF RestOfEvents
  <1>5. mem'.hubAuthorized => regChain.hub = "yes" \/ TakenBack("HubUnauthorized", f + 1)
    <2>1. Head(regTodo).kind = "HubAuthorized" => regChain.hub = "yes" \/ TakenBack("HubUnauthorized", f + 1)
      BY <1>2, RegTypes DEF LogIsOrdered
    <2>2. mem.hubAuthorized /\ Head(regTodo).kind # "HubUnauthorized" =>
             regChain.hub = "yes" \/ TakenBack("HubUnauthorized", f + 1)
      BY <1>1, <1>2 DEF MemoryHolds
    <2> QED
      BY <2>1, <2>2
  <1>6. PromptServer /\ mem'.stakeLocked =>
           regChain.stake = "locked" \/ (regChain.stake = "unlocked" /\ TakenBack("StakeUnlocked", f + 1))
    BY <1>1, <1>2 DEF MemoryHolds
  <1>7. \A t \in mem'.delayed \ mem.delayed : \E i \in DOMAIN log : log[i].kind = "HubUnauthorized" /\ log[i].time = t
    BY <1>2
  <1>8. (sends' # <<>> => FundsMayLeave /\ StakeIsGone) /\ (sends' = <<>> => DOMAIN sends' = {})
    BY <1>2 DEF FundsMayLeave, StakeIsGone
  <1>9. mem'.info => regChain.registered
    BY RegTypes DEF PlaceOfPass
  <1>10. regAt' \in PlacesOfPass /\ regReady' \in BOOLEAN /\ regScanned' \in 0..Len(log)
         /\ regPass' \in [block : 0..Len(log), time : 0..regNow, force : BOOLEAN]
         /\ regFaults' \in [crash : Nat, failure : Nat]
    BY RegTypes DEF PlacesOfPass
  <1> QED
    BY <1>2, <1>4, <1>5, <1>6, <1>7, <1>8, <1>9, <1>10, ServerMoves

LEMMA HandleStakeEventKeeps == ASSUME RegistrationInv, HandleStakeEvent PROVE RegistrationInv'
  <1>1. mem \in Memory /\ mem.delayed \subseteq Nat /\ sends \in Seq(Actions)
        /\ txs \in [Actions -> {"none", "pending", "recent"}] /\ (regAt = "events" => sends = <<>>)
    BY RegTypes, LogTypes DEF PlaceOfPass
  <1>2. CASE HandleHubAuthorized
    <2>1. /\ regAt = "events" /\ regTodo # <<>> /\ Head(regTodo).kind = "HubAuthorized" /\ regTodo' = Tail(regTodo)
          /\ mem' = [mem EXCEPT !.hubAuthorized = TRUE]
          /\ UNCHANGED <<regChain, log, regNow, ownerCalls>> /\ UNCHANGED <<txs, regAt, regScanned, regReady, regPass, sends, regFaults>>
      BY <1>2 DEF HandleHubAuthorized, Handle
    <2>2. mem' \in Memory /\ mem'.info = mem.info /\ mem'.delayed = mem.delayed /\ mem'.stakeLocked = mem.stakeLocked
      BY <1>1, <2>1 DEF Memory
    <2> QED
      BY <1>1, <2>1, <2>2, EventMoves
  <1>3. CASE HandleHubUnauthorized
    <2>1. /\ regAt = "events" /\ regTodo # <<>> /\ Head(regTodo).kind = "HubUnauthorized" /\ regTodo' = Tail(regTodo)
          /\ mem' = [mem EXCEPT !.hubAuthorized = FALSE, !.delayed = mem.delayed \cup {Head(regTodo).time}]
          /\ UNCHANGED <<regChain, log, regNow, ownerCalls>> /\ UNCHANGED <<txs, regAt, regScanned, regReady, regPass, sends, regFaults>>
      BY <1>3 DEF HandleHubUnauthorized, Handle
    <2>2. Head(regTodo) \in StakeEvents
      BY <2>1, RegTypes, NextEvent
    <2>3. mem.delayed \cup {Head(regTodo).time} \subseteq Nat
      BY <1>1, <2>2 DEF StakeEvents
    <2>4. mem' \in Memory /\ mem'.info = mem.info /\ mem'.delayed = mem.delayed \cup {Head(regTodo).time}
          /\ mem'.stakeLocked = mem.stakeLocked /\ mem'.hubAuthorized = FALSE
      BY <1>1, <2>1, <2>3 DEF Memory
    <2> QED
      BY <1>1, <2>1, <2>4, EventMoves
  <1>4. CASE HandleStake
    <2>1. /\ regAt = "events" /\ regTodo # <<>> /\ Head(regTodo).kind \in {"OwnerSet", "StakeAdded", "StakeUnlocked"}
          /\ regTodo' = Tail(regTodo) /\ RefreshStake("events")
          /\ UNCHANGED <<regChain, log, regNow, ownerCalls>> /\ UNCHANGED <<regScanned, regReady, regPass, sends>>
      BY <1>4 DEF HandleStake, Handle
    <2> QED
      BY <1>1, <2>1, Refreshed, EventMoves
  <1>5. CASE /\ Handle("StakeWithdrawn") /\ RefreshStake("sending")
             /\ sends' = WithdrawRemoved \o <<"managerToOwner">>
             /\ UNCHANGED <<regScanned, regReady, regPass>> /\ UNCHANGED <<regChain, log, regNow, ownerCalls>>
    <2>1. /\ regAt = "events" /\ regTodo # <<>> /\ Head(regTodo).kind = "StakeWithdrawn" /\ regTodo' = Tail(regTodo)
      BY <1>5 DEF Handle
    <2>2. sends' \in Seq(Actions)
      BY <1>5 DEF WithdrawRemoved, Actions
    <2> QED
      BY <1>1, <1>5, <2>1, <2>2, Refreshed, EventMoves
  <1>6. CASE Throw /\ UNCHANGED <<mem, regFaults>> /\ UNCHANGED <<regChain, log, regNow, ownerCalls>>
    BY <1>1, <1>6, RegTypes, ThrowKeeps
  <1> QED
    BY <1>2, <1>3, <1>4, <1>5, <1>6 DEF HandleStakeEvent, HandleStakeWithdrawn

\* A step of the pass between the events: what is still to do stays, or moves on.
LEMMA PassMoves ==
    ASSUME RegistrationInv, UNCHANGED <<regChain, log, regNow, ownerCalls>>,
           UNCHANGED <<regScanned, regPass, regTodo>>, regAt' \in PlacesOfPass, regReady' \in BOOLEAN,
           regAt \in {"events", "sending", "info", "register", "relay", "end"},
           regAt' \in {"events", "sending"} \/ regTodo = <<>>, regAt' # "down",
           regAt' = "idle" => ~regReady',
           txs' \in [Actions -> {"none", "pending", "recent"}],
           txs'["managerToOwner"] # "none" => txs["managerToOwner"] # "none" \/ StakeIsGone,
           mem' \in Memory, mem'.delayed \subseteq mem.delayed,
           mem'.hubAuthorized => mem.hubAuthorized \/ regChain.hub = "yes",
           mem'.stakeLocked => regChain.stake = "locked" \/ (mem.stakeLocked /\ regChain.stake' = regChain.stake),
           mem'.info => regChain.registered,
           regFaults' \in [crash : Nat, failure : Nat],
           sends' \in Seq(Actions), regAt' # "sending" => sends' = <<>>, sends' # <<>> => FundsMayLeave,
           \A i \in DOMAIN sends' : sends'[i] = "managerToOwner" => StakeIsGone
    PROVE  RegistrationInv'
  <1>1. PICK f \in 0..Len(log) : RestOfEvents(f) /\ MemoryHolds(f)
    BY RegTypes
  <1>2. RestOfEvents(f)'
    BY <1>1 DEF RestOfEvents
  <1>3. mem'.hubAuthorized => regChain.hub = "yes" \/ TakenBack("HubUnauthorized", f)
    BY <1>1 DEF MemoryHolds
  <1>4. PromptServer /\ mem'.stakeLocked =>
           regChain.stake = "locked" \/ (regChain.stake = "unlocked" /\ TakenBack("StakeUnlocked", f))
    BY <1>1 DEF MemoryHolds
  <1>5. /\ regScanned' \in 0..Len(log) /\ regTodo' \in Seq(StakeEvents)
        /\ regPass' \in [block : 0..Len(log), time : 0..regNow, force : BOOLEAN]
    BY RegTypes
  <1>6. \A t \in mem'.delayed \ mem.delayed : FALSE
    OBVIOUS
  <1>7. regAt' \notin {"events", "sending"} => regTodo' = <<>>
    OBVIOUS
  <1> QED
    BY <1>2, <1>3, <1>4, <1>5, <1>6, <1>7, ServerMoves

LEMMA SendFundsKeeps == ASSUME RegistrationInv, SendFunds PROVE RegistrationInv'
  <1>1. regAt = "sending" /\ sends # <<>> /\ UNCHANGED <<regChain, log, regNow, mem, ownerCalls>>
    BY DEF SendFunds
  <1>2. /\ sends \in Seq(Actions) /\ mem \in Memory /\ (mem.info => regChain.registered) /\ FundsMayLeave
        /\ \A i \in DOMAIN sends : sends[i] = "managerToOwner" => StakeIsGone
    BY <1>1, RegTypes DEF PlaceOfPass, LeavesInTime
  <1>3. Head(sends) \in Actions /\ Head(sends) = sends[1] /\ 1 \in DOMAIN sends /\ Tail(sends) \in Seq(Actions)
        /\ \A i \in DOMAIN Tail(sends) : i + 1 \in DOMAIN sends /\ Tail(sends)[i] = sends[i + 1]
    BY <1>1, <1>2
  <1>4. CASE Throw /\ RegFault("failure", MaxSendFailures)
    BY <1>1, <1>2, <1>4, ThrowKeeps, FaultTypes
  <1>5. CASE /\ sends' = Tail(sends) /\ (UNCHANGED txs \/ SendAction(Head(sends)))
             /\ UNCHANGED <<regAt, regTodo, regScanned, regReady, regPass, regFaults>>
    <2>1. /\ txs' \in [Actions -> {"none", "pending", "recent"}]
          /\ txs'["managerToOwner"] # "none" => txs["managerToOwner"] # "none" \/ StakeIsGone
      <3>1. CASE UNCHANGED txs
        BY <3>1, RegTypes
      <3>2. CASE SendAction(Head(sends))
        BY <1>2, <1>3, <3>2, SendTypes
      <3> QED
        BY <1>5, <3>1, <3>2
    <2>2. \A i \in DOMAIN sends' : sends'[i] = "managerToOwner" => StakeIsGone
      BY <1>2, <1>3, <1>5
    <2>3. regAt' \in PlacesOfPass /\ regReady' \in BOOLEAN /\ regFaults' \in [crash : Nat, failure : Nat] /\ sends' \in Seq(Actions)
      BY <1>3, <1>5, RegTypes
    <2> QED
      BY <1>1, <1>2, <1>5, <2>1, <2>2, <2>3, PassMoves
  <1> QED
    BY <1>4, <1>5 DEF SendFunds

LEMMA FundsSentKeeps == ASSUME RegistrationInv, FundsSent PROVE RegistrationInv'
  <1>1. /\ regAt = "sending" /\ sends = <<>> /\ regAt' = "events"
        /\ UNCHANGED <<regChain, log, regNow, ownerCalls>>
        /\ UNCHANGED <<regScanned, regPass, regTodo, regReady, sends, txs, mem, regFaults>>
    BY DEF FundsSent, passVars
  <1>2. mem \in Memory /\ (mem.info => regChain.registered) /\ DOMAIN sends = {}
    BY <1>1, RegTypes DEF PlaceOfPass
  <1> QED
    BY <1>1, <1>2, RegTypes, PassMoves DEF PlacesOfPass

LEMMA EventsHandledKeeps == ASSUME RegistrationInv, EventsHandled PROVE RegistrationInv'
  <1>1. /\ regAt = "events" /\ regTodo = <<>>
        /\ mem' = [mem EXCEPT !.delayed = mem.delayed \ DueRemovals]
        /\ UNCHANGED <<regChain, log, regNow, ownerCalls>> /\ UNCHANGED <<txs, regFaults, regTodo, regScanned, regPass>>
    BY DEF EventsHandled
  <1>2. mem \in Memory /\ mem.delayed \subseteq Nat /\ (mem.info => regChain.registered) /\ sends = <<>>
    BY <1>1, RegTypes, LogTypes DEF PlaceOfPass
  <1>3. mem' \in Memory /\ mem'.delayed = mem.delayed \ DueRemovals /\ mem'.info = mem.info
        /\ mem'.hubAuthorized = mem.hubAuthorized /\ mem'.stakeLocked = mem.stakeLocked
    <2>1. mem.delayed \ DueRemovals \in SUBSET Nat
      BY <1>2
    <2> QED
      BY <1>1, <1>2, <2>1 DEF Memory
  <1>4. DueRemovals # {} => FundsMayLeave
    <2> SUFFICES ASSUME NEW t \in mem.delayed, t <= regPass.time PROVE FundsMayLeave
      BY DEF DueRemovals
    <2>1. PICK i \in DOMAIN log : log[i].kind = "HubUnauthorized" /\ log[i].time = t
      BY RegTypes DEF LeavesInTime
    <2>2. regPass.time \in Nat /\ regPass.time <= regNow /\ regNow \in Nat /\ t \in Nat
      BY <1>2, RegTypes, LogTypes
    <2>3. t <= regNow
      BY <2>2
    <2> QED
      BY <2>1, <2>3 DEF FundsMayLeave
  <1>5. WithdrawRemoved \in Seq(Actions) /\ \A i \in DOMAIN WithdrawRemoved : WithdrawRemoved[i] # "managerToOwner"
    <2>1. DOMAIN WithdrawRemoved = 1..2
      BY DEF WithdrawRemoved
    <2> QED
      BY <2>1 DEF WithdrawRemoved, Actions
  <1>6. CASE regAt' \in {"info", "idle"} /\ sends' = sends /\ (regReady' = regReady \/ regReady' = FALSE) /\ (regAt' = "idle" => ~regReady')
    <2>1. sends' = <<>> /\ DOMAIN sends' = {} /\ sends' \in Seq(Actions) /\ regReady' \in BOOLEAN
      <3>1. regReady \in BOOLEAN /\ sends \in Seq(Actions)
        BY RegTypes
      <3>2. sends' = <<>>
        BY <1>2, <1>6
      <3>3. regReady' \in BOOLEAN
        BY <1>6, <3>1
      <3> QED
        BY <1>6, <3>1, <3>2, <3>3
    <2> QED
      BY <1>1, <1>2, <1>3, <1>6, <2>1, RegTypes, PassMoves DEF PlacesOfPass
  <1>7. CASE DueRemovals # {} /\ regAt' = "sending" /\ sends' = WithdrawRemoved /\ regReady' = regReady
    <2>1. sends' \in Seq(Actions) /\ (\A i \in DOMAIN sends' : sends'[i] # "managerToOwner") /\ FundsMayLeave
      BY <1>4, <1>5, <1>7
    <2> QED
      BY <1>1, <1>2, <1>3, <1>7, <2>1, RegTypes, PassMoves DEF PlacesOfPass
  <1> QED
    BY <1>6, <1>7 DEF EventsHandled

LEMMA RefreshFailsKeeps == ASSUME RegistrationInv, RefreshFails PROVE RegistrationInv'
  <1>1. Throw /\ RegFault("failure", MaxSendFailures) /\ UNCHANGED <<regChain, log, regNow, mem, ownerCalls>>
    BY DEF RefreshFails
  <1> QED
    BY <1>1, RegTypes, FaultTypes, ThrowKeeps

LEMMA RefreshInfoKeeps == ASSUME RegistrationInv, RefreshInfo PROVE RegistrationInv'
  <1>1. /\ regAt = "info" /\ mem' = [mem EXCEPT !.info = regChain.registered] /\ regAt' \in {"register", "end"}
        /\ UNCHANGED <<regChain, log, regNow, ownerCalls>>
        /\ UNCHANGED <<regScanned, regPass, regTodo, regReady, sends, txs, regFaults>>
    BY DEF RefreshInfo, passVars
  <1>2. mem \in Memory /\ regTodo = <<>> /\ sends = <<>> /\ DOMAIN sends = {} /\ regChain \in ChainState
    BY <1>1, RegTypes DEF PlaceOfPass, RegistrationTypeOK, ChainState
  <1>3. regChain.registered \in BOOLEAN
    BY <1>2 DEF ChainState
  <1>4. mem' \in Memory /\ mem'.delayed = mem.delayed /\ mem'.info = regChain.registered
        /\ mem'.hubAuthorized = mem.hubAuthorized /\ mem'.stakeLocked = mem.stakeLocked
    BY <1>1, <1>2, <1>3 DEF Memory
  <1> QED
    BY <1>1, <1>2, <1>4, RegTypes, PassMoves DEF PlacesOfPass

LEMMA AttemptRegistrationKeeps == ASSUME RegistrationInv, AttemptRegistration PROVE RegistrationInv'
  <1>1. regAt = "register" /\ UNCHANGED <<regChain, log, regNow, ownerCalls>>
        /\ UNCHANGED <<regScanned, regPass, regTodo, regReady, sends>>
    BY DEF AttemptRegistration, passVars
  <1>2. mem \in Memory /\ regTodo = <<>> /\ sends = <<>> /\ DOMAIN sends = {} /\ (mem.info => regChain.registered)
    BY <1>1, RegTypes DEF PlaceOfPass
  <1>3. CASE RefreshStake("end")
    BY <1>1, <1>2, <1>3, Refreshed, RegTypes, PassMoves DEF PlacesOfPass
  <1>4. CASE regAt' = "relay" /\ (UNCHANGED txs \/ SendAction("addWorker")) /\ UNCHANGED <<mem, regFaults>>
    <2>1. txs' \in [Actions -> {"none", "pending", "recent"}] /\ txs'["managerToOwner"] = txs["managerToOwner"]
      BY <1>4, RegTypes, SendTypes
    <2> QED
      BY <1>1, <1>2, <1>4, <2>1, RegTypes, PassMoves DEF PlacesOfPass
  <1> QED
    BY <1>3, <1>4 DEF AttemptRegistration

LEMMA RegisterRelayKeeps == ASSUME RegistrationInv, RegisterRelayServer PROVE RegistrationInv'
  <1>1. /\ regAt = "relay" /\ regAt' = "end" /\ SendAction("register") /\ UNCHANGED <<regChain, log, regNow, ownerCalls>>
        /\ UNCHANGED <<regScanned, regPass, regTodo, regReady, sends, mem, regFaults>>
    BY DEF RegisterRelayServer, passVars
  <1>2. mem \in Memory /\ regTodo = <<>> /\ sends = <<>> /\ DOMAIN sends = {} /\ (mem.info => regChain.registered)
    BY <1>1, RegTypes DEF PlaceOfPass
  <1>3. txs' \in [Actions -> {"none", "pending", "recent"}] /\ txs'["managerToOwner"] = txs["managerToOwner"]
    BY <1>1, RegTypes, SendTypes
  <1> QED
    BY <1>1, <1>2, <1>3, RegTypes, PassMoves DEF PlacesOfPass

\* The pass ends: every event up to its block was handled.
LEMMA EndRegPassKeeps == ASSUME RegistrationInv, EndRegPass PROVE RegistrationInv'
  <1>1. /\ regAt = "end" /\ regAt' = "idle" /\ regScanned' = regPass.block /\ regReady' = IsRegistered
        /\ UNCHANGED <<regChain, log, regNow, ownerCalls>> /\ UNCHANGED <<txs, mem, regPass, regTodo, sends, regFaults>>
    BY DEF EndRegPass
  <1>2. mem \in Memory /\ regTodo = <<>> /\ sends = <<>> /\ DOMAIN sends = {} /\ (mem.info => regChain.registered)
    BY <1>1, RegTypes DEF PlaceOfPass
  <1>3. PICK f \in 0..Len(log) : RestOfEvents(f) /\ MemoryHolds(f)
    BY RegTypes
  <1>4. regPass.block <= f + Len(regTodo) /\ Len(regTodo) = 0 /\ f \in Nat /\ regPass.block \in Nat
    BY <1>1, <1>2, <1>3, RegTypes, LogTypes DEF RestOfEvents
  <1>5. regScanned' <= f
    BY <1>1, <1>4
  <1>6. RestOfEvents(f)'
    BY <1>1, <1>3, <1>5 DEF RestOfEvents
  <1>7. regReady' \in BOOLEAN /\ (regReady' => IsRegistered')
    BY <1>1, <1>2 DEF IsRegistered, Memory
  <1>8. regScanned' \in 0..Len(log)
    BY <1>1, RegTypes
  <1>9. /\ mem'.hubAuthorized => regChain.hub = "yes" \/ TakenBack("HubUnauthorized", f)
        /\ PromptServer /\ mem'.stakeLocked =>
             regChain.stake = "locked" \/ (regChain.stake = "unlocked" /\ TakenBack("StakeUnlocked", f))
    BY <1>1, <1>3, SameMemory
  <1> QED
    BY <1>1, <1>2, <1>6, <1>7, <1>8, <1>9, RegTypes, ServerMoves DEF PlacesOfPass

LEMMA ServerCrashKeeps == ASSUME RegistrationInv, ServerCrash PROVE RegistrationInv'
  <1>1. /\ regAt' = "down" /\ mem' = Forgotten /\ regReady' = FALSE /\ regTodo' = <<>> /\ sends' = <<>>
        /\ RegFault("crash", MaxServerCrashes)
        /\ UNCHANGED <<regChain, log, regNow, ownerCalls>> /\ UNCHANGED <<txs, regScanned, regPass>>
    BY DEF ServerCrash
  <1>2. Forgotten \in Memory /\ Forgotten.delayed = {} /\ ~Forgotten.hubAuthorized /\ ~Forgotten.stakeLocked /\ ~Forgotten.info
    BY DEF Forgotten, Memory
  <1>3. regFaults' \in [crash : Nat, failure : Nat]
    BY <1>1, FaultTypes
  <1>4. PICK f \in 0..Len(log) : RestOfEvents(f) /\ MemoryHolds(f)
    BY RegTypes
  <1>5. RestOfEvents(f)'
    <2>1. f \in Nat /\ Len(log) \in Nat /\ f <= Len(log)
      BY RegTypes, LogTypes
    <2>2. f + Len(regTodo') <= Len(log)
      BY <1>1, <2>1
    <2> QED
      BY <1>1, <1>4, <2>2 DEF RestOfEvents
  <1>6. regTodo' \in Seq(StakeEvents) /\ sends' \in Seq(Actions) /\ DOMAIN sends' = {}
    BY <1>1
  <1> QED
    BY <1>1, <1>2, <1>3, <1>5, <1>6, RegTypes, ServerMoves DEF PlacesOfPass

LEMMA RegistrationNextKeeps == RegistrationInv /\ [RegistrationNext]_registrationVars => RegistrationInv'
  <1> SUFFICES ASSUME RegistrationInv, [RegistrationNext]_registrationVars PROVE RegistrationInv'
    OBVIOUS
  <1>1. CASE Server
    BY <1>1, StartServerKeeps, BeginRegPassKeeps, QueryStakeEventsKeeps, HandleStakeEventKeeps, SendFundsKeeps,
       FundsSentKeeps, EventsHandledKeeps, RefreshFailsKeeps, RefreshInfoKeeps, AttemptRegistrationKeeps,
       RegisterRelayKeeps, EndRegPassKeeps DEF Server
  <1>2. CASE UNCHANGED registrationVars
    <2>1. /\ UNCHANGED <<regChain, log, regNow, txs, mem, regScanned, regReady>>
          /\ UNCHANGED <<regAt, regPass, regTodo, sends, regFaults, ownerCalls>>
      BY <1>2 DEF registrationVars
    <2>2. RegistrationTypeOK'
      BY <2>1 DEF RegistrationInv, RegistrationTypeOK
    <2>3. LeavesInTime' /\ PlaceOfPass' /\ LogIsOrdered'
      BY <2>1 DEF RegistrationInv, LeavesInTime, FundsMayLeave, StakeIsGone, PlaceOfPass, IsRegistered, LogIsOrdered, TakenBack
    <2>4. PICK f \in 0..Len(log) : RestOfEvents(f) /\ MemoryHolds(f)
      BY RegTypes
    <2>5. RestOfEvents(f)' /\ MemoryHolds(f)'
      BY <2>1, <2>4 DEF RestOfEvents, MemoryHolds, TakenBack
    <2> QED
      BY <2>1, <2>2, <2>3, <2>5 DEF RegistrationInv
  <1> QED
    BY <1>1, <1>2, OwnerKeeps, RegTickKeeps, ServerCrashKeeps, MineActionKeeps, ForgetActionKeeps DEF RegistrationNext

LEMMA RegistrationInitHolds == RegistrationInit => RegistrationInv
  <1> SUFFICES ASSUME RegistrationInit PROVE RegistrationInv
    OBVIOUS
  <1>1. /\ log = <<>> /\ regNow = 0 /\ txs = [a \in Actions |-> "none"] /\ regScanned = 0 /\ regReady = StartsRegistered
        /\ regAt = (IF StartsRegistered THEN "idle" ELSE "down")
        /\ regPass = [block |-> 0, time |-> 0, force |-> FALSE] /\ regTodo = <<>> /\ sends = <<>>
        /\ regFaults = [crash |-> 0, failure |-> 0] /\ ownerCalls = 0
    BY DEF RegistrationInit
  <1>2. /\ regChain \in ChainState /\ regChain.registered = StartsRegistered
        /\ StartsRegistered => regChain.hub = "yes" /\ regChain.stake = "locked"
    <2>1. {"withdrawHub", "workerToOwner", "managerToOwner"} \subseteq Actions
      BY DEF Actions
    <2>2. CASE StartsRegistered = TRUE
      BY <2>1, <2>2 DEF RegistrationInit, ChainState
    <2>3. CASE StartsRegistered = FALSE
      BY <2>3 DEF RegistrationInit, ChainState
    <2> QED
      BY <2>2, <2>3, RegNumbers
  <1>3. /\ mem \in Memory /\ mem.delayed = {} /\ mem.hubAuthorized = StartsRegistered /\ mem.stakeLocked = StartsRegistered
        /\ mem.stakeOk = StartsRegistered /\ mem.info = StartsRegistered
    BY RegNumbers DEF RegistrationInit, Forgotten, Memory
  <1>4. RegistrationTypeOK
    <2>1. Len(log) = 0 /\ log \in Seq(StakeEvents) /\ regTodo \in Seq(StakeEvents) /\ sends \in Seq(Actions)
      BY <1>1
    <2>2. regNow \in 0..MaxRegTime /\ regScanned \in 0..Len(log) /\ regFaults \in [crash : Nat, failure : Nat] /\ ownerCalls \in Nat
      BY <1>1, <2>1, RegNumbers
    <2>3. regPass \in [block : 0..Len(log), time : 0..regNow, force : BOOLEAN]
      BY <1>1, <2>1
    <2>4. txs \in [Actions -> {"none", "pending", "recent"}] /\ regReady \in BOOLEAN
          /\ regAt \in {"down", "idle", "query", "events", "sending", "info", "register", "relay", "end"}
      BY <1>1, RegNumbers
    <2> QED
      BY <1>2, <1>3, <2>1, <2>2, <2>3, <2>4 DEF RegistrationTypeOK, ChainState
  <1>5. DOMAIN log = {} /\ DOMAIN sends = {} /\ DOMAIN regTodo = {} /\ Len(log) = 0 /\ Len(regTodo) = 0
    BY <1>1
  <1>6. LeavesInTime
    <2>1. txs["managerToOwner"] = "none"
      BY <1>1 DEF Actions
    <2> QED
      BY <1>1, <1>3, <1>5, <2>1 DEF LeavesInTime
  <1>7. PlaceOfPass /\ LogIsOrdered
    BY <1>1, <1>2, <1>3, <1>5 DEF PlaceOfPass, LogIsOrdered, IsRegistered
  <1>8. RestOfEvents(0) /\ MemoryHolds(0)
    BY <1>1, <1>2, <1>3, <1>5 DEF RestOfEvents, MemoryHolds
  <1>9. 0 \in 0..Len(log)
    BY <1>5
  <1> QED
    BY <1>4, <1>6, <1>7, <1>8, <1>9 DEF RegistrationInv

\* Only withdrawAllFunds sends a balance to the owner.
LEMMA FundsLeave ==
    ASSUME RegistrationInv, [RegistrationNext]_registrationVars
    PROVE  FundsLeaveInTimeStep
  <1> SUFFICES ASSUME NEW b \in {"withdrawHub", "workerToOwner"}, txs[b] # "pending", txs'[b] = "pending"
               PROVE  FundsMayLeave
    BY RegTypes, LogTypes DEF FundsLeaveInTimeStep, FundsMayLeave
  <1>1. b \in Actions /\ b \notin {"setOwner", "authorizeHub", "addWorker", "register"} /\ txs' # txs
    BY DEF Actions
  <1>2. \A a \in Actions \ {b} : ~SendAction(a)
    BY <1>1, SendTypes
  <1>3. \A then : ~RefreshStake(then)
    BY <1>1, Refreshed
  <1>4. ~Throw
    BY <1>1 DEF Throw
  <1>5. CASE SendFunds
    <2>1. sends # <<>>
      BY <1>5 DEF SendFunds
    <2> QED
      BY <2>1, RegTypes DEF LeavesInTime
  <1>6. ASSUME NEW a \in Actions, MineAction(a) \/ ForgetAction(a) PROVE FALSE
    <2>1. \E v \in {"recent", "none"} : txs' = [txs EXCEPT ![a] = v]
      BY <1>6 DEF MineAction, ForgetAction
    <2>2. txs \in [Actions -> {"none", "pending", "recent"}]
      BY RegTypes
    <2> QED
      BY <1>1, <2>1, <2>2
  <1>7. {"setOwner", "addWorker", "register"} \subseteq Actions
    BY DEF Actions
  <1>8. ~QueryStakeEvents /\ ~RegisterRelayServer /\ ~AttemptRegistration
    BY <1>1, <1>2, <1>3, <1>4, <1>7 DEF QueryStakeEvents, RegisterRelayServer, AttemptRegistration
  <1>9. ~StartServer /\ ~HandleStakeEvent /\ ~RefreshFails
    BY <1>1, <1>3, <1>4 DEF StartServer, HandleStakeEvent, HandleHubAuthorized, HandleHubUnauthorized, HandleStake,
                            HandleStakeWithdrawn, RefreshFails
  <1>10. ~BeginRegPass /\ ~FundsSent /\ ~EventsHandled /\ ~RefreshInfo /\ ~EndRegPass
    BY <1>1 DEF BeginRegPass, FundsSent, EventsHandled, RefreshInfo, EndRegPass
  <1>11. ~Owner /\ ~RegTick /\ ~ServerCrash /\ ~UNCHANGED registrationVars
    BY <1>1 DEF Owner, FundManager, Stake, AuthorizeHub, UnauthorizeHub, UnlockStake, WithdrawStake, OwnerCall, RegTick,
                ServerCrash, registrationVars
  <1> QED
    BY <1>5, <1>6, <1>8, <1>9, <1>10, <1>11 DEF RegistrationNext, Server

\* What is remembered of handled events holds.
LEMMA RegistrationIsTrue ==
    RegistrationInv => RegistrationTypeOK /\ ManagerKeepsBalance /\ (PromptServer => ReadyIsStaked)
  <1> SUFFICES ASSUME RegistrationInv PROVE RegistrationTypeOK /\ ManagerKeepsBalance /\ (PromptServer => ReadyIsStaked)
    OBVIOUS
  <1>1. ManagerKeepsBalance
    BY RegTypes, LogTypes DEF LeavesInTime, StakeIsGone, ManagerKeepsBalance
  <1>2. ASSUME PromptServer, regAt = "idle", regScanned = Len(log), regReady
        PROVE  StakedOnHub /\ regChain.registered
    <2>1. mem.stakeLocked /\ mem.hubAuthorized /\ mem.info /\ regChain.registered
      BY <1>2, RegTypes DEF PlaceOfPass, IsRegistered
    <2>2. PICK f \in 0..Len(log) : RestOfEvents(f) /\ MemoryHolds(f)
      BY RegTypes
    <2>3. f = Len(log)
      BY <1>2, <2>2, RegTypes, LogTypes DEF RestOfEvents
    <2>4. \A kind : ~TakenBack(kind, f)
      BY <2>3, RegTypes, LogTypes DEF TakenBack
    <2> QED
      BY <1>2, <2>1, <2>2, <2>4 DEF MemoryHolds, StakedOnHub
  <1> QED
    BY <1>1, <1>2, RegTypes DEF ReadyIsStaked

\* What the server remembers of the events it handled holds on the chain, or was taken back
\* by a later event; what it is to send to the owner may leave.
THEOREM RegistrationInvariant == RegistrationSpec => []RegistrationInv
  BY RegistrationInitHolds, RegistrationNextKeeps, PTL DEF RegistrationSpec

-----------------------------------------------------------------------------
(* Balances                                                                *)

Working(p) == proc[p].at \notin {"idle", "done"}

\* Passes and requests wait for each other, and a request begins at a ready server.
OneByOneWorks ==
    /\ \A p, q \in Procs : p # q /\ Working(p) => ~Working(q)
    /\ \A p \in HttpRequests : Working(p) => balanceReady

\* A worker that is short is looked at again.
LowIsFlagged == cached.worker < WorkerMin => refresh

\* One refill is pending at most, and it leaves the manager its minimum.
OneRefill ==
    \A i \in DOMAIN balanceSent : balanceSent[i].kind = "refill" =>
        /\ balanceSent[i].amount + ManagerMin <= balanceChain.manager
        /\ \A j \in DOMAIN balanceSent \ {i} : balanceSent[j].kind # "refill"

\* What is known of the worker's balance counts what is pending: l is the pass.
WorkerIsKnown(l) ==
    /\ ~refresh => cached.worker = PendingWorker
    /\ l.at = "low" => l.worker = PendingWorker

\* A balance of the manager that a refill may be paid from is not more than it has.
ManagerIsKnown(l) ==
    recent["refill"] # "new" =>
        /\ l.at \in {"worker", "low"} => cached.manager <= balanceChain.manager
        /\ /\ cached.worker < WorkerMin
           /\ \/ l.at \in {"register", "hub", "decide", "withdraw", "eth", "refill"}
              \/ l.at = "idle" /\ balanceReady
           => cached.manager <= balanceChain.manager

\* What a replenishment read of the manager's balance, and that no refill is under way.
ReadOfManager(r) ==
    /\ r.at = "decide" /\ cached.worker < WorkerMin /\ recent["refill"] # "new" =>
         r.eth <= balanceChain.manager
    /\ r.at = "refill" => r.refilling /\ r.eth <= balanceChain.manager
    /\ r.at \in {"withdraw", "eth", "refill"} /\ r.refilling => ~PendingOrRecent({"refill"})

BalancesInv ==
    /\ BalancesTypeOK /\ relays * RelayCost <= balanceChain.worker
    /\ proc["loop"].at # "done" /\ LowIsFlagged
    /\ ~Overlap => /\ OneByOneWorks /\ OneRefill
                   /\ WorkerIsKnown(proc["loop"]) /\ ManagerIsKnown(proc["loop"])
                   /\ \A p \in Procs : ReadOfManager(proc[p])

SentTx == [kind : SentKinds, amount : Nat]
AmountsOf(s, kind) == [i \in DOMAIN s |-> IF s[i].kind = kind THEN s[i].amount ELSE 0]

\* What the pending transactions of a kind add up to, when there are none or one.
LEMMA AmountsAddUp ==
    ASSUME NEW s \in Seq(SentTx), NEW kind
    PROVE  /\ Total(AmountsOf(s, kind), DOMAIN s) \in Nat
           /\ (\A i \in DOMAIN s : s[i].kind # kind) => Total(AmountsOf(s, kind), DOMAIN s) = 0
           /\ \A j \in DOMAIN s :
                s[j].kind = kind /\ (\A i \in DOMAIN s \ {j} : s[i].kind # kind) =>
                  Total(AmountsOf(s, kind), DOMAIN s) = s[j].amount
  <1>1. DOMAIN s = 1..Len(s) /\ Len(s) \in Nat
    OBVIOUS
  <1>2. IsFiniteSet(DOMAIN s)
    BY <1>1, FS_Interval
  <1>3. \A i \in DOMAIN s : s[i] \in SentTx
    OBVIOUS
  <1>4. \A i \in DOMAIN s : AmountsOf(s, kind)[i] \in Nat
    BY <1>3 DEF AmountsOf, SentTx
  <1>5. Total(AmountsOf(s, kind), DOMAIN s) \in Nat
    BY <1>2, <1>4, TotalType
  <1>6. ASSUME \A i \in DOMAIN s : s[i].kind # kind
        PROVE  Total(AmountsOf(s, kind), DOMAIN s) = 0
    <2>1. \A i \in DOMAIN s : AmountsOf(s, kind)[i] = 0
      BY <1>6 DEF AmountsOf
    <2> QED
      BY <1>2, <1>4, <2>1, TotalZero
  <1>7. ASSUME NEW j \in DOMAIN s, s[j].kind = kind, \A i \in DOMAIN s \ {j} : s[i].kind # kind
        PROVE  Total(AmountsOf(s, kind), DOMAIN s) = s[j].amount
    <2>1. AmountsOf(s, kind)[j] = s[j].amount /\ \A i \in DOMAIN s \ {j} : AmountsOf(s, kind)[i] = 0
      BY <1>7 DEF AmountsOf
    <2> QED
      BY <1>2, <1>4, <2>1, TotalSingle
  <1> QED
    BY <1>5, <1>6, <1>7

LEMMA BalanceNumbers ==
    /\ ManagerMin \in Nat /\ ManagerTarget \in Nat /\ WorkerMin \in Nat /\ WorkerTarget \in Nat
    /\ Surplus \in Nat /\ RelayCost \in Nat /\ MaxSent \in Nat /\ WorkerMin <= WorkerTarget /\ Surplus > ManagerTarget + WorkerTarget
  BY BalancesAssumption

LEMMA BalanceTypes ==
    ASSUME BalancesTypeOK
    PROVE  /\ balanceChain \in [manager : Nat, worker : Nat, hub : Nat]
           /\ balanceChain.manager \in Nat /\ balanceChain.worker \in Nat /\ balanceChain.hub \in Nat
           /\ balanceSent \in Seq(SentTx) /\ relays \in Nat /\ recent \in [SentKinds -> {"no", "new", "old"}]
           /\ cached \in [manager : Nat, worker : Nat] /\ cached.manager \in Nat /\ cached.worker \in Nat
           /\ proc \in [Procs -> ProcState] /\ \A p \in Procs : proc[p] \in ProcState
  BY DEF BalancesTypeOK, SentTx

\* The transaction that is mined is no longer pending.
LEMMA PendingAfterMining ==
    ASSUME BalancesTypeOK, OneRefill, balanceSent # <<>>, balanceSent' = Tail(balanceSent)
    PROVE  PendingTotal("refill")' = PendingTotal("refill")
              - (IF Head(balanceSent).kind = "refill" THEN Head(balanceSent).amount ELSE 0)
  <1> DEFINE s == balanceSent
             t == balanceSent'
  <1>1. s \in Seq(SentTx) /\ t \in Seq(SentTx) /\ Len(s) \in Nat /\ Len(s) > 0 /\ Len(t) = Len(s) - 1
    BY BalanceTypes
  <1>2. DOMAIN t = 1..Len(s) - 1 /\ DOMAIN s = 1..Len(s) /\ Head(s) = s[1] /\ \A i \in DOMAIN t : t[i] = s[i + 1]
    BY <1>1
  <1>3. /\ PendingTotal("refill") = Total(AmountsOf(s, "refill"), DOMAIN s)
        /\ PendingTotal("refill")' = Total(AmountsOf(t, "refill"), DOMAIN t)
    BY DEF PendingTotal, AmountsOf
  <1>4. \A i \in DOMAIN s : s[i].kind = "refill" => \A j \in DOMAIN s \ {i} : s[j].kind # "refill"
    BY DEF OneRefill
  <1>5. \A i \in DOMAIN s : s[i].amount \in Nat
    <2>1. \A i \in DOMAIN s : s[i] \in SentTx
      BY <1>1
    <2> QED
      BY <2>1 DEF SentTx
  <1> HIDE DEF s, t
  <1>6. CASE s[1].kind = "refill"
    <2>1. \A i \in DOMAIN t : t[i].kind # "refill"
      BY <1>1, <1>2, <1>4, <1>6
    <2>2. Total(AmountsOf(t, "refill"), DOMAIN t) = 0
      BY <1>1, <2>1, AmountsAddUp
    <2>3. 1 \in DOMAIN s
      BY <1>1, <1>2
    <2>4. Total(AmountsOf(s, "refill"), DOMAIN s) = s[1].amount
      BY <1>1, <1>4, <1>6, <2>3, AmountsAddUp
    <2> QED
      BY <1>2, <1>3, <1>5, <1>6, <2>2, <2>3, <2>4 DEF s
  <1>7. CASE s[1].kind # "refill" /\ \E i \in DOMAIN t : t[i].kind = "refill"
    <2>1. PICK i \in DOMAIN t : t[i].kind = "refill"
      BY <1>7
    <2>2. i + 1 \in DOMAIN s /\ t[i] = s[i + 1] /\ s[i + 1].amount \in Nat
      BY <1>1, <1>2, <1>5
    <2>3. \A j \in DOMAIN t \ {i} : t[j].kind # "refill"
      BY <1>1, <1>2, <1>4, <2>1, <2>2
    <2>4. Total(AmountsOf(t, "refill"), DOMAIN t) = t[i].amount
      BY <1>1, <2>1, <2>3, AmountsAddUp
    <2>5. Total(AmountsOf(s, "refill"), DOMAIN s) = s[i + 1].amount
      BY <1>1, <1>4, <2>1, <2>2, AmountsAddUp
    <2> QED
      BY <1>2, <1>3, <1>7, <2>2, <2>4, <2>5 DEF s
  <1>8. CASE s[1].kind # "refill" /\ \A i \in DOMAIN t : t[i].kind # "refill"
    <2>1. \A i \in DOMAIN s : s[i].kind # "refill"
      <3> SUFFICES ASSUME NEW i \in DOMAIN s, s[i].kind = "refill" PROVE FALSE
        OBVIOUS
      <3>1. i # 1 /\ i - 1 \in DOMAIN t
        BY <1>1, <1>2, <1>8
      <3>2. t[i - 1] = s[i]
        BY <1>1, <1>2, <3>1
      <3> QED
        BY <1>8, <3>1, <3>2
    <2>2. Total(AmountsOf(s, "refill"), DOMAIN s) = 0 /\ Total(AmountsOf(t, "refill"), DOMAIN t) = 0
      BY <1>1, <1>8, <2>1, AmountsAddUp
    <2> QED
      BY <1>2, <1>3, <1>8, <2>2 DEF s
  <1> QED
    BY <1>6, <1>7, <1>8

\* One process moves on.
LEMMA ProcMoves ==
    ASSUME BalancesInv, NEW p \in Procs, NEW r \in ProcState, proc' = [proc EXCEPT ![p] = r],
           p = "loop" => r.at # "done",
           balanceChain' \in [manager : Nat, worker : Nat, hub : Nat],
           balanceSent' \in Seq(SentTx), Len(balanceSent') <= MaxSent, relays' \in Nat,
           recent' \in [SentKinds -> {"no", "new", "old"}], cached' \in [manager : Nat, worker : Nat],
           refresh' \in BOOLEAN, balanceReady' \in BOOLEAN,
           relays' * RelayCost <= balanceChain'.worker, LowIsFlagged',
           ~Overlap => /\ Working(p) \/ \A q \in Procs \ {p} : ~Working(q)
                       /\ p # "loop" => r.at = "done" \/ balanceReady'
                       /\ OneRefill' /\ ReadOfManager(r)'
                       /\ p = "loop" => WorkerIsKnown(r)' /\ ManagerIsKnown(r)'
                       /\ p # "loop" => WorkerIsKnown(proc["loop"])' /\ ManagerIsKnown(proc["loop"])'
    PROVE  BalancesInv'
  <1>1. proc'[p] = r /\ (\A q \in Procs \ {p} : proc'[q] = proc[q]) /\ "loop" \in Procs
    BY DEF BalancesInv, BalancesTypeOK, Procs
  <1>2. BalancesTypeOK'
    <2>1. proc' \in [Procs -> ProcState]
      BY DEF BalancesInv, BalancesTypeOK
    <2> QED
      BY <2>1 DEF BalancesTypeOK, SentTx
  <1>3. proc'["loop"].at # "done"
    BY <1>1 DEF BalancesInv
  <1>4. ASSUME ~Overlap
        PROVE  /\ OneByOneWorks' /\ WorkerIsKnown(proc["loop"])' /\ ManagerIsKnown(proc["loop"])'
               /\ \A q \in Procs : ReadOfManager(proc[q])'
    <2>1. \A q \in Procs \ {p} : ~Working(q)
      BY <1>4 DEF BalancesInv, OneByOneWorks
    <2>2. \A q \in Procs \ {p} : ~Working(q)' /\ proc'[q].at \in {"idle", "done"}
      BY <1>1, <2>1 DEF Working
    <2>3. OneByOneWorks'
      <3>1. \A q, o \in Procs : q # o /\ Working(q)' => ~Working(o)'
        BY <2>2
      <3>2. ASSUME NEW q \in HttpRequests, Working(q)' PROVE balanceReady'
        <4>1. q = p /\ q # "loop"
          BY <2>2, <3>2, BalancesAssumption DEF Procs
        <4> QED
          BY <1>1, <1>4, <3>2, <4>1 DEF Working
      <3> QED
        BY <3>1, <3>2 DEF OneByOneWorks
    <2>4. WorkerIsKnown(proc["loop"])' /\ ManagerIsKnown(proc["loop"])'
      <3>1. CASE p = "loop"
        BY <1>1, <1>4, <3>1 DEF WorkerIsKnown, ManagerIsKnown
      <3>2. CASE p # "loop"
        BY <1>4, <3>2
      <3> QED
        BY <3>1, <3>2
    <2>5. ASSUME NEW q \in Procs PROVE ReadOfManager(proc[q])'
      <3>1. CASE q = p
        BY <1>1, <1>4, <3>1 DEF ReadOfManager
      <3>2. CASE q # p
        <4>1. proc'[q].at \in {"idle", "done"}
          BY <2>2, <3>2
        <4> QED
          BY <4>1 DEF ReadOfManager
      <3> QED
        BY <3>1, <3>2
    <2> QED
      BY <2>3, <2>4, <2>5
  <1> QED
    BY <1>2, <1>3, <1>4 DEF BalancesInv

\* What a process at work knows of the others.
LEMMA AtWork ==
    ASSUME BalancesInv, ~Overlap, NEW p \in Procs
    PROVE  /\ ReadOfManager(proc[p]) /\ OneRefill
           /\ WorkerIsKnown(proc["loop"]) /\ ManagerIsKnown(proc["loop"])
           /\ Working(p) /\ p # "loop" => balanceReady /\ proc["loop"].at = "idle"
  <1>1. Working(p) /\ p # "loop" => balanceReady /\ ~Working("loop")
    BY DEF BalancesInv, OneByOneWorks, Procs
  <1> QED
    BY <1>1 DEF BalancesInv, Working

\* The transaction that is sent comes last.
LEMMA SentLast ==
    ASSUME BalancesTypeOK, NEW kind \in SentKinds, NEW amount \in Nat, SendTransaction(kind, amount)
    PROVE  /\ balanceSent' \in Seq(SentTx) /\ Len(balanceSent') <= MaxSent /\ refresh'
           /\ DOMAIN balanceSent' = 1..Len(balanceSent) + 1 /\ Len(balanceSent') = Len(balanceSent) + 1
           /\ \A i \in DOMAIN balanceSent : balanceSent'[i] = balanceSent[i]
           /\ balanceSent'[Len(balanceSent) + 1] = [kind |-> kind, amount |-> amount]
           /\ Len(balanceSent) \in Nat /\ DOMAIN balanceSent = 1..Len(balanceSent)
  <1>1. balanceSent \in Seq(SentTx) /\ [kind |-> kind, amount |-> amount] \in SentTx
    BY DEF BalancesTypeOK, SentTx
  <1>2. Len(balanceSent) < MaxSent /\ balanceSent' = Append(balanceSent, [kind |-> kind, amount |-> amount]) /\ refresh'
    BY DEF SendTransaction
  <1>3. Len(balanceSent) + 1 <= MaxSent
    BY <1>1, <1>2, BalanceNumbers
  <1> HIDE DEF SentTx
  <1> QED
    BY <1>1, <1>2, <1>3, AppendProperties, LenProperties

\* The pass begins.
LEMMA BeginKeeps == ASSUME BalancesInv, BeginBalancePass PROVE BalancesInv'
  <1> USE DEF SentTx
  <1> DEFINE r == [IdleProc EXCEPT !.at = "toOwner"]
  <1>1. BalancesTypeOK /\ "loop" \in Procs
    BY DEF BalancesInv, Procs
  <1>2. r \in ProcState /\ r.at = "toOwner"
    BY DEF IdleProc, ProcState
  <1>3. UNCHANGED <<balanceChain, balanceSent, relays, cached, refresh, balanceReady>>
    BY DEF BeginBalancePass
  <1>4. recent' \in [SentKinds -> {"no", "new", "old"}]
    BY <1>1, BalanceTypes DEF BeginBalancePass
  <1>5. proc' = [proc EXCEPT !["loop"] = r]
    BY DEF BeginBalancePass
  <1>6. ~Overlap => \A q \in Procs \ {"loop"} : ~Working(q)
    BY DEF BeginBalancePass, Free, Working
  <1>7. ~Overlap => WorkerIsKnown(r)' /\ ManagerIsKnown(r)' /\ ReadOfManager(r)' /\ OneRefill'
    <2>1. ~Overlap => WorkerIsKnown(proc["loop"]) /\ OneRefill
      BY <1>1, AtWork
    <2>2. PendingWorker' = PendingWorker
      BY <1>3 DEF PendingWorker, PendingTotal
    <2> QED
      BY <1>2, <1>3, <2>1, <2>2 DEF WorkerIsKnown, ManagerIsKnown, ReadOfManager, OneRefill
  <1> HIDE DEF r
  <1> QED
    BY <1>1, <1>2, <1>3, <1>4, <1>5, <1>6, <1>7, ProcMoves, BalanceTypes DEF BalancesInv, BalancesTypeOK, LowIsFlagged

\* A step of the pass, or of a request, that sends nothing, and leaves the chain alone.
LEMMA QuietMoves ==
    ASSUME BalancesInv, NEW p \in Procs, Working(p), NEW r \in ProcState, proc' = [proc EXCEPT ![p] = r],
           p = "loop" => r.at # "done", p # "loop" => r.at # "idle",
           UNCHANGED <<balanceChain, balanceSent, relays, recent>>,
           cached' \in [manager : Nat, worker : Nat], refresh' \in BOOLEAN, balanceReady' \in BOOLEAN,
           p # "loop" => UNCHANGED <<refresh, balanceReady>> /\ cached'.worker = cached.worker
                         /\ cached'.manager \in {cached.manager, balanceChain.manager},
           LowIsFlagged',
           ~Overlap => /\ ReadOfManager(r)'
                       /\ p = "loop" => WorkerIsKnown(r)' /\ ManagerIsKnown(r)'
    PROVE  BalancesInv'
  <1>1. BalancesTypeOK
    BY DEF BalancesInv
  <1>2. PendingWorker' = PendingWorker
    BY DEF PendingWorker, PendingTotal
  <1>3. ~Overlap => OneRefill'
    BY AtWork DEF OneRefill
  <1>4. ASSUME ~Overlap, p # "loop" PROVE balanceReady' /\ WorkerIsKnown(proc["loop"])' /\ ManagerIsKnown(proc["loop"])'
    <2>1. /\ WorkerIsKnown(proc["loop"]) /\ ManagerIsKnown(proc["loop"])
          /\ balanceReady /\ proc["loop"].at = "idle"
      BY <1>4, AtWork
    <2>2. proc'["loop"] = proc["loop"]
      BY <1>1, <1>4 DEF BalancesTypeOK, Procs
    <2>3. balanceChain.manager \in Nat
      BY <1>1, BalanceTypes
    <2> QED
      BY <1>2, <1>4, <2>1, <2>2, <2>3 DEF WorkerIsKnown, ManagerIsKnown
  <1>5. relays' * RelayCost <= balanceChain'.worker
    BY DEF BalancesInv
  <1> QED
    BY <1>1, <1>3, <1>4, <1>5, ProcMoves, BalanceTypes DEF BalancesTypeOK

\* Who is at a place other than the first and the last is at work.
LEMMA RefreshManagerKeeps == ASSUME BalancesInv, RefreshManager PROVE BalancesInv'
  <1>1. BalancesTypeOK /\ "loop" \in Procs /\ proc["loop"].at = "manager" /\ Working("loop")
    BY DEF BalancesInv, Procs, RefreshManager, Working
  <1>2. PICK r : r = [proc["loop"] EXCEPT !.at = IF refresh THEN "worker" ELSE AfterRefresh(TRUE)]
    OBVIOUS
  <1>3. AfterRefresh(TRUE) \in {"idle", "register"}
    BY DEF AfterRefresh
  <1>4. proc["loop"] \in ProcState
    BY <1>1, BalanceTypes
  <1>5. r \in ProcState /\ r.at = IF refresh THEN "worker" ELSE AfterRefresh(TRUE)
    BY <1>2, <1>3, <1>4 DEF ProcState
  <1>6. proc' = [proc EXCEPT !["loop"] = r]
    BY <1>1, <1>2, BalanceTypes DEF RefreshManager, GoTo
  <1>7. /\ UNCHANGED <<balanceChain, balanceSent, relays, recent, refresh>>
        /\ cached'.worker = cached.worker
        /\ refresh => cached'.manager = balanceChain.manager
        /\ ~refresh => cached' = cached
    BY <1>1, BalanceTypes DEF RefreshManager
  <1>8. cached' \in [manager : Nat, worker : Nat]
    BY <1>1, BalanceTypes DEF RefreshManager
  <1>9. balanceReady' \in BOOLEAN
    BY <1>1 DEF RefreshManager, BalancesTypeOK
  <1>10. LowIsFlagged /\ LowIsFlagged'
    BY <1>7 DEF BalancesInv, LowIsFlagged
  <1>11. ASSUME ~Overlap PROVE ReadOfManager(r)' /\ WorkerIsKnown(r)' /\ ManagerIsKnown(r)'
    <2>1. WorkerIsKnown(proc["loop"])
      BY <1>1, <1>11, AtWork
    <2>2. PendingWorker' = PendingWorker
      BY <1>7 DEF PendingWorker, PendingTotal
    <2>3. r.at \in {"worker", "idle", "register"} /\ (r.at # "worker" => ~refresh)
      BY <1>3, <1>5
    <2>4. ReadOfManager(r)'
      BY <2>3 DEF ReadOfManager
    <2>5. WorkerIsKnown(r)'
      BY <1>7, <2>1, <2>2, <2>3 DEF WorkerIsKnown
    <2>6. ManagerIsKnown(r)'
      <3>1. balanceChain.manager \in Nat
        BY <1>1, BalanceTypes
      <3>2. CASE refresh
        <4>1. r.at = "worker" /\ cached'.manager <= balanceChain'.manager
          BY <1>5, <1>7, <3>1, <3>2
        <4> QED
          BY <4>1 DEF ManagerIsKnown
      <3>3. CASE ~refresh
        <4>1. ~(cached.worker < WorkerMin)
          BY <1>10, <3>3 DEF LowIsFlagged
        <4>2. r.at \in {"idle", "register"}
          BY <1>3, <1>5, <3>3
        <4> QED
          BY <1>7, <4>1, <4>2 DEF ManagerIsKnown
      <3> QED
        BY <3>2, <3>3
    <2> QED
      BY <2>4, <2>5, <2>6
  <1>12. r.at # "done"
    BY <1>3, <1>5
  <1> QED
    BY <1>1, <1>5, <1>6, <1>7, <1>8, <1>9, <1>10, <1>11, <1>12, QuietMoves DEF BalancesTypeOK

LEMMA RefreshWorkerKeeps == ASSUME BalancesInv, RefreshWorker PROVE BalancesInv'
  <1>1. BalancesTypeOK /\ "loop" \in Procs /\ proc["loop"].at = "worker" /\ Working("loop")
    BY DEF BalancesInv, Procs, RefreshWorker, Working
  <1>2. PICK r : r = [proc["loop"] EXCEPT !.at = "low", !.worker = PendingWorker]
    OBVIOUS
  <1>3. proc["loop"] \in ProcState
    BY <1>1, BalanceTypes
  <1>4. PendingWorker \in Nat
    <2>1. PendingTotal("refill") = Total(AmountsOf(balanceSent, "refill"), DOMAIN balanceSent)
      BY DEF PendingTotal, AmountsOf
    <2>2. PendingTotal("refill") \in Nat
      BY <1>1, <2>1, BalanceTypes, AmountsAddUp
    <2>3. balanceChain.worker \in Nat /\ relays * RelayCost \in Nat /\ relays * RelayCost <= balanceChain.worker
      BY <1>1, BalanceTypes, BalanceNumbers DEF BalancesInv
    <2> QED
      BY <2>2, <2>3 DEF PendingWorker
  <1>5. r \in ProcState /\ r.at = "low" /\ r.worker = PendingWorker
    BY <1>2, <1>3, <1>4 DEF ProcState
  <1>6. proc' = [proc EXCEPT !["loop"] = r]
    BY <1>1, <1>2, BalanceTypes DEF RefreshWorker
  <1>7. UNCHANGED <<balanceChain, balanceSent, relays, recent, cached, refresh, balanceReady>>
    BY DEF RefreshWorker
  <1>8. LowIsFlagged'
    BY <1>7 DEF BalancesInv, LowIsFlagged
  <1>9. ASSUME ~Overlap PROVE ReadOfManager(r)' /\ WorkerIsKnown(r)' /\ ManagerIsKnown(r)'
    <2>1. WorkerIsKnown(proc["loop"]) /\ ManagerIsKnown(proc["loop"])
      BY <1>1, <1>9, AtWork
    <2>2. PendingWorker' = PendingWorker
      BY <1>7 DEF PendingWorker, PendingTotal
    <2> QED
      BY <1>1, <1>5, <1>7, <2>1, <2>2 DEF ReadOfManager, WorkerIsKnown, ManagerIsKnown
  <1> QED
    BY <1>1, <1>5, <1>6, <1>7, <1>8, <1>9, QuietMoves DEF BalancesTypeOK

LEMMA CheckBalancesKeeps == ASSUME BalancesInv, CheckBalances PROVE BalancesInv'
  <1>1. BalancesTypeOK /\ "loop" \in Procs /\ proc["loop"].at = "low" /\ Working("loop")
    BY DEF BalancesInv, Procs, CheckBalances, Working
  <1> DEFINE worker == proc["loop"].worker
             place == AfterRefresh(cached.manager >= ManagerMin \div 2)
  <1>2. PICK r : r = [proc["loop"] EXCEPT !.at = place]
    OBVIOUS
  <1>3. place \in {"idle", "register"}
    BY DEF AfterRefresh
  <1>4. proc["loop"] \in ProcState
    BY <1>1, BalanceTypes
  <1>5. worker \in Nat
    BY <1>4 DEF ProcState
  <1>6. proc' = [proc EXCEPT !["loop"] = r]
    BY <1>1, <1>2, BalanceTypes DEF CheckBalances, GoTo
  <1>7. UNCHANGED <<balanceChain, balanceSent, relays, recent>>
    BY DEF CheckBalances
  <1>8. cached' = [cached EXCEPT !.worker = worker] /\ refresh' = StillLow(worker)
    BY DEF CheckBalances
  <1> HIDE DEF place, worker
  <1>9. r \in ProcState /\ r.at \in {"idle", "register"}
    BY <1>2, <1>3, <1>4 DEF ProcState
  <1>10. cached' \in [manager : Nat, worker : Nat] /\ cached'.worker = worker /\ cached'.manager = cached.manager
    BY <1>1, <1>5, <1>8, BalanceTypes
  <1>11. refresh' \in BOOLEAN
    BY <1>8 DEF StillLow
  <1>12. balanceReady' \in BOOLEAN
    <2>1. proc["loop"].last \in BOOLEAN
      BY <1>4 DEF ProcState
    <2> QED
      BY <2>1 DEF CheckBalances
  <1>13. LowIsFlagged'
    BY <1>8, <1>10 DEF LowIsFlagged, StillLow
  <1>14. ASSUME ~Overlap PROVE ReadOfManager(r)' /\ WorkerIsKnown(r)' /\ ManagerIsKnown(r)'
    <2>1. WorkerIsKnown(proc["loop"]) /\ ManagerIsKnown(proc["loop"])
      BY <1>1, <1>14, AtWork
    <2>2. PendingWorker' = PendingWorker
      BY <1>7 DEF PendingWorker, PendingTotal
    <2>3. worker = PendingWorker
      BY <1>1, <2>1 DEF WorkerIsKnown, worker
    <2> QED
      BY <1>1, <1>7, <1>9, <1>10, <2>1, <2>2, <2>3 DEF ReadOfManager, WorkerIsKnown, ManagerIsKnown
  <1> QED
    BY <1>1, <1>6, <1>7, <1>9, <1>10, <1>11, <1>12, <1>13, <1>14, QuietMoves

LEMMA RegisteredKeeps == ASSUME BalancesInv, Registered PROVE BalancesInv'
  <1>1. BalancesTypeOK /\ "loop" \in Procs /\ proc["loop"].at = "register" /\ Working("loop")
    BY DEF BalancesInv, Procs, Registered, Working
  <1>2. PICK r : r = [proc["loop"] EXCEPT !.at = "hub", !.last = TRUE]
    OBVIOUS
  <1>3. proc["loop"] \in ProcState
    BY <1>1, BalanceTypes
  <1>4. r \in ProcState /\ r.at = "hub"
    BY <1>2, <1>3 DEF ProcState
  <1>5. proc' = [proc EXCEPT !["loop"] = r]
    BY <1>1, <1>2, BalanceTypes DEF Registered
  <1>6. UNCHANGED <<balanceChain, balanceSent, relays, recent, cached, refresh, balanceReady>>
    BY DEF Registered
  <1>7. LowIsFlagged'
    BY <1>6 DEF BalancesInv, LowIsFlagged
  <1>8. ASSUME ~Overlap PROVE ReadOfManager(r)' /\ WorkerIsKnown(r)' /\ ManagerIsKnown(r)'
    <2>1. WorkerIsKnown(proc["loop"]) /\ ManagerIsKnown(proc["loop"])
      BY <1>1, <1>8, AtWork
    <2>2. PendingWorker' = PendingWorker
      BY <1>6 DEF PendingWorker, PendingTotal
    <2> QED
      BY <1>1, <1>4, <1>6, <2>1, <2>2 DEF ReadOfManager, WorkerIsKnown, ManagerIsKnown
  <1> QED
    BY <1>1, <1>4, <1>5, <1>6, <1>7, <1>8, QuietMoves DEF BalancesTypeOK

LEMMA ReadHubKeeps == ASSUME BalancesInv, NEW p \in Procs, ReadHub(p) PROVE BalancesInv'
  <1>1. BalancesTypeOK /\ proc[p].at = "hub" /\ Working(p)
    BY DEF BalancesInv, ReadHub, Working
  <1>2. PICK r : r = [proc[p] EXCEPT !.at = "decide", !.eth = cached.manager, !.hub = balanceChain.hub]
    OBVIOUS
  <1>3. proc[p] \in ProcState /\ cached.manager \in Nat /\ balanceChain.hub \in Nat
    BY <1>1, BalanceTypes
  <1>4. r \in ProcState /\ r.at = "decide" /\ r.eth = cached.manager
    BY <1>2, <1>3 DEF ProcState
  <1>5. proc' = [proc EXCEPT ![p] = r]
    BY <1>1, <1>2, BalanceTypes DEF ReadHub
  <1>6. UNCHANGED <<balanceChain, balanceSent, relays, recent, cached, refresh, balanceReady>>
    BY DEF ReadHub
  <1>7. LowIsFlagged'
    BY <1>6 DEF BalancesInv, LowIsFlagged
  <1>8. ASSUME ~Overlap PROVE ReadOfManager(r)' /\ (p = "loop" => WorkerIsKnown(r)' /\ ManagerIsKnown(r)')
    <2>1. WorkerIsKnown(proc["loop"]) /\ ManagerIsKnown(proc["loop"])
      BY <1>1, <1>8, AtWork
    <2>2. p # "loop" => balanceReady /\ proc["loop"].at = "idle"
      BY <1>1, <1>8, AtWork
    <2>3. PendingWorker' = PendingWorker
      BY <1>6 DEF PendingWorker, PendingTotal
    <2>4. cached.worker < WorkerMin /\ recent["refill"] # "new" => cached.manager <= balanceChain.manager
      BY <1>1, <2>1, <2>2 DEF ManagerIsKnown
    <2> QED
      BY <1>1, <1>4, <1>6, <2>1, <2>3, <2>4 DEF ReadOfManager, WorkerIsKnown, ManagerIsKnown
  <1> QED
    BY <1>1, <1>4, <1>5, <1>6, <1>7, <1>8, QuietMoves DEF BalancesTypeOK

LEMMA DecideKeeps == ASSUME BalancesInv, NEW p \in Procs, Decide(p) PROVE BalancesInv'
  <1>1. BalancesTypeOK /\ proc[p].at = "decide" /\ Working(p)
    BY DEF BalancesInv, Decide, Working
  <1> DEFINE place == IF MustWithdraw(p) THEN "withdraw" ELSE IF MustRefill THEN "refill" ELSE Replenished(p)
             sum == IF MustRefill THEN RefillAmount ELSE 0
             must == MustRefill
  <1>2. PICK r : r = [proc[p] EXCEPT !.refilling = must, !.amount = sum, !.at = place]
    OBVIOUS
  <1>3. proc[p] \in ProcState /\ must \in BOOLEAN
    BY <1>1, BalanceTypes DEF MustRefill
  <1>4. sum \in Nat
    <2>1. cached.worker \in Nat /\ WorkerTarget \in Nat /\ WorkerMin \in Nat /\ WorkerMin <= WorkerTarget
      BY <1>1, BalanceTypes, BalanceNumbers
    <2> QED
      BY <2>1 DEF MustRefill, RefillAmount
  <1>5. /\ place \in {"withdraw", "refill", "manager", "done"}
        /\ place = "refill" => MustRefill
        /\ p = "loop" => place # "done"
    BY DEF Replenished
  <1>6. proc' = [proc EXCEPT ![p].refilling = must, ![p].amount = sum, ![p].at = place]
    BY DEF Decide
  <1> HIDE DEF place, sum, must
  <1>7. proc' = [proc EXCEPT ![p] = r]
    BY <1>1, <1>2, <1>6, BalanceTypes
  <1>8. r \in ProcState /\ r.at = place /\ r.refilling = must /\ r.eth = proc[p].eth
    BY <1>2, <1>3, <1>4, <1>5 DEF ProcState
  <1>9. UNCHANGED <<balanceChain, balanceSent, relays, recent, cached, refresh, balanceReady>>
    BY DEF Decide
  <1>10. LowIsFlagged'
    BY <1>9 DEF BalancesInv, LowIsFlagged
  <1>11. PendingOrRecent({"refill"})' = PendingOrRecent({"refill"}) /\ PendingWorker' = PendingWorker
    BY <1>9 DEF PendingOrRecent, PendingWorker, PendingTotal
  <1>12. ASSUME ~Overlap PROVE ReadOfManager(r)' /\ (p = "loop" => WorkerIsKnown(r)' /\ ManagerIsKnown(r)')
    <2>1. WorkerIsKnown(proc["loop"]) /\ ManagerIsKnown(proc["loop"]) /\ ReadOfManager(proc[p])
      BY <1>1, <1>12, AtWork
    <2>2. MustRefill => /\ ~PendingOrRecent({"refill"}) /\ recent["refill"] = "no"
                        /\ proc[p].eth <= balanceChain.manager
      <3>1. MustRefill => cached.worker < WorkerMin /\ ~PendingOrRecent({"refill"})
        BY DEF MustRefill
      <3>2. ~PendingOrRecent({"refill"}) => recent["refill"] = "no"
        BY DEF PendingOrRecent
      <3> QED
        BY <1>1, <2>1, <3>1, <3>2 DEF ReadOfManager
    <2>3. ReadOfManager(r)'
      BY <1>5, <1>8, <1>9, <1>11, <2>2 DEF ReadOfManager, must
    <2>4. WorkerIsKnown(r)'
      BY <1>5, <1>8, <1>9, <1>11, <2>1 DEF WorkerIsKnown
    <2>5. p = "loop" => ManagerIsKnown(r)'
      BY <1>1, <1>5, <1>8, <1>9, <2>1 DEF ManagerIsKnown
    <2> QED
      BY <2>3, <2>4, <2>5
  <1>13. (p = "loop" => r.at # "done") /\ (p # "loop" => r.at # "idle")
    BY <1>5, <1>8
  <1> QED
    BY <1>1, <1>7, <1>8, <1>9, <1>10, <1>12, <1>13, QuietMoves DEF BalancesTypeOK

LEMMA RefreshEthKeeps == ASSUME BalancesInv, NEW p \in Procs, RefreshEth(p) PROVE BalancesInv'
  <1>1. BalancesTypeOK /\ proc[p].at = "eth" /\ Working(p)
    BY DEF BalancesInv, RefreshEth, Working
  <1> DEFINE place == IF proc[p].refilling THEN "refill" ELSE Replenished(p)
  <1>2. PICK r : r = [proc[p] EXCEPT !.eth = balanceChain.manager, !.at = place]
    OBVIOUS
  <1>3. proc[p] \in ProcState /\ balanceChain.manager \in Nat /\ cached \in [manager : Nat, worker : Nat]
    BY <1>1, BalanceTypes
  <1>4. /\ place \in {"refill", "manager", "done"} /\ (place = "refill" => proc[p].refilling)
        /\ p = "loop" => place # "done"
    BY DEF Replenished
  <1>5. proc' = [proc EXCEPT ![p].eth = balanceChain.manager, ![p].at = place]
    BY DEF RefreshEth
  <1> HIDE DEF place
  <1>6. proc' = [proc EXCEPT ![p] = r]
    BY <1>1, <1>2, <1>5, BalanceTypes
  <1>7. r \in ProcState /\ r.at = place /\ r.refilling = proc[p].refilling /\ r.eth = balanceChain.manager
    BY <1>2, <1>3, <1>4 DEF ProcState
  <1>8. /\ UNCHANGED <<balanceChain, balanceSent, relays, recent, refresh, balanceReady>>
        /\ cached' \in [manager : Nat, worker : Nat]
        /\ cached'.manager = balanceChain.manager /\ cached'.worker = cached.worker
    BY <1>3 DEF RefreshEth
  <1>9. LowIsFlagged'
    BY <1>8 DEF BalancesInv, LowIsFlagged
  <1>10. PendingOrRecent({"refill"})' = PendingOrRecent({"refill"}) /\ PendingWorker' = PendingWorker
    BY <1>8 DEF PendingOrRecent, PendingWorker, PendingTotal
  <1>11. ASSUME ~Overlap PROVE ReadOfManager(r)' /\ (p = "loop" => WorkerIsKnown(r)' /\ ManagerIsKnown(r)')
    <2>1. WorkerIsKnown(proc["loop"]) /\ ManagerIsKnown(proc["loop"]) /\ ReadOfManager(proc[p])
      BY <1>1, <1>11, AtWork
    <2>2. ReadOfManager(r)'
      BY <1>1, <1>3, <1>4, <1>7, <1>8, <1>10, <2>1 DEF ReadOfManager
    <2>3. WorkerIsKnown(r)'
      BY <1>4, <1>7, <1>8, <1>10, <2>1 DEF WorkerIsKnown
    <2>4. ManagerIsKnown(r)'
      BY <1>3, <1>8 DEF ManagerIsKnown
    <2> QED
      BY <2>2, <2>3, <2>4
  <1>12. (p = "loop" => r.at # "done") /\ (p # "loop" => r.at # "idle")
    BY <1>4, <1>7
  <1> QED
    BY <1>1, <1>3, <1>6, <1>7, <1>8, <1>9, <1>11, <1>12, QuietMoves DEF BalancesTypeOK

\* A step that sends a transaction, or not, and leaves what is known to the next refresh.
LEMMA SendMoves ==
    ASSUME BalancesInv, NEW p \in Procs, Working(p), NEW place, proc' = [proc EXCEPT ![p].at = place],
           p = "loop" => place \in {"manager", "eth"}, p # "loop" => place \in {"done", "eth"},
           UNCHANGED <<balanceChain, relays, recent, cached, balanceReady>>,
           place = "eth" => proc[p].at = "withdraw",
           \/ UNCHANGED <<balanceSent, refresh>>
           \/ \E kind \in SentKinds, amount \in Nat :
                /\ SendTransaction(kind, amount)
                /\ kind = "refill" =>
                     /\ place # "eth"
                     /\ ~Overlap => ~PendingOrRecent({"refill"}) /\ amount + ManagerMin <= balanceChain.manager
    PROVE  BalancesInv'
  <1>1. BalancesTypeOK
    BY DEF BalancesInv
  <1>2. PICK r : r = [proc[p] EXCEPT !.at = place]
    OBVIOUS
  <1>3. proc[p] \in ProcState
    BY <1>1, BalanceTypes
  <1>4. place \in {"manager", "done", "eth"}
    OBVIOUS
  <1>5. r \in ProcState /\ r.at = place /\ r.refilling = proc[p].refilling
    BY <1>2, <1>3, <1>4 DEF ProcState
  <1>6. proc' = [proc EXCEPT ![p] = r]
    BY <1>1, <1>2, BalanceTypes
  <1>7. balanceSent' \in Seq(SentTx) /\ Len(balanceSent') <= MaxSent /\ refresh' \in BOOLEAN /\ (refresh => refresh')
    BY <1>1, SentLast DEF BalancesTypeOK, SentTx
  <1>8. LowIsFlagged'
    BY <1>7 DEF BalancesInv, LowIsFlagged
  <1>9. relays' * RelayCost <= balanceChain'.worker
    BY DEF BalancesInv
  <1>10. ASSUME ~Overlap PROVE OneRefill'
    <2>1. OneRefill
      BY <1>1, <1>10, AtWork
    <2>2. CASE UNCHANGED balanceSent
      BY <2>1, <2>2 DEF OneRefill
    <2>3. ASSUME NEW kind \in SentKinds, NEW amount \in Nat, SendTransaction(kind, amount),
                 kind = "refill" => ~PendingOrRecent({"refill"}) /\ amount + ManagerMin <= balanceChain.manager
          PROVE  OneRefill'
      <3> DEFINE n == Len(balanceSent)
      <3>1. /\ DOMAIN balanceSent' = 1..n + 1 /\ n \in Nat /\ DOMAIN balanceSent = 1..n
            /\ \A i \in DOMAIN balanceSent : balanceSent'[i] = balanceSent[i]
            /\ balanceSent'[n + 1] = [kind |-> kind, amount |-> amount]
        BY <1>1, <2>3, SentLast
      <3> HIDE DEF n
      <3>2. \A i \in DOMAIN balanceSent' : i = n + 1 \/ i \in DOMAIN balanceSent
        BY <3>1
      <3>3. balanceSent'[n + 1].kind = kind /\ balanceSent'[n + 1].amount = amount /\ n + 1 \notin DOMAIN balanceSent
        BY <3>1
      <3>4. CASE kind = "refill"
        <4>1. \A i \in DOMAIN balanceSent : balanceSent[i].kind # "refill"
          BY <2>3, <3>4 DEF PendingOrRecent
        <4>2. \A i \in DOMAIN balanceSent' : balanceSent'[i].kind = "refill" => i = n + 1
          BY <3>1, <3>2, <4>1
        <4>3. amount + ManagerMin <= balanceChain'.manager
          BY <2>3, <3>4
        <4> QED
          BY <3>3, <4>2, <4>3 DEF OneRefill
      <3>5. CASE kind # "refill"
        <4>1. \A i \in DOMAIN balanceSent' : balanceSent'[i].kind = "refill" =>
                 i \in DOMAIN balanceSent /\ balanceSent'[i] = balanceSent[i]
          BY <3>1, <3>2, <3>3, <3>5
        <4>2. \A i \in DOMAIN balanceSent : balanceSent[i].kind = "refill" =>
                 balanceSent[i].amount + ManagerMin <= balanceChain'.manager
          BY <2>1 DEF OneRefill
        <4>3. \A i, j \in DOMAIN balanceSent :
                 balanceSent[i].kind = "refill" /\ balanceSent[j].kind = "refill" => i = j
          BY <2>1 DEF OneRefill
        <4>4. ASSUME NEW i \in DOMAIN balanceSent', balanceSent'[i].kind = "refill"
              PROVE  /\ balanceSent'[i].amount + ManagerMin <= balanceChain'.manager
                     /\ \A j \in DOMAIN balanceSent' \ {i} : balanceSent'[j].kind # "refill"
          <5>1. balanceSent'[i].amount + ManagerMin <= balanceChain'.manager
            BY <4>1, <4>2, <4>4
          <5>2. \A j \in DOMAIN balanceSent' : balanceSent'[j].kind = "refill" => j = i
            BY <4>1, <4>3, <4>4
          <5> QED
            BY <5>1, <5>2
        <4> QED
          BY <4>4 DEF OneRefill
      <3> QED
        BY <3>4, <3>5
    <2> QED
      BY <1>10, <2>2, <2>3
  <1>11. ASSUME ~Overlap
         PROVE  /\ ReadOfManager(r)'
                /\ p = "loop" => WorkerIsKnown(r)' /\ ManagerIsKnown(r)'
                /\ p # "loop" => WorkerIsKnown(proc["loop"])' /\ ManagerIsKnown(proc["loop"])' /\ balanceReady'
    <2>1. WorkerIsKnown(proc["loop"]) /\ ManagerIsKnown(proc["loop"]) /\ ReadOfManager(proc[p])
      BY <1>1, <1>11, AtWork
    <2>2. p # "loop" => proc'["loop"] = proc["loop"] /\ proc["loop"].at = "idle" /\ balanceReady'
      BY <1>1, <1>6, <1>11, AtWork DEF BalancesTypeOK, Procs
    <2>3. PendingWorker' = PendingWorker \/ refresh'
      BY SentLast, <1>1 DEF PendingWorker, PendingTotal
    <2>4. place = "eth" => PendingOrRecent({"refill"})' = PendingOrRecent({"refill"})
      <3> SUFFICES ASSUME place = "eth" PROVE PendingOrRecent({"refill"})' = PendingOrRecent({"refill"})
        OBVIOUS
      <3>1. CASE UNCHANGED balanceSent
        BY <3>1 DEF PendingOrRecent
      <3>2. ASSUME NEW kind \in SentKinds, NEW amount \in Nat, SendTransaction(kind, amount), kind # "refill"
            PROVE  PendingOrRecent({"refill"})' = PendingOrRecent({"refill"})
        <4>1. /\ DOMAIN balanceSent' = 1..Len(balanceSent) + 1 /\ DOMAIN balanceSent = 1..Len(balanceSent)
              /\ \A i \in DOMAIN balanceSent : balanceSent'[i] = balanceSent[i]
              /\ balanceSent'[Len(balanceSent) + 1] = [kind |-> kind, amount |-> amount]
              /\ Len(balanceSent) \in Nat
          BY <1>1, <3>2, SentLast
        <4>2. \A i \in DOMAIN balanceSent' : i \in DOMAIN balanceSent \/ i = Len(balanceSent) + 1
          BY <4>1
        <4>3. DOMAIN balanceSent \subseteq DOMAIN balanceSent'
          BY <4>1
        <4>4. (\E i \in DOMAIN balanceSent' : balanceSent'[i].kind = "refill")
               <=> (\E i \in DOMAIN balanceSent : balanceSent[i].kind = "refill")
          <5>1. balanceSent'[Len(balanceSent) + 1].kind = kind
            BY <4>1
          <5> QED
            BY <3>2, <4>1, <4>2, <4>3, <5>1
        <4> QED
          BY <4>4 DEF PendingOrRecent
      <3> QED
        BY <3>1, <3>2
    <2>5. ReadOfManager(r)'
      BY <1>4, <1>5, <2>1, <2>4 DEF ReadOfManager
    <2>6. p = "loop" => WorkerIsKnown(r)'
      BY <1>4, <1>5, <1>7, <2>1, <2>3 DEF WorkerIsKnown
    <2>7. p # "loop" => WorkerIsKnown(proc["loop"])'
      BY <1>7, <2>1, <2>2, <2>3 DEF WorkerIsKnown
    <2>8. p # "loop" => ManagerIsKnown(proc["loop"])'
      BY <2>1, <2>2 DEF ManagerIsKnown
    <2>9. p = "loop" => ManagerIsKnown(r)'
      BY <1>4, <1>5, <2>1 DEF ManagerIsKnown
    <2> QED
      BY <2>2, <2>5, <2>6, <2>7, <2>8, <2>9
  <1>12. p = "loop" => r.at # "done"
    BY <1>5
  <1>13. balanceReady' \in BOOLEAN
    BY <1>1 DEF BalancesTypeOK
  <1> QED
    BY <1>1, <1>5, <1>6, <1>7, <1>8, <1>9, <1>10, <1>11, <1>12, <1>13, ProcMoves, BalanceTypes

LEMMA WithdrawToOwnerKeeps == ASSUME BalancesInv, WithdrawToOwner PROVE BalancesInv'
  <1>1. BalancesTypeOK /\ "loop" \in Procs /\ Working("loop")
    BY DEF BalancesInv, Procs, WithdrawToOwner, Working
  <1>2. proc' = [proc EXCEPT !["loop"].at = "manager"] /\ UNCHANGED <<balanceChain, relays, recent, cached, balanceReady>>
    BY DEF WithdrawToOwner, GoTo
  <1>3. balanceChain.hub >= Surplus + Reserve => balanceChain.hub - Reserve \in Nat
    BY <1>1, BalanceTypes, BalanceNumbers DEF Reserve
  <1>4. \/ UNCHANGED <<balanceSent, refresh>>
        \/ \E kind \in SentKinds, amount \in Nat : SendTransaction(kind, amount) /\ kind # "refill"
    BY <1>3 DEF WithdrawToOwner, SentKinds
  <1> QED
    BY <1>1, <1>2, <1>4, SendMoves

LEMMA WithdrawHubKeeps == ASSUME BalancesInv, NEW p \in Procs, WithdrawHubDeposit(p) PROVE BalancesInv'
  <1>1. BalancesTypeOK /\ Working(p) /\ proc[p].at = "withdraw"
    BY DEF BalancesInv, WithdrawHubDeposit, Working
  <1>2. proc' = [proc EXCEPT ![p].at = "eth"] /\ UNCHANGED <<balanceChain, relays, recent, cached, balanceReady>>
    BY DEF WithdrawHubDeposit, GoTo
  <1>3. proc[p].hub \in Nat
    BY <1>1, BalanceTypes DEF ProcState
  <1>4. \E kind \in SentKinds, amount \in Nat : SendTransaction(kind, amount) /\ kind # "refill"
    BY <1>3 DEF WithdrawHubDeposit, SentKinds
  <1> QED
    BY <1>1, <1>2, <1>4, SendMoves

LEMMA ReplenishWorkerKeeps == ASSUME BalancesInv, NEW p \in Procs, ReplenishWorker(p) PROVE BalancesInv'
  <1>1. BalancesTypeOK /\ Working(p) /\ proc[p].at = "refill"
    BY DEF BalancesInv, ReplenishWorker, Working
  <1>2. /\ proc' = [proc EXCEPT ![p].at = Replenished(p)]
        /\ UNCHANGED <<balanceChain, relays, recent, cached, balanceReady>>
    BY DEF ReplenishWorker, GoTo
  <1>3. proc[p].amount \in Nat /\ proc[p].eth \in Nat
    BY <1>1, BalanceTypes DEF ProcState
  <1>4. EnoughForRefill(p) /\ ~Overlap =>
          ~PendingOrRecent({"refill"}) /\ proc[p].amount + ManagerMin <= balanceChain.manager
    <2>1. ~Overlap => ~PendingOrRecent({"refill"}) /\ proc[p].eth <= balanceChain.manager
      BY <1>1, AtWork DEF ReadOfManager
    <2> QED
      BY <1>1, <1>3, <2>1, BalanceTypes, BalanceNumbers DEF EnoughForRefill
  <1>5. \/ UNCHANGED <<balanceSent, refresh>>
        \/ \E kind \in SentKinds, amount \in Nat :
             /\ SendTransaction(kind, amount) /\ kind = "refill"
             /\ ~Overlap => ~PendingOrRecent({"refill"}) /\ amount + ManagerMin <= balanceChain.manager
    BY <1>3, <1>4 DEF ReplenishWorker, SentKinds
  <1>6. Replenished(p) = IF p = "loop" THEN "manager" ELSE "done"
    BY DEF Replenished
  <1> QED
    BY <1>1, <1>2, <1>5, <1>6, SendMoves

\* A request is relayed: its cost is the worker's, and the balances are looked at again.
LEMMA RelayKeeps == ASSUME BalancesInv, NEW p \in HttpRequests, Relay(p) PROVE BalancesInv'
  <1>1. BalancesTypeOK /\ p \in Procs /\ p # "loop" /\ proc[p].at = "idle"
    BY BalancesAssumption DEF BalancesInv, Procs, Relay
  <1>2. PICK r : r = [proc[p] EXCEPT !.at = "hub"]
    OBVIOUS
  <1>3. proc[p] \in ProcState
    BY <1>1, BalanceTypes
  <1>4. r \in ProcState /\ r.at = "hub"
    BY <1>2, <1>3 DEF ProcState
  <1>5. proc' = [proc EXCEPT ![p] = r]
    BY <1>1, <1>2, BalanceTypes DEF Relay, GoTo
  <1>6. UNCHANGED <<balanceChain, balanceSent, recent, cached, balanceReady>> /\ refresh' /\ refresh' \in BOOLEAN /\ balanceReady
    BY DEF Relay
  <1>7. relays' \in Nat /\ relays' * RelayCost <= balanceChain'.worker
    <2>1. relays \in Nat /\ RelayCost \in Nat /\ balanceChain.worker \in Nat
      BY <1>1, BalanceTypes, BalanceNumbers
    <2>2. relays' = relays + 1 /\ RelayCost * (relays + 1) <= balanceChain.worker
      BY <2>1 DEF Relay
    <2>3. RelayCost * (relays + 1) = (relays + 1) * RelayCost
      BY <2>1
    <2> QED
      BY <1>6, <2>1, <2>2, <2>3
  <1>8. LowIsFlagged'
    BY <1>6 DEF LowIsFlagged
  <1>9. ASSUME ~Overlap
        PROVE  /\ \A q \in Procs \ {p} : ~Working(q)
               /\ OneRefill' /\ ReadOfManager(r)' /\ balanceReady'
               /\ WorkerIsKnown(proc["loop"])' /\ ManagerIsKnown(proc["loop"])'
    <2>1. \A q \in Procs \ {p} : ~Working(q)
      BY <1>9 DEF Relay, Free, Working
    <2>2. OneRefill /\ ManagerIsKnown(proc["loop"])
      BY <1>1, <1>9, AtWork
    <2>3. proc'["loop"] = proc["loop"] /\ proc["loop"].at = "idle"
      BY <1>1, <1>5, <2>1 DEF BalancesTypeOK, BalancesInv, Procs, Working
    <2>4. OneRefill' /\ ReadOfManager(r)'
      BY <1>4, <1>6, <2>2 DEF OneRefill, ReadOfManager
    <2>5. WorkerIsKnown(proc["loop"])'
      BY <1>6, <2>3 DEF WorkerIsKnown
    <2>6. ManagerIsKnown(proc["loop"])'
      BY <1>6, <2>2, <2>3 DEF ManagerIsKnown
    <2> QED
      BY <1>6, <2>1, <2>4, <2>5, <2>6
  <1> QED
    BY <1>1, <1>4, <1>5, <1>6, <1>7, <1>8, <1>9, ProcMoves, BalanceTypes DEF BalancesTypeOK

\* What is awaited throws.
LEMMA FailKeeps == ASSUME BalancesInv, NEW p \in Procs, Fail(p) PROVE BalancesInv'
  <1>1. BalancesTypeOK /\ Working(p) /\ "loop" \in Procs
    BY DEF BalancesInv, Fail, Working, Procs
  <1>2. PICK place \in {"manager", "idle", "done"} :
          /\ proc' = [proc EXCEPT ![p].at = place]
          /\ p = "loop" => place # "done"
          /\ p # "loop" => place = "done" /\ UNCHANGED balanceReady
          /\ place = "idle" => ~balanceReady'
          /\ balanceReady' \in {balanceReady, FALSE}
    BY DEF Fail, GoTo
  <1>3. PICK r : r = [proc[p] EXCEPT !.at = place]
    OBVIOUS
  <1>4. proc[p] \in ProcState
    BY <1>1, BalanceTypes
  <1>5. r \in ProcState /\ r.at = place
    BY <1>2, <1>3, <1>4 DEF ProcState
  <1>6. proc' = [proc EXCEPT ![p] = r]
    BY <1>1, <1>2, <1>3, BalanceTypes
  <1>7. UNCHANGED <<balanceChain, balanceSent, relays, recent, cached, refresh>>
    BY DEF Fail
  <1>8. LowIsFlagged'
    BY <1>7 DEF BalancesInv, LowIsFlagged
  <1>9. ASSUME ~Overlap PROVE ReadOfManager(r)' /\ (p = "loop" => WorkerIsKnown(r)' /\ ManagerIsKnown(r)')
    <2>1. WorkerIsKnown(proc["loop"]) /\ ManagerIsKnown(proc["loop"])
      BY <1>1, <1>9, AtWork
    <2>2. PendingWorker' = PendingWorker
      BY <1>7 DEF PendingWorker, PendingTotal
    <2>3. ReadOfManager(r)'
      BY <1>2, <1>5 DEF ReadOfManager
    <2>4. WorkerIsKnown(r)'
      BY <1>2, <1>5, <1>7, <2>1, <2>2 DEF WorkerIsKnown
    <2>5. p = "loop" => ManagerIsKnown(r)'
      BY <1>2, <1>5 DEF ManagerIsKnown
    <2> QED
      BY <2>3, <2>4, <2>5
  <1>10. balanceReady' \in BOOLEAN
    BY <1>1, <1>2 DEF BalancesTypeOK
  <1>11. (p = "loop" => r.at # "done") /\ (p # "loop" => r.at # "idle")
    BY <1>2, <1>5
  <1> QED
    BY <1>1, <1>2, <1>5, <1>6, <1>7, <1>8, <1>9, <1>10, <1>11, QuietMoves DEF BalancesTypeOK

LEMMA TimesLess ==
    ASSUME NEW a \in Nat, NEW b \in Nat, a - 1 \in Nat
    PROVE  a * b \in Nat /\ (a - 1) * b \in Nat /\ (a - 1) * b = a * b - b
  <1>1. \A m, n \in Nat : m * n \in Nat
    OBVIOUS
  <1>2. (a - 1) * b = a * b - b
    OBVIOUS
  <1> QED
    BY <1>1, <1>2

\* A relayed call is mined: the worker pays what was counted as pending.
LEMMA MineRelayKeeps == ASSUME BalancesInv, MineRelay PROVE BalancesInv'
  <1>1. BalancesTypeOK
    BY DEF BalancesInv
  <1>2. /\ relays \in Nat /\ RelayCost \in Nat /\ balanceChain \in [manager : Nat, worker : Nat, hub : Nat]
        /\ balanceChain.worker \in Nat /\ balanceChain.hub \in Nat
    BY <1>1, BalanceTypes, BalanceNumbers
  <1>3. relays > 0 /\ relays' = relays - 1
        /\ balanceChain' = [balanceChain EXCEPT !.worker = @ - RelayCost, !.hub = @ + RelayCost]
    BY DEF MineRelay
  <1>4. UNCHANGED <<balanceSent, recent, cached, refresh, balanceReady, proc>>
    BY DEF MineRelay
  <1>5. relays' \in Nat /\ relays - 1 \in Nat
    BY <1>2, <1>3
  <1>6. PICK before \in Nat, after \in Nat :
          before = relays * RelayCost /\ after = relays' * RelayCost /\ after = before - RelayCost
    <2>1. relays * RelayCost \in Nat /\ (relays - 1) * RelayCost \in Nat
          /\ (relays - 1) * RelayCost = relays * RelayCost - RelayCost
      BY <1>2, <1>5, TimesLess
    <2> QED
      BY <1>3, <2>1
  <1>7. before <= balanceChain.worker
    BY <1>6 DEF BalancesInv
  <1>8. balanceChain.worker - RelayCost \in Nat /\ balanceChain.hub + RelayCost \in Nat
        /\ after <= balanceChain.worker - RelayCost
    <2>1. after = before - RelayCost
      BY <1>6
    <2> QED
      BY <1>2, <1>7, <2>1
  <1>9. /\ balanceChain' \in [manager : Nat, worker : Nat, hub : Nat]
        /\ balanceChain'.worker = balanceChain.worker - RelayCost /\ balanceChain'.manager = balanceChain.manager
    BY <1>2, <1>3, <1>8
  <1>10. relays' * RelayCost <= balanceChain'.worker
    BY <1>6, <1>8, <1>9
  <1>11. BalancesTypeOK'
    BY <1>1, <1>4, <1>5, <1>9 DEF BalancesTypeOK
  <1>12. PendingWorker' = PendingWorker
    <2>1. PendingTotal("refill")' = PendingTotal("refill")
      BY <1>4 DEF PendingTotal
    <2>2. PendingTotal("refill") = Total(AmountsOf(balanceSent, "refill"), DOMAIN balanceSent)
      BY DEF PendingTotal, AmountsOf
    <2>3. PendingTotal("refill") \in Nat
      BY <1>1, <2>2, BalanceTypes, AmountsAddUp
    <2>4. PICK pending \in Nat : pending = PendingTotal("refill") /\ pending = PendingTotal("refill")'
      BY <2>1, <2>3
    <2>5. PendingWorker = balanceChain.worker + pending - before
      BY <1>6, <2>4 DEF PendingWorker
    <2>6. PendingWorker' = balanceChain'.worker + pending - after
      BY <1>6, <2>4 DEF PendingWorker
    <2>7. after = before - RelayCost
      BY <1>6
    <2> QED
      BY <1>2, <1>9, <2>5, <2>6, <2>7
  <1>13. LowIsFlagged' /\ proc'["loop"].at # "done"
    BY <1>4 DEF BalancesInv, LowIsFlagged
  <1>14. ASSUME ~Overlap
         PROVE  /\ OneByOneWorks' /\ OneRefill'
                /\ WorkerIsKnown(proc["loop"])' /\ ManagerIsKnown(proc["loop"])'
                /\ \A p \in Procs : ReadOfManager(proc[p])'
    <2>1. /\ OneByOneWorks /\ OneRefill /\ WorkerIsKnown(proc["loop"]) /\ ManagerIsKnown(proc["loop"])
          /\ \A p \in Procs : ReadOfManager(proc[p])
      BY <1>14 DEF BalancesInv
    <2>2. OneByOneWorks' /\ OneRefill'
      BY <1>4, <1>9, <2>1 DEF OneByOneWorks, OneRefill, Working
    <2>3. WorkerIsKnown(proc["loop"])' /\ ManagerIsKnown(proc["loop"])'
      BY <1>4, <1>9, <1>12, <2>1 DEF WorkerIsKnown, ManagerIsKnown
    <2>4. PendingOrRecent({"refill"})' = PendingOrRecent({"refill"})
      BY <1>4 DEF PendingOrRecent
    <2>5. \A p \in Procs : ReadOfManager(proc[p])'
      BY <1>4, <1>9, <2>1, <2>4 DEF ReadOfManager
    <2> QED
      BY <2>2, <2>3, <2>5
  <1> QED
    BY <1>10, <1>11, <1>13, <1>14 DEF BalancesInv

\* The manager's next transaction is mined: a refill moves what was counted as pending.
LEMMA MineNextKeeps == ASSUME BalancesInv, MineNext PROVE BalancesInv'
  <1>1. BalancesTypeOK
    BY DEF BalancesInv
  <1> DEFINE tx == Head(balanceSent)
  <1>2. /\ balanceChain \in [manager : Nat, worker : Nat, hub : Nat] /\ relays \in Nat
        /\ balanceChain.manager \in Nat /\ balanceChain.worker \in Nat /\ balanceChain.hub \in Nat
        /\ balanceSent \in Seq(SentTx) /\ balanceSent # <<>> /\ balanceSent' = Tail(balanceSent)
    BY <1>1, BalanceTypes DEF MineNext
  <1>3. /\ tx = balanceSent[1] /\ tx \in SentTx /\ 1 \in DOMAIN balanceSent
        /\ balanceSent' \in Seq(SentTx) /\ Len(balanceSent') = Len(balanceSent) - 1 /\ Len(balanceSent) \in Nat
        /\ DOMAIN balanceSent = 1..Len(balanceSent) /\ DOMAIN balanceSent' = 1..Len(balanceSent) - 1
        /\ \A i \in DOMAIN balanceSent' : balanceSent'[i] = balanceSent[i + 1]
    BY <1>2
  <1>4. tx.kind \in SentKinds /\ tx.amount \in Nat
    BY <1>3 DEF SentTx
  <1>5. /\ UNCHANGED <<relays, cached, refresh, balanceReady, proc>>
        /\ recent' = [recent EXCEPT ![tx.kind] = "new"]
    BY DEF MineNext
  <1>6. /\ balanceChain' \in [manager : Nat, worker : Nat, hub : Nat]
        /\ tx.kind = "refill" => /\ balanceChain'.worker = balanceChain.worker + tx.amount
                                 /\ balanceChain'.manager = balanceChain.manager - tx.amount
        /\ tx.kind # "refill" => /\ balanceChain'.worker = balanceChain.worker
                                 /\ balanceChain'.manager >= balanceChain.manager
    <2>1. CASE /\ tx.kind = "refill" /\ tx.amount <= balanceChain.manager
               /\ balanceChain' = [balanceChain EXCEPT !.manager = @ - tx.amount, !.worker = @ + tx.amount]
      <3>1. balanceChain.manager - tx.amount \in Nat /\ balanceChain.worker + tx.amount \in Nat
        BY <1>2, <1>4, <2>1
      <3> QED
        BY <1>2, <2>1, <3>1
    <2>2. CASE /\ tx.kind = "withdraw" /\ tx.amount <= balanceChain.hub
               /\ balanceChain' = [balanceChain EXCEPT !.hub = @ - tx.amount, !.manager = @ + tx.amount]
      <3>1. balanceChain.hub - tx.amount \in Nat /\ balanceChain.manager + tx.amount \in Nat
            /\ balanceChain.manager + tx.amount >= balanceChain.manager
        BY <1>2, <1>4, <2>2
      <3> QED
        BY <1>2, <2>2, <3>1
    <2>3. CASE /\ tx.kind = "toOwner" /\ tx.amount <= balanceChain.hub
               /\ balanceChain' = [balanceChain EXCEPT !.hub = @ - tx.amount]
      BY <1>2, <1>4, <2>3
    <2>4. CASE tx.kind # "refill" /\ UNCHANGED balanceChain
      BY <1>2, <2>4
    <2> QED
      BY <2>1, <2>2, <2>3, <2>4 DEF MineNext
  <1>7. balanceChain'.worker \in Nat /\ balanceChain'.manager \in Nat /\ balanceChain'.worker >= balanceChain.worker
    BY <1>2, <1>4, <1>6
  <1>8. recent' \in [SentKinds -> {"no", "new", "old"}] /\ recent'[tx.kind] = "new"
        /\ \A kind \in SentKinds \ {tx.kind} : recent'[kind] = recent[kind]
    BY <1>1, <1>4, <1>5, BalanceTypes
  <1> HIDE DEF tx
  <1>9. BalancesTypeOK'
    <2>1. Len(balanceSent') <= MaxSent
      BY <1>1, <1>3, BalanceNumbers DEF BalancesTypeOK
    <2> QED
      BY <1>1, <1>3, <1>5, <1>6, <1>8, <2>1 DEF BalancesTypeOK, SentTx
  <1>10. relays' * RelayCost <= balanceChain'.worker
    <2>1. relays * RelayCost <= balanceChain.worker /\ relays * RelayCost \in Nat
      BY <1>2, BalanceNumbers DEF BalancesInv
    <2> QED
      BY <1>2, <1>5, <1>7, <2>1
  <1>11. LowIsFlagged' /\ proc'["loop"].at # "done"
    BY <1>5 DEF BalancesInv, LowIsFlagged
  <1>12. ASSUME ~Overlap
         PROVE  /\ OneByOneWorks' /\ OneRefill'
                /\ WorkerIsKnown(proc["loop"])' /\ ManagerIsKnown(proc["loop"])'
                /\ \A p \in Procs : ReadOfManager(proc[p])'
    <2>1. /\ OneByOneWorks /\ OneRefill /\ WorkerIsKnown(proc["loop"]) /\ ManagerIsKnown(proc["loop"])
          /\ \A p \in Procs : ReadOfManager(proc[p])
      BY <1>12 DEF BalancesInv
    <2>2. OneByOneWorks'
      BY <1>5, <2>1 DEF OneByOneWorks, Working
    <2>3. ASSUME NEW i \in DOMAIN balanceSent', balanceSent'[i].kind = "refill"
          PROVE  /\ balanceSent'[i].amount + ManagerMin <= balanceChain'.manager
                 /\ \A j \in DOMAIN balanceSent' \ {i} : balanceSent'[j].kind # "refill"
      <3>1. i + 1 \in DOMAIN balanceSent /\ i + 1 # 1 /\ balanceSent'[i] = balanceSent[i + 1]
        BY <1>3
      <3>2. tx.kind # "refill"
        BY <1>3, <2>1, <2>3, <3>1 DEF OneRefill
      <3>3. balanceSent[i + 1].amount + ManagerMin <= balanceChain.manager
        BY <2>1, <2>3, <3>1 DEF OneRefill
      <3>4. balanceSent[i + 1].amount \in Nat
        <4>1. balanceSent[i + 1] \in SentTx
          BY <1>2, <3>1
        <4> QED
          BY <4>1 DEF SentTx
      <3>5. balanceSent'[i].amount + ManagerMin <= balanceChain'.manager
        BY <1>2, <1>6, <1>7, <3>1, <3>2, <3>3, <3>4, BalanceNumbers
      <3>6. ASSUME NEW j \in DOMAIN balanceSent', j # i PROVE balanceSent'[j].kind # "refill"
        <4>1. j + 1 \in DOMAIN balanceSent /\ j + 1 # i + 1 /\ balanceSent'[j] = balanceSent[j + 1]
          BY <1>3, <3>6
        <4> QED
          BY <2>1, <2>3, <3>1, <4>1 DEF OneRefill
      <3> QED
        BY <3>5, <3>6
    <2>4. OneRefill'
      BY <2>3 DEF OneRefill
    <2>5. PendingWorker' = PendingWorker
      <3>1. PendingTotal("refill")' = PendingTotal("refill") - (IF tx.kind = "refill" THEN tx.amount ELSE 0)
        BY <1>1, <1>2, <2>1, PendingAfterMining DEF tx
      <3>2. PendingTotal("refill") = Total(AmountsOf(balanceSent, "refill"), DOMAIN balanceSent)
        BY DEF PendingTotal, AmountsOf
      <3>3. PendingTotal("refill") \in Nat
        BY <1>1, <3>2, BalanceTypes, AmountsAddUp
      <3>4. PICK cost \in Nat : cost = relays * RelayCost /\ cost = relays' * RelayCost
        BY <1>2, <1>5, BalanceNumbers
      <3>5. PICK pending \in Nat : pending = PendingTotal("refill")
        BY <3>3
      <3>6. PendingWorker = balanceChain.worker + pending - cost
        BY <3>4, <3>5 DEF PendingWorker
      <3>7. PendingWorker' = balanceChain'.worker + PendingTotal("refill")' - cost
        BY <3>4 DEF PendingWorker
      <3>8. PendingTotal("refill")' = pending - (IF tx.kind = "refill" THEN tx.amount ELSE 0)
        BY <3>1, <3>5
      <3> QED
        BY <1>2, <1>4, <1>6, <1>7, <3>6, <3>7, <3>8
    <2>6. WorkerIsKnown(proc["loop"])'
      BY <1>5, <2>1, <2>5 DEF WorkerIsKnown
    <2>7. tx.kind = "refill" => PendingOrRecent({"refill"})
      BY <1>3 DEF PendingOrRecent
    <2>8. recent'["refill"] # "new" =>
             recent["refill"] # "new" /\ balanceChain'.manager >= balanceChain.manager
      BY <1>6, <1>8 DEF SentKinds
    <2>9. ManagerIsKnown(proc["loop"])'
      <3>1. cached.manager \in Nat
        BY <1>1, BalanceTypes
      <3>2. recent'["refill"] # "new" /\ cached.manager <= balanceChain.manager => cached'.manager <= balanceChain'.manager
        BY <1>2, <1>5, <1>7, <2>8, <3>1
      <3> QED
        BY <1>5, <2>1, <2>8, <3>2 DEF ManagerIsKnown
    <2>10. ~PendingOrRecent({"refill"}) =>
              ~PendingOrRecent({"refill"})' /\ balanceChain'.manager >= balanceChain.manager
      <3> SUFFICES ASSUME ~PendingOrRecent({"refill"})
                   PROVE  ~PendingOrRecent({"refill"})' /\ balanceChain'.manager >= balanceChain.manager
        OBVIOUS
      <3>1. recent["refill"] = "no" /\ \A i \in DOMAIN balanceSent : balanceSent[i].kind # "refill"
        BY DEF PendingOrRecent
      <3>2. tx.kind # "refill" /\ recent'["refill"] = "no"
        BY <1>8, <2>7, <3>1 DEF SentKinds
      <3>3. \A i \in DOMAIN balanceSent' : i + 1 \in DOMAIN balanceSent
        BY <1>3
      <3>4. \A i \in DOMAIN balanceSent' : balanceSent'[i].kind # "refill"
        BY <1>3, <3>1, <3>3
      <3> QED
        BY <1>6, <3>2, <3>4 DEF PendingOrRecent
    <2>11. ASSUME NEW p \in Procs PROVE ReadOfManager(proc[p])'
      <3>1. proc[p] \in ProcState
        BY <1>1, BalanceTypes
      <3>2. proc[p].eth \in Nat
        BY <3>1 DEF ProcState
      <3>3. proc[p].eth <= balanceChain.manager /\ balanceChain'.manager >= balanceChain.manager
              => proc[p].eth <= balanceChain'.manager
        BY <1>2, <1>7, <3>2
      <3>4. ReadOfManager(proc[p])
        BY <2>1
      <3> QED
        BY <1>5, <2>8, <2>10, <3>3, <3>4 DEF ReadOfManager
    <2> QED
      BY <2>2, <2>4, <2>6, <2>9, <2>11
  <1> QED
    BY <1>9, <1>10, <1>11, <1>12 DEF BalancesInv

LEMMA ForgetSentKeeps == ASSUME BalancesInv, NEW kind \in SentKinds, ForgetSent(kind) PROVE BalancesInv'
  <1>1. BalancesTypeOK
    BY DEF BalancesInv
  <1>2. UNCHANGED <<balanceChain, balanceSent, relays, cached, refresh, balanceReady, proc>>
    BY DEF ForgetSent
  <1>3. /\ recent[kind] = "old" /\ proc["loop"].at = "idle"
        /\ recent' \in [SentKinds -> {"no", "new", "old"}]
        /\ \A k \in SentKinds : recent'[k] = "new" <=> recent[k] = "new"
        /\ \A k \in SentKinds : recent'[k] # "no" => recent[k] # "no"
    BY <1>1, BalanceTypes DEF ForgetSent
  <1>4. BalancesTypeOK' /\ LowIsFlagged'
    BY <1>1, <1>2, <1>3 DEF BalancesTypeOK, BalancesInv, LowIsFlagged
  <1>5. ASSUME ~Overlap
        PROVE  /\ OneByOneWorks' /\ OneRefill'
               /\ WorkerIsKnown(proc["loop"])' /\ ManagerIsKnown(proc["loop"])'
               /\ \A p \in Procs : ReadOfManager(proc[p])'
    <2>1. /\ OneByOneWorks /\ OneRefill /\ WorkerIsKnown(proc["loop"]) /\ ManagerIsKnown(proc["loop"])
          /\ \A p \in Procs : ReadOfManager(proc[p])
      BY <1>5 DEF BalancesInv
    <2>2. "refill" \in SentKinds /\ PendingWorker' = PendingWorker
      BY <1>2 DEF SentKinds, PendingWorker, PendingTotal
    <2>3. PendingOrRecent({"refill"})' => PendingOrRecent({"refill"})
      BY <1>2, <1>3, <2>2 DEF PendingOrRecent
    <2>4. OneByOneWorks' /\ OneRefill'
      BY <1>2, <2>1 DEF OneByOneWorks, OneRefill, Working
    <2>5. WorkerIsKnown(proc["loop"])'
      BY <1>2, <2>1, <2>2 DEF WorkerIsKnown
    <2>6. ManagerIsKnown(proc["loop"])'
      BY <1>2, <1>3, <2>1, <2>2 DEF ManagerIsKnown
    <2>7. \A p \in Procs : ReadOfManager(proc[p])'
      BY <1>2, <1>3, <2>1, <2>2, <2>3 DEF ReadOfManager
    <2> QED
      BY <2>4, <2>5, <2>6, <2>7
  <1> QED
    BY <1>2, <1>4, <1>5 DEF BalancesInv

LEMMA BalancesNextKeeps == BalancesInv /\ [BalancesNext]_balanceVars => BalancesInv'
  <1> SUFFICES ASSUME BalancesInv, [BalancesNext]_balanceVars PROVE BalancesInv'
    OBVIOUS
  <1>1. ASSUME NEW p \in Procs, Replenish(p) PROVE BalancesInv'
    BY <1>1, ReadHubKeeps, DecideKeeps, WithdrawHubKeeps, RefreshEthKeeps, ReplenishWorkerKeeps DEF Replenish
  <1>2. CASE Loop
    <2>1. "loop" \in Procs
      BY DEF Procs
    <2> QED
      BY <1>1, <1>2, <2>1, BeginKeeps, WithdrawToOwnerKeeps, RefreshManagerKeeps, RefreshWorkerKeeps,
         CheckBalancesKeeps, RegisteredKeeps DEF Loop
  <1>3. ASSUME NEW p \in HttpRequests, Relay(p) \/ Replenish(p) PROVE BalancesInv'
    BY <1>1, <1>3, RelayKeeps DEF Procs
  <1>4. CASE UNCHANGED balanceVars
    <2>1. UNCHANGED <<balanceChain, balanceSent, relays, recent, cached, refresh, balanceReady, proc>>
      BY <1>4 DEF balanceVars
    <2> QED
      BY <2>1 DEF BalancesInv, BalancesTypeOK, LowIsFlagged, OneByOneWorks, OneRefill, WorkerIsKnown, ManagerIsKnown,
                  ReadOfManager, Working, PendingWorker, PendingTotal, PendingOrRecent
  <1> QED
    BY <1>2, <1>3, <1>4, FailKeeps, MineNextKeeps, MineRelayKeeps, ForgetSentKeeps DEF BalancesNext

LEMMA BalancesInitHolds == BalancesInit => BalancesInv
  <1> SUFFICES ASSUME BalancesInit PROVE BalancesInv
    OBVIOUS
  <1>1. /\ balanceChain \in [manager : Nat, worker : Nat, hub : Nat] /\ balanceSent = <<>> /\ relays = 0
        /\ recent = [kind \in SentKinds |-> "no"] /\ cached = [manager |-> 0, worker |-> 0]
        /\ refresh = TRUE /\ balanceReady = FALSE /\ proc = [p \in Procs |-> IdleProc]
    BY BalancesAssumption DEF BalancesInit
  <1>2. IdleProc \in ProcState /\ IdleProc.at = "idle"
    BY DEF IdleProc, ProcState
  <1>3. Len(balanceSent) <= MaxSent /\ balanceSent \in Seq([kind : SentKinds, amount : Nat])
    BY <1>1, BalanceNumbers
  <1>4. recent \in [SentKinds -> {"no", "new", "old"}] /\ cached \in [manager : Nat, worker : Nat]
        /\ proc \in [Procs -> ProcState]
    BY <1>1, <1>2
  <1>5. BalancesTypeOK
    BY <1>1, <1>3, <1>4 DEF BalancesTypeOK
  <1>6. relays * RelayCost <= balanceChain.worker
    <2>1. balanceChain.worker \in Nat
      BY <1>1
    <2> QED
      BY <1>1, <2>1, BalanceNumbers
  <1>7. \A p \in Procs : proc[p].at = "idle"
    BY <1>1, <1>2
  <1>8. LowIsFlagged /\ proc["loop"].at # "done"
    BY <1>1, <1>7 DEF LowIsFlagged, Procs
  <1>9. OneByOneWorks /\ OneRefill
    BY <1>1, <1>7 DEF OneByOneWorks, OneRefill, Working, Procs
  <1>10. WorkerIsKnown(proc["loop"]) /\ ManagerIsKnown(proc["loop"])
    BY <1>1, <1>7 DEF WorkerIsKnown, ManagerIsKnown, Procs
  <1>11. \A p \in Procs : ReadOfManager(proc[p])
    BY <1>7 DEF ReadOfManager
  <1> QED
    BY <1>5, <1>6, <1>8, <1>9, <1>10, <1>11 DEF BalancesInv

\* Whoever sends a refill has looked for one that is under way.
LEMMA RefillsOnce ==
    ASSUME BalancesInv, ~Overlap, [BalancesNext]_balanceVars
    PROVE  NoRepeatedRefillStep
  <1> SUFFICES ASSUME Sends("refill") PROVE ~PendingOrRecent({"refill"})
    BY DEF NoRepeatedRefillStep
  <1>1. BalancesTypeOK /\ "loop" \in Procs
    BY DEF BalancesInv, Procs
  <1>2. balanceSent \in Seq(SentTx) /\ Len(balanceSent) \in Nat
    BY <1>1, BalanceTypes
  <1>3. Len(balanceSent') > Len(balanceSent) /\ balanceSent'[Len(balanceSent')].kind = "refill"
    BY DEF Sends
  <1>4. balanceSent' # balanceSent
    BY <1>2, <1>3
  <1>5. ASSUME NEW kind \in SentKinds, NEW amount \in Nat, SendTransaction(kind, amount) PROVE kind = "refill"
    <2>1. balanceSent'[Len(balanceSent')] = [kind |-> kind, amount |-> amount]
      BY <1>1, <1>5, SentLast
    <2> QED
      BY <1>3, <2>1
  <1>6. ~WithdrawToOwner
    <2> SUFFICES ASSUME WithdrawToOwner PROVE FALSE
      OBVIOUS
    <2>1. balanceChain.hub >= Surplus + Reserve => balanceChain.hub - Reserve \in Nat
      BY <1>1, BalanceTypes, BalanceNumbers DEF Reserve
    <2>2. SendTransaction("toOwner", balanceChain.hub - Reserve) /\ balanceChain.hub - Reserve \in Nat
      BY <1>4, <2>1 DEF WithdrawToOwner
    <2> QED
      BY <1>5, <2>2 DEF SentKinds
  <1>7. ASSUME NEW p \in Procs PROVE ~WithdrawHubDeposit(p)
    <2> SUFFICES ASSUME WithdrawHubDeposit(p) PROVE FALSE
      OBVIOUS
    <2>1. proc[p] \in ProcState
      BY <1>1, BalanceTypes
    <2>2. proc[p].hub \in Nat
      BY <2>1 DEF ProcState
    <2> QED
      BY <1>5, <2>2 DEF WithdrawHubDeposit, SentKinds
  <1>8. ASSUME NEW p \in Procs, ReplenishWorker(p) PROVE ~PendingOrRecent({"refill"})
    <2>1. proc[p].at = "refill"
      BY <1>8 DEF ReplenishWorker
    <2> QED
      BY <2>1, AtWork DEF ReadOfManager
  <1>9. ~MineNext
    <2> SUFFICES ASSUME MineNext PROVE FALSE
      OBVIOUS
    <2>1. balanceSent # <<>> /\ balanceSent' = Tail(balanceSent)
      BY DEF MineNext
    <2>2. Len(balanceSent') = Len(balanceSent) - 1
      BY <1>2, <2>1
    <2> QED
      BY <1>2, <1>3, <2>2
  <1>10. ASSUME NEW p \in Procs, Replenish(p) PROVE ~PendingOrRecent({"refill"})
    BY <1>4, <1>7, <1>8, <1>10 DEF Replenish, ReadHub, Decide, RefreshEth
  <1>11. ASSUME Loop PROVE ~PendingOrRecent({"refill"})
    BY <1>1, <1>4, <1>6, <1>10, <1>11 DEF Loop, BeginBalancePass, RefreshManager, RefreshWorker, CheckBalances, Registered
  <1>12. ASSUME NEW p \in HttpRequests, Relay(p) \/ Replenish(p) PROVE ~PendingOrRecent({"refill"})
    BY <1>4, <1>10, <1>12 DEF Relay, Procs
  <1>13. ASSUME NEW p \in Procs PROVE ~Fail(p)
    BY <1>4 DEF Fail
  <1>14. ~MineRelay /\ \A kind \in SentKinds : ~ForgetSent(kind)
    BY <1>4 DEF MineRelay, ForgetSent
  <1>15. ~UNCHANGED balanceVars
    BY <1>4 DEF balanceVars
  <1> QED
    BY <1>9, <1>11, <1>12, <1>13, <1>14, <1>15 DEF BalancesNext

\* The only refill there is leaves the manager its minimum.
LEMMA RefillLeavesMinimum ==
    ASSUME BalancesInv, ~Overlap, [BalancesNext]_balanceVars
    PROVE  ManagerKeepsMinimumStep
  <1> SUFFICES ASSUME balanceChain'.worker > balanceChain.worker PROVE balanceChain'.manager >= ManagerMin
    BY DEF ManagerKeepsMinimumStep
  <1>1. BalancesTypeOK /\ OneRefill
    BY AtWork DEF BalancesInv, Procs
  <1>2. balanceChain \in [manager : Nat, worker : Nat, hub : Nat] /\ balanceChain.worker \in Nat
        /\ balanceChain.manager \in Nat /\ balanceSent \in Seq(SentTx) /\ ManagerMin \in Nat /\ RelayCost \in Nat
    BY <1>1, BalanceTypes, BalanceNumbers
  <1>3. balanceChain' # balanceChain
    BY <1>2
  <1>4. CASE MineNext
    <2> DEFINE tx == Head(balanceSent)
    <2>1. balanceSent # <<>>
      BY <1>4 DEF MineNext
    <2>2. tx = balanceSent[1] /\ 1 \in DOMAIN balanceSent /\ tx \in SentTx
      BY <1>2, <2>1
    <2>3. tx.amount \in Nat
      BY <2>2 DEF SentTx
    <2>4. \/ /\ tx.kind = "refill"
             /\ balanceChain' = [balanceChain EXCEPT !.manager = @ - tx.amount, !.worker = @ + tx.amount]
          \/ balanceChain' = [balanceChain EXCEPT !.hub = @ - tx.amount, !.manager = @ + tx.amount]
          \/ balanceChain' = [balanceChain EXCEPT !.hub = @ - tx.amount]
          \/ UNCHANGED balanceChain
      BY <1>4 DEF MineNext
    <2> HIDE DEF tx
    <2>5. tx.kind = "refill" /\ balanceChain'.manager = balanceChain.manager - tx.amount
      <3>1. CASE balanceChain' = [balanceChain EXCEPT !.hub = @ - tx.amount, !.manager = @ + tx.amount]
        <4>1. balanceChain'.worker = balanceChain.worker
          BY <1>2, <3>1
        <4> QED
          BY <1>2, <4>1
      <3>2. CASE balanceChain' = [balanceChain EXCEPT !.hub = @ - tx.amount]
        <4>1. balanceChain'.worker = balanceChain.worker
          BY <1>2, <3>2
        <4> QED
          BY <1>2, <4>1
      <3>3. CASE /\ tx.kind = "refill"
                 /\ balanceChain' = [balanceChain EXCEPT !.manager = @ - tx.amount, !.worker = @ + tx.amount]
        BY <1>2, <3>3
      <3> QED
        BY <1>3, <2>4, <3>1, <3>2, <3>3
    <2>6. tx.amount + ManagerMin <= balanceChain.manager
      BY <1>1, <2>2, <2>5 DEF OneRefill
    <2> QED
      BY <1>2, <2>3, <2>5, <2>6
  <1>5. CASE MineRelay
    <2>1. balanceChain'.worker = balanceChain.worker - RelayCost
      BY <1>2, <1>5 DEF MineRelay
    <2> QED
      BY <1>2, <2>1
  <1>6. ~Loop /\ \A p \in HttpRequests : ~(Relay(p) \/ Replenish(p))
    BY <1>3 DEF Loop, Replenish, Relay, ReadHub, Decide, RefreshEth, WithdrawHubDeposit, ReplenishWorker, BeginBalancePass,
                RefreshManager, RefreshWorker, CheckBalances, Registered, WithdrawToOwner
  <1>7. (\A p \in Procs : ~Fail(p)) /\ (\A kind \in SentKinds : ~ForgetSent(kind)) /\ ~UNCHANGED balanceVars
    BY <1>3 DEF Fail, ForgetSent, balanceVars
  <1> QED
    BY <1>4, <1>5, <1>6, <1>7 DEF BalancesNext

\* What the server knows of its worker counts what is pending.
LEMMA BalancesAreKnown == BalancesInv => BalancesTypeOK /\ (~Overlap => StaleIsFlagged)
  BY DEF BalancesInv, StaleIsFlagged, WorkerIsKnown

\* With one pass or request at a time, at most one refill is pending, the manager can pay it
\* and keep its minimum, and the balance the server remembers of its worker counts it.
THEOREM BalancesInvariant == BalancesSpec => []BalancesInv
  BY BalancesInitHolds, BalancesNextKeeps, PTL DEF BalancesSpec

-----------------------------------------------------------------------------
(* The explorer's list                                                     *)

\* What a search has read is a stretch of the list.
ReadFromList(s) ==
    /\ search[s].todo \subseteq Outgoing(list)
    /\ search[s].at \in {"query", "pages", "insert"} => search[s].page >= 1
    /\ search[s].at \in {"pages", "insert"} =>
         \A i \in DOMAIN search[s].got :
            /\ PageStart(search[s].page) + i \in DOMAIN list
            /\ search[s].got[i] = list[PageStart(search[s].page) + i]

\* A first search for a transaction that is there has only pages without it behind it.
NotPassedBy(s) ==
    /\ search[s].answer # "missing"
    /\ search[s].at \in {"resume", "query", "pages", "insert"} => search[s].nonce \in Outgoing(list)
    /\ search[s].at \in {"query", "pages", "insert"} =>
         \A i \in DOMAIN list : i <= PageStart(search[s].page) => list[i] # search[s].nonce
    /\ search[s].at \in {"pages", "insert"} /\ Len(search[s].got) < PageSize =>
         \E k \in DOMAIN list : /\ k <= PageStart(search[s].page) + Len(search[s].got)
                                /\ list[k] = search[s].nonce

\* Before the first page was read there is nothing to resume from.
StartsClean == (\A s \in Searches : search[s].at \in {"idle", "resume"}) => page = 0 /\ cache = {}

SearchInv ==
    /\ SearchTypeOK /\ CacheIsMined /\ StartsClean
    /\ \A s \in Searches : ReadFromList(s)
    /\ \A s \in Searches : FirstSearch(s) /\ search[s].was => NotPassedBy(s)

LEMMA PageStarts ==
    ASSUME NEW p \in Nat, p >= 1
    PROVE  /\ PageStart(p) \in Nat /\ PageStart(1) = 0
           /\ PageStart(p + 1) = PageStart(p) + PageSize
  <1>1. PageSize \in Nat
    BY TxByNonceAssumption
  <1>2. p - 1 \in Nat
    OBVIOUS
  <1> QED
    BY <1>1, <1>2 DEF PageStart

LEMMA OutgoingElement ==
    ASSUME NEW l \in Seq(ListNonces \union {Incoming}), NEW n \in ListNonces
    PROVE  n \in Outgoing(l) <=> \E i \in DOMAIN l : l[i] = n
  <1>1. n # Incoming
    BY TxByNonceAssumption DEF ListNonces, Incoming
  <1> QED
    BY <1>1 DEF Outgoing

\* One search changes, and neither the list nor what is kept.
LEMMA SearchMoves ==
    ASSUME SearchInv, NEW s \in Searches, NEW r, search' = [search EXCEPT ![s] = r],
           r \in SearchState,
           UNCHANGED list, cache' \subseteq Outgoing(list), page' \in Nat,
           searchFailures' \in 0..MaxExplorerFailures,
           r.at \in {"idle", "resume"} => page' = page /\ cache' = cache /\ search[s].at \in {"idle", "resume"},
           r.at = "idle" => search[s].at = "idle",
           r.todo \subseteq Outgoing(list),
           r.at \in {"query", "pages", "insert"} => r.page >= 1,
           r.at \in {"pages", "insert"} =>
             \A i \in DOMAIN r.got : /\ PageStart(r.page) + i \in DOMAIN list
                                     /\ r.got[i] = list[PageStart(r.page) + i],
           FirstSearch(s) /\ r.was =>
             /\ r.answer # "missing"
             /\ r.at \in {"resume", "query", "pages", "insert"} => r.nonce \in Outgoing(list)
             /\ r.at \in {"query", "pages", "insert"} =>
                  \A i \in DOMAIN list : i <= PageStart(r.page) => list[i] # r.nonce
             /\ r.at \in {"pages", "insert"} /\ Len(r.got) < PageSize =>
                  \E k \in DOMAIN list : k <= PageStart(r.page) + Len(r.got) /\ list[k] = r.nonce
    PROVE  SearchInv'
  <1>1. search'[s] = r /\ \A o \in Searches \ {s} : search'[o] = search[o]
    BY DEF SearchInv, SearchTypeOK
  <1>2. SearchTypeOK'
    <2>1. cache' \subseteq ListNonces
      BY DEF SearchInv, SearchTypeOK, Outgoing
    <2>2. search' \in [Searches -> SearchState]
      BY DEF SearchInv, SearchTypeOK
    <2>3. list' \in Seq(ListNonces \union {Incoming}) /\ Len(list') <= MaxList
      BY DEF SearchInv, SearchTypeOK
    <2> QED
      BY <2>1, <2>2, <2>3 DEF SearchTypeOK
  <1>3. CacheIsMined'
    BY DEF CacheIsMined
  <1>4. StartsClean'
    <2> SUFFICES ASSUME \A o \in Searches : search'[o].at \in {"idle", "resume"} PROVE page' = 0 /\ cache' = {}
      BY DEF StartsClean
    <2>1. page' = page /\ cache' = cache /\ \A o \in Searches : search[o].at \in {"idle", "resume"}
      BY <1>1
    <2> QED
      BY <2>1 DEF SearchInv, StartsClean
  <1>5. \A o \in Searches : ReadFromList(o)'
    <2>1. ReadFromList(s)'
      BY <1>1 DEF ReadFromList
    <2>2. ASSUME NEW o \in Searches \ {s} PROVE ReadFromList(o)'
      <3>1. search'[o] = search[o] /\ ReadFromList(o)
        BY <1>1 DEF SearchInv
      <3> QED
        BY <3>1 DEF ReadFromList
    <2> QED
      BY <2>1, <2>2
  <1>6. \A o \in Searches : FirstSearch(o)' => FirstSearch(o)
    BY <1>1 DEF FirstSearch
  <1>7. ASSUME NEW o \in Searches, FirstSearch(o)', search'[o].was PROVE NotPassedBy(o)'
    <2>1. CASE o = s
      BY <1>1, <1>6, <1>7, <2>1 DEF NotPassedBy
    <2>2. CASE o # s
      <3>1. search'[o] = search[o] /\ NotPassedBy(o)
        BY <1>1, <1>6, <1>7, <2>2 DEF SearchInv
      <3> QED
        BY <3>1 DEF NotPassedBy
    <2> QED
      BY <2>1, <2>2
  <1> QED
    BY <1>2, <1>3, <1>4, <1>5, <1>7 DEF SearchInv

LEMMA SearchTypes ==
    ASSUME SearchInv, NEW s \in Searches
    PROVE  /\ search[s] \in SearchState
           /\ list \in Seq(ListNonces \union {Incoming}) /\ page \in Nat /\ cache \subseteq Outgoing(list)
           /\ searchFailures \in 0..MaxExplorerFailures /\ DOMAIN search = Searches
           /\ ReadFromList(s) /\ (FirstSearch(s) /\ search[s].was => NotPassedBy(s))
  BY DEF SearchInv, SearchTypeOK, CacheIsMined

\* A search that ends with an answer.
LEMMA DoneKeeps ==
    ASSUME SearchInv, NEW s \in Searches, NEW answer \in {"found", "missing", "error"}, Done(s, answer),
           search[s].at # "idle", UNCHANGED list, cache' \subseteq Outgoing(list), page' \in Nat,
           searchFailures' \in 0..MaxExplorerFailures,
           answer = "missing" => ~(FirstSearch(s) /\ search[s].was)
    PROVE  SearchInv'
  <1> DEFINE r == [NoSearch EXCEPT !.at = "done", !.nonce = search[s].nonce, !.answer = answer, !.was = search[s].was]
  <1>1. NoSearch \in SearchState
    BY TxByNonceAssumption DEF NoSearch, SearchState, ListNonces
  <1>2. r \in SearchState
    BY <1>1, SearchTypes DEF SearchState
  <1>3. search' = [search EXCEPT ![s] = r]
    BY DEF Done
  <1>4. r.at = "done" /\ r.todo = {} /\ r.was = search[s].was /\ r.answer = answer
    BY DEF NoSearch
  <1> HIDE DEF r
  <1> QED
    BY <1>2, <1>3, <1>4, SearchMoves

LEMMA SearchInitHolds == SearchInit => SearchInv
  <1> SUFFICES ASSUME SearchInit PROVE SearchInv
    OBVIOUS
  <1>1. \A s \in Searches : search[s] = NoSearch
    BY DEF SearchInit
  <1>2. NoSearch \in SearchState /\ NoSearch.at = "idle" /\ NoSearch.todo = {} /\ NoSearch.answer = "none"
    BY TxByNonceAssumption DEF NoSearch, SearchState, ListNonces
  <1>3. list \in Seq(ListNonces \union {Incoming}) /\ Len(list) <= MaxList
    BY TxByNonceAssumption DEF SearchInit
  <1>4. SearchTypeOK
    BY <1>2, <1>3, TxByNonceAssumption DEF SearchInit, SearchTypeOK
  <1>5. CacheIsMined /\ StartsClean
    BY DEF SearchInit, CacheIsMined, StartsClean
  <1>6. \A s \in Searches : ReadFromList(s) /\ NotPassedBy(s)
    BY <1>1, <1>2 DEF ReadFromList, NotPassedBy
  <1> QED
    BY <1>4, <1>5, <1>6 DEF SearchInv

LEMMA MineTransactionKeeps == ASSUME SearchInv, MineTransaction PROVE SearchInv'
  <1>1. PICK t \in ListNonces \union {Incoming} : list' = Append(list, t)
    BY DEF MineTransaction
  <1>2. UNCHANGED <<page, cache, search, searchFailures>> /\ Len(list) < MaxList
    BY DEF MineTransaction
  <1>3. list \in Seq(ListNonces \union {Incoming}) /\ MaxList \in Nat
    BY TxByNonceAssumption DEF SearchInv, SearchTypeOK
  <1>4. /\ list' \in Seq(ListNonces \union {Incoming}) /\ Len(list') = Len(list) + 1
        /\ DOMAIN list \subseteq DOMAIN list' /\ \A i \in DOMAIN list : list'[i] = list[i]
        /\ \A i \in DOMAIN list' : i \in DOMAIN list \/ i > Len(list)
    BY <1>1, <1>3
  <1>5. Outgoing(list) \subseteq Outgoing(list')
    BY <1>4 DEF Outgoing
  <1>6. SearchTypeOK'
    BY <1>2, <1>3, <1>4 DEF SearchInv, SearchTypeOK
  <1>7. CacheIsMined' /\ StartsClean'
    BY <1>2, <1>5 DEF SearchInv, CacheIsMined, StartsClean
  <1>8. ASSUME NEW s \in Searches PROVE ReadFromList(s)'
    <2>1. ReadFromList(s) /\ search'[s] = search[s]
      BY <1>2 DEF SearchInv
    <2> QED
      BY <1>4, <1>5, <2>1 DEF ReadFromList
  <1>9. ASSUME NEW s \in Searches, FirstSearch(s)', search'[s].was PROVE NotPassedBy(s)'
    <2>1. NotPassedBy(s) /\ search'[s] = search[s]
      BY <1>2, <1>9 DEF SearchInv, FirstSearch
    <2>2. search[s].at \in {"query", "pages", "insert"} => PageStart(search[s].page) < Len(list)
      <3> SUFFICES ASSUME search[s].at \in {"query", "pages", "insert"} PROVE PageStart(search[s].page) < Len(list)
        OBVIOUS
      <3>1. search[s].nonce \in ListNonces /\ search[s].page \in Nat /\ search[s].page >= 1
        BY SearchTypes DEF ReadFromList, SearchState
      <3>2. PICK k \in DOMAIN list : list[k] = search[s].nonce
        BY <1>3, <2>1, <3>1, OutgoingElement DEF NotPassedBy
      <3>3. ~(k <= PageStart(search[s].page))
        BY <2>1, <3>2 DEF NotPassedBy
      <3>4. PageStart(search[s].page) \in Nat
        BY <3>1, PageStarts
      <3> QED
        BY <1>3, <3>2, <3>3, <3>4
    <2>3. search'[s].answer # "missing"
      BY <2>1 DEF NotPassedBy
    <2>4. search'[s].at \in {"resume", "query", "pages", "insert"} => search'[s].nonce \in Outgoing(list')
      BY <1>5, <2>1 DEF NotPassedBy
    <2>5. search'[s].at \in {"query", "pages", "insert"} =>
            \A i \in DOMAIN list' : i <= PageStart(search'[s].page) => list'[i] # search'[s].nonce
      <3> SUFFICES ASSUME search[s].at \in {"query", "pages", "insert"}, NEW i \in DOMAIN list',
                          i <= PageStart(search[s].page)
                   PROVE  list'[i] # search[s].nonce
        BY <2>1
      <3>1. search[s].page \in Nat /\ search[s].page >= 1
        BY SearchTypes DEF ReadFromList, SearchState
      <3>2. PageStart(search[s].page) \in Nat
        BY <3>1, PageStarts
      <3>3. i \in DOMAIN list
        BY <1>3, <1>4, <2>2, <3>2
      <3> QED
        BY <1>4, <2>1, <3>3 DEF NotPassedBy
    <2>6. search'[s].at \in {"pages", "insert"} /\ Len(search'[s].got) < PageSize =>
            \E k \in DOMAIN list' : /\ k <= PageStart(search'[s].page) + Len(search'[s].got)
                                    /\ list'[k] = search'[s].nonce
      BY <1>4, <2>1 DEF NotPassedBy
    <2> QED
      BY <2>3, <2>4, <2>5, <2>6 DEF NotPassedBy, PageStart
  <1> QED
    BY <1>6, <1>7, <1>8, <1>9 DEF SearchInv

LEMMA QueryCachedKeeps == ASSUME SearchInv, NEW s \in Searches, QueryCachedTransactions(s) PROVE SearchInv'
  <1>1. PICK n \in ListNonces :
         search' = [search EXCEPT
                      ![s].at = IF n \in cache THEN "done" ELSE "resume",
                      ![s].nonce = n,
                      ![s].was = n \in Outgoing(list),
                      ![s].answer = IF n \in cache THEN "found" ELSE "none"]
    BY DEF QueryCachedTransactions
  <1> DEFINE r == [search[s] EXCEPT !.at = IF n \in cache THEN "done" ELSE "resume", !.nonce = n,
                                    !.was = n \in Outgoing(list),
                                    !.answer = IF n \in cache THEN "found" ELSE "none"]
  <1>2. search' = [search EXCEPT ![s] = r]
    BY <1>1, SearchTypes
  <1>3. r \in SearchState
    <2>1. search[s] \in SearchState
      BY SearchTypes
    <2> DEFINE place == IF n \in cache THEN "done" ELSE "resume"
               found == IF n \in cache THEN "found" ELSE "none"
               there == n \in Outgoing(list)
    <2>2. place \in {"done", "resume"} /\ found \in {"found", "none"} /\ there \in BOOLEAN
      OBVIOUS
    <2> HIDE DEF place, found, there
    <2>3. [search[s] EXCEPT !.at = place, !.nonce = n, !.was = there, !.answer = found] \in SearchState
      BY <2>1, <2>2 DEF SearchState
    <2> QED
      BY <2>3 DEF place, found, there
  <1>4. /\ r.at = (IF n \in cache THEN "done" ELSE "resume") /\ r.nonce = n /\ r.todo = search[s].todo
        /\ r.was = (n \in Outgoing(list)) /\ r.answer = (IF n \in cache THEN "found" ELSE "none")
    BY SearchTypes DEF SearchState
  <1>5. search[s].at = "idle" /\ UNCHANGED <<list, page, cache, searchFailures>>
    BY DEF QueryCachedTransactions
  <1>6. r.todo \subseteq Outgoing(list)
    BY <1>4, SearchTypes DEF ReadFromList
  <1> HIDE DEF r
  <1> QED
    BY <1>2, <1>3, <1>4, <1>5, <1>6, SearchTypes, SearchMoves

LEMMA GetLastPageKeeps == ASSUME SearchInv, NEW s \in Searches, GetLastPageQueried(s) PROVE SearchInv'
  <1> DEFINE r == [search[s] EXCEPT !.at = "query", !.page = page + 1]
  <1>1. search' = [search EXCEPT ![s] = r]
    BY SearchTypes DEF GetLastPageQueried
  <1>2. r \in SearchState
    <2>1. search[s] \in SearchState /\ page + 1 \in Nat
      BY SearchTypes
    <2> QED
      BY <2>1 DEF SearchState
  <1>3. /\ r.at = "query" /\ r.page = page + 1 /\ r.todo = search[s].todo /\ r.nonce = search[s].nonce
        /\ r.was = search[s].was /\ r.answer = search[s].answer
    BY SearchTypes DEF SearchState
  <1>4. search[s].at = "resume" /\ UNCHANGED <<list, page, cache, searchFailures>>
    BY DEF GetLastPageQueried
  <1>5. r.todo \subseteq Outgoing(list) /\ r.page >= 1
    BY <1>3, SearchTypes DEF ReadFromList
  <1>6. ASSUME FirstSearch(s), r.was
        PROVE  /\ r.answer # "missing" /\ r.nonce \in Outgoing(list)
               /\ \A i \in DOMAIN list : i <= PageStart(r.page) => list[i] # r.nonce
    <2>1. \A o \in Searches : search[o].at \in {"idle", "resume"}
      BY <1>4, <1>6 DEF FirstSearch
    <2>2. page = 0
      BY <2>1 DEF SearchInv, StartsClean
    <2>3. PageStart(r.page) = 0
      BY <1>3, <2>2, PageStarts
    <2>4. NotPassedBy(s)
      BY <1>3, <1>6, SearchTypes
    <2>5. \A i \in DOMAIN list : ~(i <= 0)
      BY SearchTypes
    <2> QED
      BY <1>3, <1>4, <2>3, <2>4, <2>5 DEF NotPassedBy
  <1> HIDE DEF r
  <1> QED
    BY <1>1, <1>2, <1>3, <1>4, <1>5, <1>6, SearchTypes, SearchMoves

\* A page is the stretch of the list from its first entry, and short only at the end.
LEMMA PageIsStretch ==
    ASSUME NEW p \in Nat, p >= 1, list \in Seq(ListNonces \union {Incoming})
    PROVE  /\ Page(p) \in Seq(ListNonces \union {Incoming})
           /\ \A i \in DOMAIN Page(p) : PageStart(p) + i \in DOMAIN list /\ Page(p)[i] = list[PageStart(p) + i]
           /\ \A k \in DOMAIN list : k > PageStart(p) /\ Len(Page(p)) < PageSize => k <= PageStart(p) + Len(Page(p))
  <1>1. PageStart(p) \in Nat /\ PageSize \in Nat /\ Len(list) \in Nat
    <2>1. PageStart(p) \in Nat
      BY PageStarts
    <2>2. PageSize \in Nat
      BY TxByNonceAssumption
    <2> QED
      BY <2>1, <2>2
  <1>2. PageEnd(p) \in Nat /\ PageEnd(p) <= Len(list) /\ PageEnd(p) <= PageStart(p) + PageSize
        /\ (PageEnd(p) = Len(list) \/ PageEnd(p) = PageStart(p) + PageSize)
    BY <1>1 DEF PageEnd
  <1>3. CASE PageEnd(p) <= PageStart(p)
    <2>1. Page(p) = <<>>
      BY <1>1, <1>2, <1>3 DEF Page
    <2>2. Len(list) <= PageStart(p)
      BY <1>1, <1>2, <1>3, TxByNonceAssumption
    <2> QED
      BY <1>1, <2>1, <2>2
  <1>4. CASE PageEnd(p) > PageStart(p)
    <2>1. /\ Page(p) \in Seq(ListNonces \union {Incoming}) /\ Len(Page(p)) = PageEnd(p) - PageStart(p)
          /\ \A i \in 1..(PageEnd(p) - PageStart(p)) : Page(p)[i] = list[PageStart(p) + i]
      BY <1>1, <1>2, <1>4, SubSeqProperties DEF Page
    <2>2. \A i \in DOMAIN Page(p) : i \in 1..(PageEnd(p) - PageStart(p))
      BY <2>1
    <2> QED
      BY <1>1, <1>2, <1>4, <2>1, <2>2
  <1> QED
    BY <1>1, <1>2, <1>3, <1>4

LEMMA QueryEtherscanKeeps == ASSUME SearchInv, NEW s \in Searches, QueryEtherscan(s) PROVE SearchInv'
  <1> DEFINE got == Page(search[s].page)
             r == [search[s] EXCEPT !.at = "pages", !.got = got]
  <1>1. search' = [search EXCEPT ![s] = r]
    BY SearchTypes DEF QueryEtherscan
  <1>2. search[s] \in SearchState /\ search[s].at = "query" /\ UNCHANGED <<list, page, cache, searchFailures>>
        /\ list \in Seq(ListNonces \union {Incoming}) /\ search[s].page \in Nat /\ search[s].page >= 1
    BY SearchTypes DEF QueryEtherscan, ReadFromList, SearchState
  <1>3. /\ got \in Seq(ListNonces \union {Incoming})
        /\ \A i \in DOMAIN got : /\ PageStart(search[s].page) + i \in DOMAIN list
                                 /\ got[i] = list[PageStart(search[s].page) + i]
        /\ \A k \in DOMAIN list : k > PageStart(search[s].page) /\ Len(got) < PageSize
                                      => k <= PageStart(search[s].page) + Len(got)
    BY <1>2, PageIsStretch
  <1> HIDE DEF got
  <1>4. r \in SearchState
    BY <1>2, <1>3 DEF SearchState
  <1>5. /\ r.at = "pages" /\ r.page = search[s].page /\ r.todo = search[s].todo /\ r.nonce = search[s].nonce
        /\ r.was = search[s].was /\ r.answer = search[s].answer /\ r.got = got
    BY <1>2 DEF SearchState
  <1>6. r.todo \subseteq Outgoing(list)
    BY <1>5, SearchTypes DEF ReadFromList
  <1>7. ASSUME FirstSearch(s), r.was
        PROVE  /\ r.answer # "missing" /\ r.nonce \in Outgoing(list)
               /\ \A i \in DOMAIN list : i <= PageStart(r.page) => list[i] # r.nonce
               /\ Len(r.got) < PageSize =>
                    \E k \in DOMAIN list : k <= PageStart(r.page) + Len(r.got) /\ list[k] = r.nonce
    <2>1. NotPassedBy(s)
      BY <1>5, <1>7, SearchTypes
    <2>2. PICK k \in DOMAIN list : list[k] = search[s].nonce
      <3>1. search[s].nonce \in ListNonces
        BY <1>2 DEF SearchState
      <3> QED
        BY <1>2, <2>1, <3>1, OutgoingElement DEF NotPassedBy
    <2>3. k > PageStart(search[s].page)
      <3>1. ~(k <= PageStart(search[s].page))
        BY <1>2, <2>1, <2>2 DEF NotPassedBy
      <3>2. PageStart(search[s].page) \in Nat
        BY <1>2, PageStarts
      <3>3. k \in Nat
        BY <1>2
      <3> QED
        BY <3>1, <3>2, <3>3
    <2> QED
      BY <1>2, <1>3, <1>5, <2>1, <2>2, <2>3 DEF NotPassedBy
  <1> HIDE DEF r
  <1> QED
    BY <1>1, <1>2, <1>3, <1>4, <1>5, <1>6, <1>7, SearchTypes, SearchMoves

LEMMA QueryFailsKeeps == ASSUME SearchInv, NEW s \in Searches, QueryFails(s) PROVE SearchInv'
  <1>1. /\ search[s].at = "query" /\ Done(s, "error") /\ UNCHANGED <<list, page, cache>>
        /\ searchFailures' \in 0..MaxExplorerFailures
    BY SearchTypes, TxByNonceAssumption DEF QueryFails
  <1> QED
    BY <1>1, SearchTypes, DoneKeeps

LEMMA PutTransactionsKeeps == ASSUME SearchInv, NEW s \in Searches, PutTransactions(s) PROVE SearchInv'
  <1>1. search[s].at = "pages" /\ UNCHANGED <<list, cache, searchFailures>>
    BY DEF PutTransactions
  <1>2. CASE Done(s, "error") /\ UNCHANGED page
    BY <1>1, <1>2, SearchTypes, DoneKeeps
  <1> DEFINE r == [search[s] EXCEPT !.at = "insert", !.todo = Outgoing(search[s].got)]
  <1>3. CASE page' = (IF page = 0 THEN search[s].page ELSE page)
             /\ search' = [search EXCEPT ![s].at = "insert", ![s].todo = Outgoing(search[s].got)]
    <2>1. search' = [search EXCEPT ![s] = r]
      BY <1>3, SearchTypes
    <2>2. search[s] \in SearchState /\ ReadFromList(s)
      BY SearchTypes
    <2>3. Outgoing(search[s].got) \subseteq ListNonces /\ Outgoing(search[s].got) \subseteq Outgoing(list)
      <3>1. search[s].got \in Seq(ListNonces \union {Incoming})
        BY <2>2 DEF SearchState
      <3>2. \A i \in DOMAIN search[s].got : search[s].got[i] \in {list[k] : k \in DOMAIN list}
        BY <1>1, <2>2 DEF ReadFromList
      <3> QED
        BY <3>1, <3>2 DEF Outgoing
    <2>4. r \in SearchState
      BY <2>2, <2>3 DEF SearchState
    <2>5. /\ r.at = "insert" /\ r.page = search[s].page /\ r.todo = Outgoing(search[s].got)
          /\ r.nonce = search[s].nonce /\ r.was = search[s].was /\ r.answer = search[s].answer
          /\ r.got = search[s].got
      BY <2>2 DEF SearchState
    <2>6. r.page >= 1 /\ page' \in Nat
      BY <1>1, <1>3, <2>2, <2>5, SearchTypes DEF ReadFromList, SearchState
    <2>7. ASSUME FirstSearch(s), r.was
          PROVE  /\ r.answer # "missing" /\ r.nonce \in Outgoing(list)
                 /\ \A i \in DOMAIN list : i <= PageStart(r.page) => list[i] # r.nonce
                 /\ Len(r.got) < PageSize =>
                      \E k \in DOMAIN list : k <= PageStart(r.page) + Len(r.got) /\ list[k] = r.nonce
      <3>1. NotPassedBy(s)
        BY <2>5, <2>7, SearchTypes
      <3> QED
        BY <1>1, <2>5, <3>1 DEF NotPassedBy
    <2>8. \A i \in DOMAIN r.got : /\ PageStart(r.page) + i \in DOMAIN list
                                  /\ r.got[i] = list[PageStart(r.page) + i]
      BY <1>1, <2>2, <2>5 DEF ReadFromList
    <2> HIDE DEF r
    <2> QED
      BY <1>1, <2>1, <2>3, <2>4, <2>5, <2>6, <2>7, <2>8, SearchTypes, SearchMoves
  <1> QED
    BY <1>2, <1>3 DEF PutTransactions

LEMMA InsertKeeps == ASSUME SearchInv, NEW s \in Searches, InsertTransaction(s) PROVE SearchInv'
  <1>1. PICK n \in search[s].todo :
          \/ n \in cache /\ Done(s, "error") /\ UNCHANGED cache
          \/ cache' = cache \union {n} /\ search' = [search EXCEPT ![s].todo = @ \ {n}]
    BY DEF InsertTransaction
  <1>2. search[s].at = "insert" /\ UNCHANGED <<list, page, searchFailures>>
    BY DEF InsertTransaction
  <1>3. search[s] \in SearchState /\ ReadFromList(s) /\ cache \subseteq Outgoing(list)
    BY SearchTypes
  <1>4. CASE Done(s, "error") /\ UNCHANGED cache
    BY <1>2, <1>4, SearchTypes, DoneKeeps
  <1> DEFINE r == [search[s] EXCEPT !.todo = search[s].todo \ {n}]
  <1>5. CASE cache' = cache \union {n} /\ search' = [search EXCEPT ![s].todo = @ \ {n}]
    <2>1. search' = [search EXCEPT ![s] = r]
      BY <1>5, SearchTypes
    <2>2. r \in SearchState
      BY <1>3 DEF SearchState
    <2>3. /\ r.at = "insert" /\ r.page = search[s].page /\ r.todo = search[s].todo \ {n}
          /\ r.nonce = search[s].nonce /\ r.was = search[s].was /\ r.answer = search[s].answer
          /\ r.got = search[s].got
      BY <1>2, <1>3 DEF SearchState
    <2>4. n \in Outgoing(list) /\ r.todo \subseteq Outgoing(list)
      BY <1>1, <1>3, <2>3 DEF ReadFromList
    <2>5. r.page >= 1 /\ \A i \in DOMAIN r.got : /\ PageStart(r.page) + i \in DOMAIN list
                                                 /\ r.got[i] = list[PageStart(r.page) + i]
      BY <1>2, <1>3, <2>3 DEF ReadFromList
    <2>6. ASSUME FirstSearch(s), r.was
          PROVE  /\ r.answer # "missing" /\ r.nonce \in Outgoing(list)
                 /\ \A i \in DOMAIN list : i <= PageStart(r.page) => list[i] # r.nonce
                 /\ Len(r.got) < PageSize =>
                      \E k \in DOMAIN list : k <= PageStart(r.page) + Len(r.got) /\ list[k] = r.nonce
      <3>1. NotPassedBy(s)
        BY <2>3, <2>6, SearchTypes
      <3> QED
        BY <1>2, <2>3, <3>1 DEF NotPassedBy
    <2>7. cache' \subseteq Outgoing(list)
      BY <1>3, <1>5, <2>4
    <2> HIDE DEF r
    <2> QED
      BY <1>2, <2>1, <2>2, <2>3, <2>4, <2>5, <2>6, <2>7, SearchTypes, SearchMoves
  <1> QED
    BY <1>1, <1>4, <1>5

LEMMA NextPageKeeps == ASSUME SearchInv, NEW s \in Searches, NextPage(s) PROVE SearchInv'
  <1>1. search[s].at = "insert" /\ UNCHANGED <<list, page, cache, searchFailures>>
    BY DEF NextPage
  <1>2. /\ search[s] \in SearchState /\ ReadFromList(s)
        /\ search[s].nonce \in ListNonces /\ search[s].got \in Seq(ListNonces \union {Incoming})
        /\ search[s].page \in Nat /\ search[s].page >= 1 /\ list \in Seq(ListNonces \union {Incoming})
    BY <1>1, SearchTypes DEF SearchState, ReadFromList
  <1>3. PageStart(search[s].page) \in Nat /\ PageStart(search[s].page + 1) = PageStart(search[s].page) + PageSize
    BY <1>2, PageStarts
  <1>4. PageSize \in Nat
    BY TxByNonceAssumption
  <1>5. CASE Done(s, "found")
    BY <1>1, <1>5, SearchTypes, DoneKeeps
  <1>6. ASSUME search[s].nonce \notin Outgoing(search[s].got), NEW k \in DOMAIN list, list[k] = search[s].nonce,
               k > PageStart(search[s].page)
        PROVE  k > PageStart(search[s].page) + Len(search[s].got)
    <2> SUFFICES ASSUME k <= PageStart(search[s].page) + Len(search[s].got) PROVE FALSE
      BY <1>2, <1>3
    <2> DEFINE i == k - PageStart(search[s].page)
    <2>1. i \in DOMAIN search[s].got /\ PageStart(search[s].page) + i = k
      BY <1>2, <1>3, <1>6
    <2>2. search[s].got[i] = list[k]
      BY <1>1, <1>2, <2>1 DEF ReadFromList
    <2> QED
      BY <1>2, <1>6, <2>1, <2>2, OutgoingElement
  <1>7. CASE search[s].nonce \notin Outgoing(search[s].got) /\ LastPage(s) /\ Done(s, "missing")
    <2>1. ~(FirstSearch(s) /\ search[s].was)
      <3> SUFFICES ASSUME NotPassedBy(s) PROVE FALSE
        BY SearchTypes
      <3>1. PICK k \in DOMAIN list : k <= PageStart(search[s].page) + Len(search[s].got) /\ list[k] = search[s].nonce
        BY <1>1, <1>7 DEF NotPassedBy, LastPage
      <3>2. ~(k <= PageStart(search[s].page))
        BY <1>1, <3>1 DEF NotPassedBy
      <3>3. k \in Nat
        BY <1>2
      <3>4. k > PageStart(search[s].page)
        BY <1>3, <3>2, <3>3
      <3>5. k > PageStart(search[s].page) + Len(search[s].got)
        BY <1>6, <1>7, <3>1, <3>4
      <3>6. Len(search[s].got) \in Nat
        BY <1>2
      <3> QED
        BY <1>3, <3>1, <3>3, <3>5, <3>6
    <2> QED
      BY <1>1, <1>7, <2>1, SearchTypes, DoneKeeps
  <1> DEFINE r == [search[s] EXCEPT !.at = "query", !.page = search[s].page + 1]
  <1>8. CASE /\ search[s].nonce \notin Outgoing(search[s].got) /\ ~LastPage(s)
             /\ search' = [search EXCEPT ![s].at = "query", ![s].page = @ + 1]
    <2>1. search' = [search EXCEPT ![s] = r]
      BY <1>8, SearchTypes
    <2>2. r \in SearchState
      <3>1. search[s] \in SearchState
        BY <1>2
      <3>2. search[s].page + 1 \in Nat
        BY <1>2
      <3> QED
        BY <3>1, <3>2 DEF SearchState
    <2>3. /\ r.at = "query" /\ r.page = search[s].page + 1 /\ r.todo = search[s].todo
          /\ r.nonce = search[s].nonce /\ r.was = search[s].was /\ r.answer = search[s].answer
      BY <1>2 DEF SearchState
    <2>4. r.todo \subseteq Outgoing(list) /\ r.page >= 1
      BY <1>2, <2>3 DEF ReadFromList
    <2>5. ASSUME FirstSearch(s), r.was
          PROVE  /\ r.answer # "missing" /\ r.nonce \in Outgoing(list)
                 /\ \A i \in DOMAIN list : i <= PageStart(r.page) => list[i] # r.nonce
      <3>1. NotPassedBy(s)
        BY <2>3, <2>5, SearchTypes
      <3>2. ASSUME NEW i \in DOMAIN list, i <= PageStart(r.page), list[i] = r.nonce PROVE FALSE
        <4>1. i \in Nat /\ Len(search[s].got) \in Nat /\ ~(Len(search[s].got) < PageSize)
          BY <1>2, <1>8 DEF LastPage
        <4>2. ~(i <= PageStart(search[s].page))
          BY <1>1, <2>3, <3>1, <3>2 DEF NotPassedBy
        <4>3. i > PageStart(search[s].page)
          BY <1>3, <4>1, <4>2
        <4>4. i > PageStart(search[s].page) + Len(search[s].got)
          BY <1>6, <1>8, <2>3, <3>2, <4>3
        <4>5. i <= PageStart(search[s].page) + PageSize
          BY <1>3, <2>3, <3>2
        <4> QED
          BY <1>3, <1>4, <4>1, <4>4, <4>5
      <3> QED
        BY <1>1, <2>3, <3>1, <3>2 DEF NotPassedBy
    <2> HIDE DEF r
    <2> QED
      BY <1>1, <2>1, <2>2, <2>3, <2>4, <2>5, SearchTypes, SearchMoves
  <1> QED
    BY <1>5, <1>7, <1>8 DEF NextPage

LEMMA SearchNextKeeps == SearchInv /\ [SearchNext]_searchVars => SearchInv'
  <1> SUFFICES ASSUME SearchInv, [SearchNext]_searchVars PROVE SearchInv'
    OBVIOUS
  <1>1. CASE MineTransaction
    BY <1>1, MineTransactionKeeps
  <1>2. ASSUME NEW s \in Searches, SearchStep(s) PROVE SearchInv'
    BY <1>2, QueryCachedKeeps, GetLastPageKeeps, QueryEtherscanKeeps, QueryFailsKeeps, PutTransactionsKeeps,
       InsertKeeps, NextPageKeeps DEF SearchStep
  <1>3. CASE UNCHANGED searchVars
    <2>1. UNCHANGED <<list, page, cache, search, searchFailures>>
      BY <1>3 DEF searchVars
    <2> QED
      BY <2>1 DEF SearchInv, SearchTypeOK, CacheIsMined, StartsClean, ReadFromList, NotPassedBy, FirstSearch, PageStart
  <1> QED
    BY <1>1, <1>2, <1>3 DEF SearchNext

LEMMA SearchIsSound == SearchInv => SearchTypeOK /\ CacheIsMined /\ FirstSearchFinds
  <1> SUFFICES ASSUME SearchInv PROVE SearchTypeOK /\ CacheIsMined /\ FirstSearchFinds
    OBVIOUS
  <1>1. ASSUME NEW s \in Searches, FirstSearch(s), search[s].was PROVE search[s].answer # "missing"
    <2>1. NotPassedBy(s)
      BY <1>1, SearchTypes
    <2> QED
      BY <2>1 DEF NotPassedBy
  <1>2. FirstSearchFinds
    BY <1>1 DEF FirstSearchFinds
  <1> QED
    BY <1>2 DEF SearchInv

\* What the searches keep on disk was mined, and the first of them finds what was mined
\* before it, on whatever page of the explorer (queryCachedTransactions, getTransactionByNonce).
THEOREM SearchInvariant == SearchSpec => []SearchInv
  BY SearchInitHolds, SearchNextKeeps, PTL DEF SearchSpec

-----------------------------------------------------------------------------
(* What a server remembers                                                 *)

\* The registration, the balances and the cache of the explorer that a server remembers
\* are so, for any calls of the owner, failures, restarts, passes, requests and searches.
THEOREM ServerRemembers == RegistrationSpec /\ BalancesSpec /\ SearchSpec => []RememberedIsTrue
  <1>1. RegistrationInv /\ BalancesInv /\ SearchInv => RememberedIsTrue
    BY RegistrationIsTrue, BalancesAreKnown, SearchIsSound DEF RememberedIsTrue
  <1> QED
    BY <1>1, RegistrationInvariant, BalancesInvariant, SearchInvariant, PTL

\* Money is not sent twice, not below the manager's minimum, and not to the owner too early,
\* in any step of the two loops that send it.
THEOREM MoneyIsKept == RegistrationSpec /\ BalancesSpec => MoneyKept
  <1>1. ASSUME RegistrationInv, BalancesInv, [RegistrationNext]_registrationVars, [BalancesNext]_balanceVars
        PROVE  (~Overlap => NoRepeatedRefillStep /\ ManagerKeepsMinimumStep) /\ FundsLeaveInTimeStep
    BY <1>1, RefillsOnce, RefillLeavesMinimum, FundsLeave
  <1> QED
    BY <1>1, RegistrationInvariant, BalancesInvariant, PTL DEF RegistrationSpec, BalancesSpec, MoneyKept
=============================================================================
