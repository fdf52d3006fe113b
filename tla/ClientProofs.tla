---------------------------- MODULE ClientProofs ----------------------------
(***************************************************************************)
(* The client's side, for any values of the constants.  A call of the      *)
(* relay client, for any number of relays, URLs, preferred relays and      *)
(* requests: no URL is tried twice, no relay is left out, relays that      *)
(* failed come last, and a request is executed once.  The command that     *)
(* registers a relay server, for any options, any number of runs and any   *)
(* failures between their steps, in one terminal: two terminals stake for  *)
(* one manager at the same time, and each stakes what it saw missing.      *)
(* The queries for past events, for any chain and any pages.  The          *)
(* contracts a client resolves, for any paymasters and hubs, and the       *)
(* command that deploys them, for any number of runs.  The accounts, the   *)
(* receipts and the fees of an application, for any calls of it.           *)
(***************************************************************************)
EXTENDS RelayClient, OwnerCommands, LogPages, Deployments, ClientState,
        FiniteSetTheorems, WellFoundedInduction, TLAPS

IsPreferred(u) == u \in Range(Preferred)
Chosen(r, u) == call[r].at = "view" /\ call[r].active.url = u

\* What is signed carries the nonce of its call, which the forwarder takes once.
OneNonce ==
    /\ \A tx \in signed :
         call[tx.request].at \in After /\ tx.nonce = call[tx.request].nonce
    /\ \A r \in Requests : executed[r] > 0 =>
         executed[r] = 1 /\ call[r].at \in After /\ call[r].nonce < nonce

\* Nothing is tried before the selection; whose pings failed or who was tried, or
\* is going to be, is not left.
TriedIsGone(r) ==
    /\ call[r].at \in Before =>
         /\ call[r].known = {} /\ call[r].pingErrors = {}
         /\ \A u \in Urls : call[r].tried[u] = 0
    /\ \A g \in 1..3 : \A i \in call[r].left[g] :
         LET u == call[r].order[g][i].url IN
         /\ call[r].tried[u] = 0
         /\ call[r].at \in Attempts => u # call[r].active.url
    /\ call[r].at = "view" => call[r].tried[call[r].active.url] = 0
    /\ \A u \in Urls : call[r].tried[u] < 2

\* The groups: preferred relays, registered ones that did not fail a short while ago,
\* and registered ones that have failed.
Grouped(r) ==
    /\ \A i \in DOMAIN call[r].order[1] : IsPreferred(call[r].order[1][i].url)
    /\ \A g \in {2, 3} : call[r].order[g] \in Seq([url : Urls, manager : Managers])
    /\ \A i \in DOMAIN call[r].order[2] : call[r].order[2][i].url \notin call[r].recent
    /\ \A i \in DOMAIN call[r].order[3] : call[r].order[3][i].url \notin call[r].clean

\* Who is not left was asked.
AllLeft(r) ==
    /\ call[r].at \in {"race"} \cup Attempts =>
         \A info \in call[r].known :
            \/ IsPreferred(info.url) \/ AskedAt(r, info.url) \/ Chosen(r, info.url)
            \/ \E g \in {2, 3} : \E i \in call[r].left[g] : call[r].order[g][i] = info
    /\ call[r].why = "exhausted" =>
         /\ call[r].at = "failed"
         /\ \A info \in call[r].known : IsPreferred(info.url) \/ AskedAt(r, info.url)

\* A relay that failed is chosen when those that did not were asked.
CleanFirst(r) ==
    \A u \in call[r].recent : ~IsPreferred(u) /\ (call[r].tried[u] > 0 \/ Chosen(r, u)) =>
        \A info \in call[r].known :
            info.url \in call[r].clean /\ ~IsPreferred(info.url) => AskedAt(r, info.url)

InOrder(r) == TriedIsGone(r) /\ Grouped(r) /\ AllLeft(r) /\ CleanFirst(r)

IInv == TypeOK /\ OneNonce /\ \A r \in Requests : InOrder(r)

-----------------------------------------------------------------------------
(* What the operators of the model return.                                 *)

\* A bounded set of numbers that is not empty has a greatest one.
LEMMA GreatestNumber ==
    ASSUME NEW n \in Nat, NEW S \in SUBSET (1..n), S # {}
    PROVE  \E m \in S : \A k \in S : k <= m
  <1> DEFINE T == {k..n : k \in S}
             R == StrictSubsetOrdering(Nat)
  <1>1. T \subseteq FiniteSubsetsOf(Nat) /\ T # {}
    <2>1. ASSUME NEW k \in S
          PROVE  IsFiniteSet(k..n) /\ k..n \in SUBSET Nat
      BY FS_Interval
    <2> QED
      BY <2>1 DEF FiniteSubsetsOf
  <1>2. IsWellFoundedOn(R, FiniteSubsetsOf(Nat))
    BY FS_StrictSubsetOrderingWellFounded
  <1> HIDE DEF R, T
  <1>3. PICK X \in T : \A Y \in T : ~ (<<Y, X>> \in R)
    BY <1>1, <1>2, WFMin
  <1>4. PICK m \in S : X = m..n
    BY <1>3 DEF T
  <1>5. ASSUME NEW k \in S, k > m
        PROVE  FALSE
    <2>1. k..n \in T
      BY DEF T
    <2>2. k..n \subseteq m..n /\ k..n # m..n /\ m..n \in SUBSET Nat /\ k..n \in SUBSET Nat
      <3>1. m \in m..n /\ m \notin k..n
        BY <1>5
      <3> QED
        BY <3>1, <1>5
    <2>3. <<k..n, m..n>> \in R
      BY <2>2 DEF R, StrictSubsetOrdering
    <2> QED
      BY <2>1, <2>3, <1>3, <1>4
  <1> QED
    BY <1>5

LEMMA ElementIn ==
    ASSUME NEW S, NEW s \in Seq(S), NEW i \in DOMAIN s
    PROVE  s[i] \in S
  OBVIOUS

LEMMA WiderSeq ==
    ASSUME NEW S, NEW T, S \subseteq T, NEW s \in Seq(S)
    PROVE  s \in Seq(T)
  <1>1. s \in [1..Len(s) -> S] /\ Len(s) \in Nat
    OBVIOUS
  <1>2. s \in [1..Len(s) -> T]
    BY <1>1
  <1> QED
    BY <1>1, <1>2

\* An order of a finite set names each of its elements.
LEMMA OrdersCover ==
    ASSUME NEW S, IsFiniteSet(S), NEW order \in SetToSeqs(S)
    PROVE  /\ order \in Seq(S)
           /\ \A x \in S : \E i \in DOMAIN order : order[i] = x
  <1> DEFINE n == Cardinality(S)
  <1>1. n \in Nat /\ IsFiniteSet(1..n) /\ Cardinality(1..n) = n
    BY FS_CardinalityType, FS_Interval
  <1>2. order \in [1..n -> S] /\ \A i, j \in 1..n : i # j => order[i] # order[j]
    BY DEF SetToSeqs
  <1>3. order \in Injection(1..n, S)
    BY <1>2 DEF Injection, IsInjective
  <1>4. order \in Surjection(1..n, S)
    BY <1>1, <1>3, FS_Injection
  <1>5. order \in Seq(S)
    BY <1>1, <1>2
  <1> QED
    BY <1>2, <1>4, <1>5 DEF Surjection

\* The next group is the first that has relays left.
LEMMA NextGroupIsFirst ==
    ASSUME NEW left \in [1..3 -> SUBSET Nat], RelaysLeft(left)
    PROVE  /\ NextGroup(left) \in 1..3
           /\ left[NextGroup(left)] # {}
           /\ \A h \in 1..NextGroup(left) - 1 : left[h] = {}
  <1>1. \E g \in 1..3 : left[g] # {} /\ \A h \in 1..g - 1 : left[h] = {}
    <2>1. CASE left[1] # {}
      BY <2>1
    <2>2. CASE left[1] = {} /\ left[2] # {}
      <3>1. \A h \in 1..2 - 1 : h = 1
        OBVIOUS
      <3> QED
        BY <2>2, <3>1
    <2>3. CASE left[1] = {} /\ left[2] = {}
      <3>1. left[3] # {}
        BY <2>3 DEF RelaysLeft
      <3>2. \A h \in 1..3 - 1 : h = 1 \/ h = 2
        OBVIOUS
      <3> QED
        BY <2>3, <3>1, <3>2
    <2> QED
      BY <2>1, <2>2, <2>3
  <1> QED
    BY <1>1 DEF NextGroup

\* Of several infos with one URL the last is taken, and it is one of them.
LEMMA InfoIsAt ==
    ASSUME NEW group \in Seq(Infos), NEW slice \in SUBSET DOMAIN group,
           NEW u \in UrlsAt(group, slice)
    PROVE  \E i \in slice : group[i].url = u /\ InfoAt(group, slice, u) = group[i]
  <1> DEFINE S == {i \in slice : group[i].url = u}
             n == Len(group)
  <1>1. n \in Nat /\ S \in SUBSET (1..n) /\ S # {}
    BY DEF UrlsAt
  <1>2. PICK m \in S : \A k \in S : k <= m
    <2> HIDE DEF S, n
    <2> QED
      BY <1>1, GreatestNumber
  <1>3. m \in slice /\ group[m].url = u /\ \A j \in slice : group[j].url = u => j <= m
    BY <1>2
  <1> DEFINE Greatest(i) == group[i].url = u /\ \A j \in slice : group[j].url = u => j <= i
  <1>4. InfoAt(group, slice, u) = group[CHOOSE i \in slice : Greatest(i)]
    BY DEF InfoAt
  <1>5. Greatest(m)
    BY <1>3
  <1> DEFINE c == CHOOSE i \in slice : Greatest(i)
  <1>6. c \in slice /\ Greatest(c)
    BY <1>3, <1>5
  <1> QED
    BY <1>4, <1>6

\* Who wins has the URL that was pinged and a registered manager; somebody wins
\* unless the relay was preferred.
LEMMA WinnersFit ==
    ASSUME NEW group \in Seq(Infos), NEW slice \in SUBSET DOMAIN group,
           NEW u \in UrlsAt(group, slice) \cup {None},
           known \in Registrar \cup {{}}
    PROVE  /\ \A active \in Winners(group, slice, u) :
                /\ active \in [url : Urls, manager : Managers]
                /\ active.url = u /\ u \in UrlsAt(group, slice)
           /\ u # None /\ group \in Seq([url : Urls, manager : Managers]) =>
                Winners(group, slice, u) # {}
  <1>1. CASE u = None
    BY <1>1 DEF Winners
  <1>2. CASE u # None
    <2>1. u \in UrlsAt(group, slice)
      BY <1>2
    <2>2. PICK i \in slice : group[i].url = u /\ InfoAt(group, slice, u) = group[i]
      BY <2>1, InfoIsAt
    <2>3. group[i] \in Infos
      OBVIOUS
    <2>4. CASE group[i].manager # None
      BY <1>2, <2>1, <2>2, <2>3, <2>4 DEF Winners, Infos
    <2>5. CASE group[i].manager = None
      <3>1. Winners(group, slice, u) =
              {[info EXCEPT !.url = u] : info \in GetRelayInfoForManager(ServerOf[u])}
        BY <1>2, <2>2, <2>5 DEF Winners
      <3>2. \A info \in GetRelayInfoForManager(ServerOf[u]) : info \in [url : Urls, manager : Managers]
        BY ClientAssumption DEF GetRelayInfoForManager
      <3>3. u \in Urls
        BY <2>2, <2>3 DEF Infos
      <3>4. group \notin Seq([url : Urls, manager : Managers])
        <4>1. SUFFICES ASSUME group \in Seq([url : Urls, manager : Managers])
                       PROVE  FALSE
          OBVIOUS
        <4>2. i \in DOMAIN group
          OBVIOUS
        <4>3. group[i] \in [url : Urls, manager : Managers]
          BY <4>1, <4>2, ElementIn, Zenon
        <4>4. None \notin Managers
          BY ClientAssumption
        <4> QED
          BY <4>3, <4>4, <2>5
      <3>5. ASSUME NEW active \in Winners(group, slice, u)
            PROVE  active \in [url : Urls, manager : Managers] /\ active.url = u
        <4>1. PICK info \in GetRelayInfoForManager(ServerOf[u]) : active = [info EXCEPT !.url = u]
          BY <3>1
        <4> QED
          BY <4>1, <3>2, <3>3
      <3> QED
        BY <2>1, <3>4, <3>5
    <2> QED
      BY <2>4, <2>5
  <1> QED
    BY <1>1, <1>2

\* The groups that a call is given hold every relay that is known, and those that
\* failed are in the last.
LEMMA ShuffledFit ==
    ASSUME known \in Registrar \cup {{}}, NEW order \in RelaysShuffled
    PROVE  /\ order \in [1..3 -> Seq(Infos)]
           /\ \A i \in DOMAIN order[1] : IsPreferred(order[1][i].url)
           /\ \A g \in {2, 3} : order[g] \in Seq([url : Urls, manager : Managers])
           /\ \A i \in DOMAIN order[2] : ~HasFailure(order[2][i].url)
           /\ \A i \in DOMAIN order[3] : HasFailure(order[3][i].url)
           /\ \A info \in known : \E g \in {2, 3} : \E i \in DOMAIN order[g] : order[g][i] = info
  <1> DEFINE Fine == {info \in known : ~HasFailure(info.url)}
             Failing == {info \in known : HasFailure(info.url)}
             first == [i \in DOMAIN Preferred |-> [url |-> Preferred[i], manager |-> None]]
             Registered == [url : Urls, manager : Managers]
  <1>1. PICK fine \in SetToSeqs(Fine), failing \in SetToSeqs(Failing) :
            order = <<first, fine, failing>>
    BY DEF RelaysShuffled
  <1>2. IsFiniteSet(known) /\ known \subseteq Registered
    BY ClientAssumption, FS_EmptySet
  <1>3. /\ IsFiniteSet(Fine) /\ Fine \in SUBSET known
        /\ IsFiniteSet(Failing) /\ Failing \in SUBSET known
    BY <1>2, FS_Subset
  <1>4. /\ fine \in Seq(Fine) /\ failing \in Seq(Failing)
        /\ \A x \in Fine : \E i \in DOMAIN fine : fine[i] = x
        /\ \A x \in Failing : \E i \in DOMAIN failing : failing[i] = x
    <2> HIDE DEF Fine, Failing
    <2> QED
      BY <1>3, OrdersCover
  <1>5. first \in Seq(Infos) /\ \A i \in DOMAIN first : IsPreferred(first[i].url)
    <2>1. Preferred \in [1..Len(Preferred) -> Urls] /\ Len(Preferred) \in Nat
      BY ClientAssumption
    <2>2. first \in [1..Len(Preferred) -> Infos]
      BY <2>1 DEF Infos
    <2>3. \A i \in DOMAIN first : first[i].url = Preferred[i] /\ i \in DOMAIN Preferred
      OBVIOUS
    <2> HIDE DEF first
    <2>4. first \in Seq(Infos)
      BY <2>1, <2>2
    <2> QED
      BY <2>3, <2>4 DEF IsPreferred, Range
  <1>6. fine \in Seq(Registered) /\ failing \in Seq(Registered)
    <2>1. Fine \subseteq Registered /\ Failing \subseteq Registered
      BY <1>2
    <2> HIDE DEF Fine, Failing, Registered
    <2> QED
      BY <2>1, <1>4
  <1>7. Registered \subseteq Infos
    BY DEF Infos
  <1>8. /\ \A i \in DOMAIN fine : ~HasFailure(fine[i].url)
        /\ \A i \in DOMAIN failing : HasFailure(failing[i].url)
    <2>1. \A i \in DOMAIN fine : fine[i] \in Fine
      BY <1>4
    <2>2. \A i \in DOMAIN failing : failing[i] \in Failing
      BY <1>4
    <2> QED
      BY <2>1, <2>2
  <1>9. order[1] = first /\ order[2] = fine /\ order[3] = failing
    BY <1>1
  <1>10. order \in [1..3 -> Seq(Infos)]
    <2>1. fine \in Seq(Infos) /\ failing \in Seq(Infos)
      <3> HIDE DEF Registered
      <3> QED
        BY <1>6, <1>7, WiderSeq
    <2> HIDE DEF first
    <2>2. \A g \in 1..3 : g = 1 \/ g = 2 \/ g = 3
      OBVIOUS
    <2>3. DOMAIN order = 1..3 /\ order = [g \in 1..3 |-> order[g]]
      BY <1>1
    <2>4. \A g \in 1..3 : order[g] \in Seq(Infos)
      BY <1>5, <1>9, <2>1, <2>2
    <2> QED
      BY <2>3, <2>4
  <1>11. \A info \in known : \E g \in {2, 3} : \E i \in DOMAIN order[g] : order[g][i] = info
    <2>1. \A info \in known : info \in Fine \/ info \in Failing
      OBVIOUS
    <2> HIDE DEF Fine, Failing
    <2> QED
      BY <2>1, <1>4, <1>9
  <1> HIDE DEF first, Registered
  <1>12. \A g \in {2, 3} : order[g] \in Seq(Registered)
    BY <1>6, <1>9
  <1> QED
    BY <1>5, <1>8, <1>9, <1>10, <1>11, <1>12 DEF Registered

\* What a race leaves of the relays when u won it, or nobody.
Fewer(r, u, errors) ==
    [g \in 1..3 |-> {i \in call[r].left[g] : call[r].order[g][i].url \notin errors \cup {u}}]

Outcome(r, g, u, errors, active) ==
    /\ \A h \in 1..g - 1 : call[r].left[h] = {}
    /\ u # None => \E i \in call[r].left[g] : call[r].order[g][i].url = u
    /\ \/ /\ u = None \/ IsPreferred(u)
          /\ call' = [call EXCEPT ![r].left = Fewer(r, u, errors),
                                  ![r].pingErrors = call[r].pingErrors \cup errors]
       \/ /\ active \in [url : Urls, manager : Managers]
          /\ u = active.url /\ u # None
          /\ call' = [call EXCEPT ![r].left = Fewer(r, u, errors),
                                  ![r].pingErrors = call[r].pingErrors \cup errors,
                                  ![r].at = "view", ![r].active = active]

\* A race among the first relays left has no effect but those, or ends with a relay
\* that is asked next.  Without an effect, whoever won was preferred.
LEMMA RaceOutcome ==
    ASSUME TypeOK, NEW r \in Requests, Grouped(r), Race(r), RelaysLeft(call[r].left)
    PROVE  \E g \in 1..3, u \in Urls \cup {None}, errors \in SUBSET Urls, active \in Infos :
             Outcome(r, g, u, errors, active)
  <1> DEFINE order == call[r].order
             left == call[r].left
             g == NextGroup(left)
             slice == NextSlice(left)
  <1>1. /\ order \in [1..3 -> Seq(Infos)] /\ left \in [1..3 -> SUBSET Nat]
        /\ \A h \in 1..3 : left[h] \subseteq DOMAIN order[h]
    BY DEF TypeOK, CallStates
  <1>2. g \in 1..3 /\ \A h \in 1..g - 1 : left[h] = {}
    BY <1>1, NextGroupIsFirst
  <1>3. slice \subseteq left[g]
    BY DEF NextSlice
  <1>4. NextRelay(r, order, left)
    BY DEF Race
  <1>5. order[g] \in Seq(Infos) /\ slice \in SUBSET DOMAIN order[g]
    BY <1>1, <1>2, <1>3
  <1> DEFINE group == order[g]
             urls == UrlsAt(group, slice)
  <1>6. urls \subseteq Urls
    <2>1. \A i \in slice : group[i] \in Infos
      BY <1>5
    <2> QED
      BY <2>1 DEF UrlsAt, Infos
  <1>7. PICK race \in RaceResults(urls) :
          LET winners == Winners(group, slice, race.winner)
              fewer == Removed(order, left, race.winner, race.errors)
              failed == call[r].pingErrors \cup race.errors
          IN  \/ /\ winners = {}
                 /\ call' = [call EXCEPT ![r].left = fewer, ![r].pingErrors = failed]
              \/ \E active \in winners :
                   call' = [call EXCEPT ![r].left = fewer, ![r].pingErrors = failed,
                                        ![r].at = "view", ![r].active = active]
    BY <1>4 DEF NextRelay
  <1> DEFINE u == race.winner
             errors == race.errors
  <1>8. u \in urls \cup {None} /\ errors \in SUBSET Urls
    BY <1>6 DEF RaceResults, PingErrors
  <1>9. Removed(order, left, u, errors) = Fewer(r, u, errors)
    BY DEF Removed, Fewer
  <1>10. known \in Registrar \cup {{}}
    BY DEF TypeOK
  <1>11. /\ \A active \in Winners(group, slice, u) :
              /\ active \in [url : Urls, manager : Managers]
              /\ active.url = u /\ u \in urls
         /\ u # None /\ group \in Seq([url : Urls, manager : Managers]) =>
              Winners(group, slice, u) # {}
    <2>1. group \in Seq(Infos) /\ slice \in SUBSET DOMAIN group
      BY <1>5
    <2>2. u \in UrlsAt(group, slice) \cup {None}
      BY <1>8
    <2> HIDE DEF group, slice, u
    <2> QED
      BY <2>1, <2>2, <1>10, WinnersFit
  <1>12. u # None => \E i \in left[g] : order[g][i].url = u
    BY <1>3, <1>8 DEF UrlsAt
  <1>13. None \notin Urls
    BY ClientAssumption
  <1>14. CASE /\ Winners(group, slice, u) = {}
              /\ call' = [call EXCEPT ![r].left = Fewer(r, u, errors),
                                      ![r].pingErrors = call[r].pingErrors \cup errors]
    <2>1. ASSUME u # None
          PROVE  IsPreferred(u)
      <3>1. group \notin Seq([url : Urls, manager : Managers])
        BY <1>11, <1>14, <2>1
      <3>2. g = 1
        BY <1>2, <3>1 DEF Grouped
      <3> QED
        BY <1>1, <1>12, <2>1, <3>2 DEF Grouped
    <2>2. PICK any \in Infos : TRUE
      <3>1. PICK i \in left[g] : TRUE
        BY <1>1, NextGroupIsFirst
      <3>2. i \in DOMAIN order[g]
        BY <1>1, <1>2
      <3> HIDE DEF order, g
      <3>3. order[g][i] \in Infos
        BY <1>5, <3>2, ElementIn
      <3> QED
        BY <3>3
    <2> HIDE DEF order, left, g, slice, group, urls, u, errors
    <2>3. u \in Urls \cup {None} /\ errors \in SUBSET Urls
      BY <1>6, <1>8
    <2> QED
      BY <1>2, <1>12, <1>14, <2>1, <2>2, <2>3 DEF order, left, Outcome
  <1>15. ASSUME NEW active \in Winners(group, slice, u),
                call' = [call EXCEPT ![r].left = Fewer(r, u, errors),
                                     ![r].pingErrors = call[r].pingErrors \cup errors,
                                     ![r].at = "view", ![r].active = active]
         PROVE  \E a \in Infos : /\ a \in [url : Urls, manager : Managers]
                                 /\ u = a.url /\ u # None
                                 /\ call' = [call EXCEPT ![r].left = Fewer(r, u, errors),
                                     ![r].pingErrors = call[r].pingErrors \cup errors,
                                     ![r].at = "view", ![r].active = a]
    <2>1. active \in [url : Urls, manager : Managers] /\ active.url = u /\ u \in urls
      BY <1>11
    <2>2. active \in Infos
      BY <2>1 DEF Infos
    <2> HIDE DEF urls, u, errors
    <2> QED
      BY <1>6, <1>13, <1>15, <2>1, <2>2
  <1> HIDE DEF order, left, g, slice, group, urls, u, errors
  <1>16. u \in Urls \cup {None} /\ errors \in SUBSET Urls
    BY <1>6, <1>8
  <1>17. CASE \E active \in Winners(group, slice, u) :
                 call' = [call EXCEPT ![r].left = Fewer(r, u, errors),
                                      ![r].pingErrors = call[r].pingErrors \cup errors,
                                      ![r].at = "view", ![r].active = active]
    <2>1. PICK a \in Infos :
             /\ a \in [url : Urls, manager : Managers]
             /\ u = a.url /\ u # None
             /\ call' = [call EXCEPT ![r].left = Fewer(r, u, errors),
                                     ![r].pingErrors = call[r].pingErrors \cup errors,
                                     ![r].at = "view", ![r].active = a]
      BY <1>15, <1>17
    <2>2. /\ \A h \in 1..g - 1 : call[r].left[h] = {}
          /\ u # None => \E i \in call[r].left[g] : call[r].order[g][i].url = u
      BY <1>2, <1>12 DEF order, left
    <2> QED
      BY <1>2, <1>16, <2>1, <2>2 DEF Outcome
  <1> QED
    BY <1>7, <1>9, <1>14, <1>17 DEF u, errors

-----------------------------------------------------------------------------
(* Types.                                                                  *)

\* The part of TypeOK that is about the calls.
CallsTyped ==
    /\ call \in [Requests -> CallStates]
    /\ \A r \in Requests :
         /\ call[r].at \in Attempts => call[r].active \in [url : Urls, manager : Managers]
         /\ \A g \in 1..3 : call[r].left[g] \subseteq DOMAIN call[r].order[g]

LEMMA CallStaysTyped ==
    ASSUME TypeOK, NEW r \in Requests, NEW new \in CallStates,
           call' = [call EXCEPT ![r] = new],
           new.at \in Attempts => new.active \in [url : Urls, manager : Managers],
           \A g \in 1..3 : new.left[g] \subseteq DOMAIN new.order[g]
    PROVE  CallsTyped'
  <1>1. call' \in [Requests -> CallStates]
    BY DEF TypeOK
  <1>2. \A q \in Requests : call'[q] = IF q = r THEN new ELSE call[q]
    BY DEF TypeOK
  <1> QED
    BY <1>1, <1>2 DEF CallsTyped, TypeOK

LEMMA SelectionTyped ==
    ASSUME IInv, NEW r \in Requests,
           Begin(r) \/ Refresh(r) \/ Prepare(r) \/ DryRun(r) \/ InitSelection(r)
    PROVE  CallsTyped'
  <1>1. call[r] \in CallStates /\ TypeOK /\ nonce \in Nat
    BY DEF IInv, TypeOK
  <1>2. \A g \in 1..3 : call[r].left[g] \subseteq DOMAIN call[r].order[g]
    BY DEF IInv, TypeOK
  <1> DEFINE Moves(at, n, why) ==
               call' = [call EXCEPT ![r] = [call[r] EXCEPT !.at = at, !.nonce = n, !.why = why]]
  <1>3. ASSUME NEW at \in {"refresh", "prepare", "dryRun", "init", "failed"},
               NEW n \in Nat, NEW why \in Reasons, Moves(at, n, why)
        PROVE  CallsTyped'
    <2> DEFINE new == [call[r] EXCEPT !.at = at, !.nonce = n, !.why = why]
    <2>1. new \in CallStates /\ new.at \notin Attempts
      BY <1>1 DEF CallStates, Before, After, Attempts, Ends
    <2>2. new.left = call[r].left /\ new.order = call[r].order
      BY <1>1 DEF CallStates
    <2>3. call' = [call EXCEPT ![r] = new]
      BY <1>3
    <2> HIDE DEF new
    <2> QED
      BY <1>1, <1>2, <2>1, <2>2, <2>3, CallStaysTyped
  <1>4. ASSUME NEW order \in RelaysShuffled,
               call[r].at = "init",
               call' = [call EXCEPT ![r].at = "race", ![r].order = order,
                                    ![r].left = [g \in 1..3 |-> DOMAIN order[g]],
                                    ![r].known = known,
                                    ![r].recent = {u \in Urls : failures[u] = "recent"},
                                    ![r].clean = {u \in Urls : failures[u] = "none"}]
        PROVE  CallsTyped'
    <2> DEFINE left == [g \in 1..3 |-> DOMAIN order[g]]
               recent == {u \in Urls : failures[u] = "recent"}
               clean == {u \in Urls : failures[u] = "none"}
               new == [call[r] EXCEPT !.at = "race", !.order = order, !.left = left,
                                      !.known = known, !.recent = recent, !.clean = clean]
    <2>1. order \in [1..3 -> Seq(Infos)]
      BY <1>1, ShuffledFit DEF TypeOK
    <2>2. left \in [1..3 -> SUBSET Nat]
      BY <2>1
    <2>3. known \subseteq Infos
      BY <1>1, ClientAssumption DEF TypeOK, Infos
    <2>4. recent \in SUBSET Urls /\ clean \in SUBSET Urls
      OBVIOUS
    <2>5. call' = [call EXCEPT ![r] = new]
      BY <1>1, <1>4 DEF TypeOK
    <2> HIDE DEF left, recent, clean
    <2>6. new \in CallStates /\ new.at \notin Attempts
      BY <1>1, <2>1, <2>2, <2>3, <2>4 DEF CallStates, Before, After, Attempts, Ends
    <2>7. new.left = left /\ new.order = order
      BY <1>1 DEF CallStates
    <2> HIDE DEF new
    <2>8. \A g \in 1..3 : new.left[g] \subseteq DOMAIN new.order[g]
      BY <2>7 DEF left
    <2> QED
      BY <1>1, <2>5, <2>6, <2>8, CallStaysTyped
  <1> DEFINE n == call[r].nonce
             why == call[r].why
  <1>5. n \in Nat /\ why \in Reasons /\ nonce \in Nat
    BY <1>1 DEF CallStates
  <1>6. \A at, w : End(r, at, w) => Moves(at, n, w)
    BY <1>1 DEF TypeOK, CallStates, End
  <1>7. CASE Begin(r)
    <2>1. Moves("refresh", n, why)
      BY <1>1, <1>7 DEF TypeOK, CallStates, Begin
    <2> HIDE DEF Moves, n, why
    <2> QED
      BY <1>3, <1>5, <2>1
  <1>8. CASE Refresh(r)
    <2>1. Moves("prepare", n, why)
      BY <1>1, <1>8 DEF TypeOK, CallStates, Refresh
    <2> HIDE DEF Moves, n, why
    <2> QED
      BY <1>3, <1>5, <2>1
  <1>9. CASE Prepare(r)
    <2>1. Moves("dryRun", nonce, why) \/ Moves("failed", n, "prepare")
      BY <1>1, <1>9 DEF TypeOK, CallStates, Prepare, End
    <2> HIDE DEF Moves, n, why
    <2> QED
      BY <1>3, <1>5, <2>1 DEF Reasons
  <1>10. CASE DryRun(r)
    <2>1. Moves("init", n, why) \/ Moves("failed", n, "view")
      BY <1>1, <1>10 DEF TypeOK, CallStates, DryRun, End
    <2> HIDE DEF Moves, n, why
    <2> QED
      BY <1>3, <1>5, <2>1 DEF Reasons
  <1>11. CASE InitSelection(r) /\ End(r, "failed", "noRelays")
    <2>1. Moves("failed", n, "noRelays")
      BY <1>6, <1>11
    <2> HIDE DEF Moves, n, why
    <2> QED
      BY <1>3, <1>5, <2>1 DEF Reasons
  <1>12. CASE InitSelection(r) /\ ~End(r, "failed", "noRelays")
    BY <1>4, <1>12 DEF InitSelection
  <1> QED
    BY <1>7, <1>8, <1>9, <1>10, <1>11, <1>12

LEMMA RaceTyped ==
    ASSUME IInv, NEW r \in Requests, Race(r)
    PROVE  CallsTyped'
  <1>1. call[r] \in CallStates /\ TypeOK /\ Grouped(r)
    BY DEF IInv, TypeOK, InOrder
  <1>2. \A g \in 1..3 : call[r].left[g] \subseteq DOMAIN call[r].order[g]
    BY DEF IInv, TypeOK
  <1>3. CASE ~RelaysLeft(call[r].left)
    <2> DEFINE new == [call[r] EXCEPT !.at = "failed", !.why = "exhausted"]
    <2>1. call' = [call EXCEPT ![r] = new]
      BY <1>1, <1>3 DEF Race, End, TypeOK
    <2>2. new \in CallStates /\ new.at \notin Attempts
      BY <1>1 DEF CallStates, Before, After, Attempts, Ends, Reasons
    <2>3. new.left = call[r].left /\ new.order = call[r].order
      BY <1>1 DEF CallStates
    <2> HIDE DEF new
    <2> QED
      BY <1>1, <1>2, <2>1, <2>2, <2>3, CallStaysTyped
  <1>4. CASE RelaysLeft(call[r].left)
    <2>1. PICK g \in 1..3, u \in Urls \cup {None}, errors \in SUBSET Urls, active \in Infos :
            Outcome(r, g, u, errors, active)
      BY <1>1, <1>4, RaceOutcome
    <2> DEFINE fewer == Fewer(r, u, errors)
               failed == call[r].pingErrors \cup errors
    <2>2. /\ fewer \in [1..3 -> SUBSET Nat]
          /\ \A h \in 1..3 : fewer[h] \subseteq DOMAIN call[r].order[h]
      BY <1>1, <1>2 DEF Fewer, CallStates
    <2>3. failed \in SUBSET Urls
      BY <1>1 DEF CallStates
    <2> HIDE DEF fewer, failed
    <2>4. CASE call' = [call EXCEPT ![r].left = fewer, ![r].pingErrors = failed]
      <3> DEFINE new == [call[r] EXCEPT !.left = fewer, !.pingErrors = failed]
      <3>1. call' = [call EXCEPT ![r] = new]
        BY <1>1, <2>4 DEF TypeOK
      <3>2. new \in CallStates
        BY <1>1, <2>2, <2>3 DEF CallStates
      <3>3. new.left = fewer /\ new.order = call[r].order /\ new.at = "race"
        BY <1>1 DEF CallStates, Race
      <3> HIDE DEF new
      <3> QED
        BY <1>1, <2>2, <3>1, <3>2, <3>3, CallStaysTyped DEF Attempts
    <2>5. CASE /\ active \in [url : Urls, manager : Managers]
               /\ call' = [call EXCEPT ![r].left = fewer, ![r].pingErrors = failed,
                                       ![r].at = "view", ![r].active = active]
      <3> DEFINE new == [call[r] EXCEPT !.left = fewer, !.pingErrors = failed,
                                        !.at = "view", !.active = active]
      <3>1. call' = [call EXCEPT ![r] = new]
        BY <1>1, <2>5 DEF TypeOK
      <3>2. new \in CallStates
        BY <1>1, <2>2, <2>3 DEF CallStates, After, Attempts
      <3>3. new.left = fewer /\ new.order = call[r].order /\ new.active = active
        BY <1>1 DEF CallStates
      <3> HIDE DEF new
      <3> QED
        BY <1>1, <2>2, <2>5, <3>1, <3>2, <3>3, CallStaysTyped
    <2> QED
      BY <2>1, <2>4, <2>5 DEF fewer, failed, Outcome
  <1> QED
    BY <1>3, <1>4

LEMMA AttemptTyped ==
    ASSUME IInv, NEW r \in Requests, ViewCall(r) \/ Respond(r)
    PROVE  CallsTyped'
  <1>1. /\ call[r] \in CallStates /\ TypeOK
        /\ call[r].at \in Attempts /\ call[r].active \in [url : Urls, manager : Managers]
    BY DEF IInv, TypeOK, ViewCall, Respond, Attempts
  <1>2. \A g \in 1..3 : call[r].left[g] \subseteq DOMAIN call[r].order[g]
    BY DEF IInv, TypeOK
  <1>3. ASSUME NEW new \in CallStates, call' = [call EXCEPT ![r] = new],
               new.left = call[r].left, new.order = call[r].order, new.active = call[r].active
        PROVE  CallsTyped'
    BY <1>1, <1>2, <1>3, CallStaysTyped
  <1> DEFINE Moves(at, why) == call' = [call EXCEPT ![r] = [call[r] EXCEPT !.at = at, !.why = why]]
  <1>4. ASSUME NEW at \in {"failed", "accepted", "race"}, NEW why \in Reasons, Moves(at, why)
        PROVE  CallsTyped'
    <2> DEFINE new == [call[r] EXCEPT !.at = at, !.why = why]
    <2>1. call' = [call EXCEPT ![r] = new]
      BY <1>4
    <2>2. new \in CallStates
      BY <1>1 DEF CallStates, After, Ends
    <2>3. new.left = call[r].left /\ new.order = call[r].order /\ new.active = call[r].active
      BY <1>1 DEF CallStates
    <2> HIDE DEF new
    <2> QED
      BY <1>3, <2>1, <2>2, <2>3
  <1>5. CASE /\ call[r].at = "view"
             /\ call' = [call EXCEPT ![r].at = "send", ![r].nonce = Sign(r),
                                     ![r].tried[call[r].active.url] = IF @ = 2 THEN 2 ELSE @ + 1]
    <2> DEFINE tried == [call[r].tried EXCEPT ![call[r].active.url] = IF @ = 2 THEN 2 ELSE @ + 1]
               new == [call[r] EXCEPT !.at = "send", !.nonce = Sign(r), !.tried = tried]
    <2>1. call' = [call EXCEPT ![r] = new]
      BY <1>1, <1>5 DEF TypeOK, CallStates
    <2>2. tried \in [Urls -> 0..2]
      BY <1>1 DEF CallStates
    <2>3. Sign(r) \in Nat
      BY <1>1 DEF CallStates, Sign
    <2> HIDE DEF tried
    <2>4. new \in CallStates
      BY <1>1, <2>2, <2>3 DEF CallStates, After, Attempts
    <2>5. new.left = call[r].left /\ new.order = call[r].order /\ new.active = call[r].active
      BY <1>1 DEF CallStates
    <2> HIDE DEF new
    <2> QED
      BY <1>3, <2>1, <2>4, <2>5
  <1>6. \A at, w : End(r, at, w) => Moves(at, w)
    BY <1>1 DEF TypeOK, CallStates, End
  <1>7. CASE ViewCall(r)
    <2>1. CASE End(r, "failed", "view")
      <3>1. Moves("failed", "view")
        BY <1>6, <2>1
      <3> HIDE DEF Moves
      <3> QED
        BY <1>4, <3>1 DEF Reasons
    <2> QED
      BY <1>5, <1>7, <2>1 DEF ViewCall
  <1>8. CASE Respond(r)
    <2>1. Moves("race", call[r].why) \/ Moves("accepted", None)
      BY <1>1, <1>8 DEF TypeOK, CallStates, Respond, End
    <2>2. call[r].why \in Reasons
      BY <1>1 DEF CallStates
    <2> HIDE DEF Moves
    <2> QED
      BY <1>4, <2>1, <2>2 DEF Reasons
  <1> QED
    BY <1>7, <1>8

-----------------------------------------------------------------------------
(* What the steps of a call leave alone.                                   *)

\* A step that changes no more of a call than where it is, its nonce and its outcome.
Kept(r) ==
    /\ call'[r].order = call[r].order /\ call'[r].left = call[r].left
    /\ call'[r].pingErrors = call[r].pingErrors /\ call'[r].tried = call[r].tried
    /\ call'[r].known = call[r].known /\ call'[r].active = call[r].active
    /\ call'[r].recent = call[r].recent /\ call'[r].clean = call[r].clean

LEMMA OthersKeepOrder ==
    ASSUME NEW q \in Requests, call'[q] = call[q], InOrder(q)
    PROVE  InOrder(q)'
  BY DEF InOrder, TriedIsGone, Grouped, AllLeft, CleanFirst, AskedAt, Chosen, IsPreferred

LEMMA CallsApart ==
    ASSUME IInv, NEW r \in Requests, Call(r), NEW q \in Requests, q # r
    PROVE  call'[q] = call[q]
  <1>1. call \in [Requests -> CallStates] /\ TypeOK /\ Grouped(r)
    BY DEF IInv, TypeOK, InOrder
  <1>2. CASE Begin(r) \/ Refresh(r) \/ Prepare(r) \/ DryRun(r)
    BY <1>1, <1>2 DEF Begin, Refresh, Prepare, DryRun, End
  <1>3. CASE InitSelection(r)
    BY <1>1, <1>3 DEF InitSelection, End
  <1>4. CASE Race(r)
    <2>1. CASE RelaysLeft(call[r].left)
      <3>1. PICK g \in 1..3, u \in Urls \cup {None}, errors \in SUBSET Urls, active \in Infos :
              Outcome(r, g, u, errors, active)
        BY <1>1, <1>4, <2>1, RaceOutcome
      <3> QED
        BY <1>1, <3>1 DEF Outcome
    <2>2. CASE ~RelaysLeft(call[r].left)
      BY <1>1, <1>4, <2>2 DEF Race, End
    <2> QED
      BY <2>1, <2>2
  <1>5. CASE ViewCall(r) \/ Respond(r)
    BY <1>1, <1>5 DEF ViewCall, Respond, End
  <1> QED
    BY <1>2, <1>3, <1>4, <1>5 DEF Call

\* A call keeps its nonce once its selection began, and its steps touch the chain only
\* by what a relay signs.
LEMMA NonceIsKept ==
    ASSUME IInv, NEW r \in Requests, Call(r)
    PROVE  /\ call[r].at \in After => call'[r].at \in After /\ call'[r].nonce = call[r].nonce
           /\ executed' = executed /\ nonce' = nonce
           /\ \/ signed' = signed
              \/ /\ call[r].at = "send"
                 /\ signed' = signed \cup {[request |-> r, nonce |-> call[r].nonce,
                                            url |-> call[r].active.url]}
  <1>1. call \in [Requests -> CallStates] /\ call[r] \in CallStates /\ TypeOK /\ Grouped(r)
    BY DEF IInv, TypeOK, InOrder
  <1>2. CASE Begin(r) \/ Refresh(r) \/ Prepare(r) \/ DryRun(r)
    BY <1>1, <1>2 DEF Begin, Refresh, Prepare, DryRun, End, After, Attempts, Ends
  <1>3. CASE InitSelection(r)
    BY <1>1, <1>3 DEF InitSelection, End, After, Attempts, Ends
  <1>4. CASE Race(r)
    <2>1. CASE RelaysLeft(call[r].left)
      <3>1. PICK g \in 1..3, u \in Urls \cup {None}, errors \in SUBSET Urls, active \in Infos :
              Outcome(r, g, u, errors, active)
        BY <1>1, <1>4, <2>1, RaceOutcome
      <3>2. call[r].at = "race" /\ UNCHANGED <<nonce, signed, executed>>
        BY <1>4 DEF Race
      <3>3. call'[r].at \in After /\ call'[r].nonce = call[r].nonce
        BY <1>1, <3>1, <3>2 DEF Outcome, CallStates, After, Attempts
      <3> QED
        BY <3>2, <3>3
    <2>2. CASE ~RelaysLeft(call[r].left)
      BY <1>1, <1>4, <2>2 DEF Race, End, CallStates, After, Ends
    <2> QED
      BY <2>1, <2>2
  <1>5. CASE ViewCall(r)
    BY <1>1, <1>5 DEF ViewCall, Sign, End, CallStates, After, Ends, Attempts
  <1>6. CASE Respond(r)
    BY <1>1, <1>6 DEF Respond, Signs, Broadcast, End, CallStates, After, Ends, Attempts
  <1> QED
    BY <1>2, <1>3, <1>4, <1>5, <1>6 DEF Call

LEMMA NonceInvariant ==
    ASSUME IInv, Next
    PROVE  OneNonce'
  <1>1. TypeOK /\ OneNonce
    BY DEF IInv
  <1>2. CASE Mine
    <2>1. PICK tx \in signed :
            /\ signed' = signed \ {tx}
            /\ IF tx.nonce = nonce
               THEN nonce' = nonce + 1 /\ executed' = [executed EXCEPT ![tx.request] = @ + 1]
               ELSE UNCHANGED <<nonce, executed>>
            /\ UNCHANGED <<known, failures, call>>
      BY <1>2 DEF Mine
    <2>2. tx.request \in Requests
      BY <1>1 DEF TypeOK
    <2>3. /\ call[tx.request].at \in After /\ tx.nonce = call[tx.request].nonce
          /\ \A r \in Requests : call[r].nonce \in Nat /\ executed[r] \in Nat
          /\ nonce \in Nat
      BY <1>1, <2>2 DEF OneNonce, TypeOK, CallStates
    <2>4. \A r \in Requests : executed'[r] > 0 =>
             executed'[r] = 1 /\ call'[r].at \in After /\ call'[r].nonce < nonce'
      <3>1. CASE tx.nonce = nonce
        <4>1. executed[tx.request] = 0
          BY <1>1, <2>2, <2>3, <3>1 DEF OneNonce
        <4>2. \A r \in Requests : executed'[r] = IF r = tx.request THEN 1 ELSE executed[r]
          BY <1>1, <2>1, <2>2, <3>1, <4>1 DEF TypeOK
        <4> QED
          BY <1>1, <2>1, <2>3, <3>1, <4>2 DEF OneNonce
      <3>2. CASE tx.nonce # nonce
        BY <1>1, <2>1, <3>2 DEF OneNonce
      <3> QED
        BY <3>1, <3>2
    <2>5. \A t \in signed' : call'[t.request].at \in After /\ t.nonce = call'[t.request].nonce
      BY <1>1, <2>1 DEF OneNonce
    <2> QED
      BY <2>4, <2>5 DEF OneNonce
  <1>3. CASE Age
    BY <1>1, <1>3 DEF Age, OneNonce
  <1>4. ASSUME NEW r \in Requests, Call(r)
        PROVE  OneNonce'
    <2>1. /\ call[r].at \in After => call'[r].at \in After /\ call'[r].nonce = call[r].nonce
          /\ executed' = executed /\ nonce' = nonce
          /\ \/ signed' = signed
             \/ /\ call[r].at = "send"
                /\ signed' = signed \cup {[request |-> r, nonce |-> call[r].nonce,
                                           url |-> call[r].active.url]}
      BY <1>4, NonceIsKept
    <2>2. \A q \in Requests : q # r => call'[q] = call[q]
      BY <1>4, CallsApart
    <2>3. \A q \in Requests : call[q].at \in After =>
             call'[q].at \in After /\ call'[q].nonce = call[q].nonce
      BY <2>1, <2>2
    <2>4. \A t \in signed : t.request \in Requests
      BY <1>1 DEF TypeOK
    <2>5. \A t \in signed' : call'[t.request].at \in After /\ t.nonce = call'[t.request].nonce
      BY <1>1, <2>1, <2>3, <2>4 DEF OneNonce, After, Attempts
    <2>6. \A q \in Requests : executed'[q] > 0 =>
             executed'[q] = 1 /\ call'[q].at \in After /\ call'[q].nonce < nonce'
      BY <1>1, <2>1, <2>3 DEF OneNonce
    <2> QED
      BY <2>5, <2>6 DEF OneNonce
  <1> QED
    BY <1>2, <1>3, <1>4 DEF Next

LEMMA TypesKept ==
    ASSUME IInv, Next
    PROVE  TypeOK'
  <1>1. TypeOK
    BY DEF IInv
  <1>2. CASE Mine
    BY <1>1, <1>2 DEF Mine, TypeOK
  <1>3. CASE Age
    BY <1>1, <1>3 DEF Age, TypeOK
  <1>4. ASSUME NEW r \in Requests, Call(r)
        PROVE  TypeOK'
    <2>1. CallsTyped'
      BY <1>4, SelectionTyped, RaceTyped, AttemptTyped DEF Call
    <2>2. known' \in Registrar \cup {{}}
      BY <1>1, <1>4 DEF Call, Begin, Refresh, Prepare, DryRun, InitSelection, Race, ViewCall,
                        Respond, TypeOK
    <2>3. failures' \in [Urls -> {"none", "recent", "old", "gone"}]
      BY <1>1, <1>4 DEF Call, Begin, Refresh, Prepare, DryRun, InitSelection, Race, ViewCall,
                        Respond, TypeOK, RefreshFailures, SaveRelayFailure, Attempts
    <2>4. executed' = executed /\ nonce' = nonce
      BY <1>4, NonceIsKept
    <2>5. signed' \subseteq [request : Requests, nonce : Nat, url : Urls]
      <3>1. call[r].at = "send" => call[r].active.url \in Urls
        BY <1>1 DEF TypeOK, Attempts
      <3>2. call[r].nonce \in Nat
        BY <1>1 DEF TypeOK, CallStates
      <3> QED
        BY <1>1, <1>4, <3>1, <3>2, NonceIsKept DEF TypeOK
    <2> QED
      BY <1>1, <2>1, <2>2, <2>3, <2>4, <2>5 DEF TypeOK, CallsTyped
  <1> QED
    BY <1>2, <1>3, <1>4 DEF Next

-----------------------------------------------------------------------------
(* The order of the relays.                                                *)

\* A call that is not selecting, or stops to, keeps what it has.
LEMMA KeptInOrder ==
    ASSUME IInv, NEW r \in Requests, Kept(r),
           \/ /\ call[r].at \in Before /\ call'[r].at \in Before \cup {"failed"}
              /\ call'[r].why # "exhausted"
           \/ /\ call[r].at \in {"view", "send"} /\ call'[r].at \in Ends
              /\ call'[r].why # "exhausted"
           \/ /\ call[r].at = "send" /\ call'[r].at = "race" /\ call'[r].why = call[r].why
    PROVE  InOrder(r)'
  <1>1. TriedIsGone(r) /\ Grouped(r) /\ AllLeft(r) /\ CleanFirst(r)
    BY DEF IInv, InOrder
  <1>2. TriedIsGone(r)'
    BY <1>1 DEF TriedIsGone, Kept, Before, Ends, Attempts
  <1>3. Grouped(r)'
    BY <1>1 DEF Grouped, Kept, IsPreferred
  <1>4. \A u : AskedAt(r, u)' <=> AskedAt(r, u)
    BY DEF AskedAt, Kept
  <1>5. \A u : Chosen(r, u)' => FALSE
    BY DEF Chosen, Before, Ends
  <1>6. AllLeft(r)'
    <2>1. CASE call'[r].at = "race"
      <3>1. call[r].at = "send" /\ call'[r].why # "exhausted"
        BY <1>1, <2>1 DEF AllLeft, Before, Ends
      <3>2. \A u : ~Chosen(r, u)
        BY <3>1 DEF Chosen
      <3> QED
        BY <1>1, <1>4, <2>1, <3>1, <3>2 DEF AllLeft, Kept, Attempts, IsPreferred
    <2>2. CASE call'[r].at # "race"
      BY <2>2 DEF AllLeft, Before, Ends, Attempts
    <2> QED
      BY <2>1, <2>2
  <1>7. CleanFirst(r)'
    BY <1>1, <1>4, <1>5 DEF CleanFirst, Kept, IsPreferred
  <1> QED
    BY <1>2, <1>3, <1>6, <1>7 DEF InOrder

\* A call that finds no relay left has asked all of them.
LEMMA ExhaustedInOrder ==
    ASSUME IInv, NEW r \in Requests, Race(r), ~RelaysLeft(call[r].left)
    PROVE  InOrder(r)'
  <1>1. TriedIsGone(r) /\ Grouped(r) /\ AllLeft(r) /\ CleanFirst(r)
    BY DEF IInv, InOrder
  <1>2. /\ Kept(r) /\ call[r].at = "race" /\ call'[r].at = "failed" /\ call'[r].why = "exhausted"
    BY DEF IInv, TypeOK, CallStates, Race, End, Kept
  <1>3. \A u : (AskedAt(r, u)' <=> AskedAt(r, u)) /\ ~Chosen(r, u) /\ ~Chosen(r, u)'
    BY <1>2 DEF AskedAt, Kept, Chosen
  <1>4. \A info \in call[r].known : IsPreferred(info.url) \/ AskedAt(r, info.url)
    BY <1>1, <1>2, <1>3 DEF AllLeft, RelaysLeft
  <1>5. TriedIsGone(r)'
    BY <1>1, <1>2 DEF TriedIsGone, Kept, Before, Attempts
  <1>6. Grouped(r)'
    BY <1>1, <1>2 DEF Grouped, Kept, IsPreferred
  <1>7. AllLeft(r)'
    BY <1>2, <1>3, <1>4 DEF AllLeft, Kept, Attempts, IsPreferred
  <1>8. CleanFirst(r)'
    BY <1>1, <1>2, <1>3 DEF CleanFirst, Kept, IsPreferred
  <1> QED
    BY <1>5, <1>6, <1>7, <1>8 DEF InOrder

\* The relays that are drawn are all that are known.
LEMMA DrawnInOrder ==
    ASSUME IInv, NEW r \in Requests, call[r].at = "init", NEW order \in RelaysShuffled,
           call'[r].at = "race", call'[r].order = order, call'[r].known = known,
           \A g \in 1..3 : call'[r].left[g] = DOMAIN order[g],
           \A u : /\ u \in call'[r].recent => u \in Urls /\ failures[u] = "recent"
                  /\ u \in call'[r].clean => failures[u] = "none",
           call'[r].tried = call[r].tried, call'[r].why = call[r].why
    PROVE  InOrder(r)'
  <1>1. TriedIsGone(r) /\ Grouped(r) /\ AllLeft(r) /\ CleanFirst(r)
        /\ call[r] \in CallStates /\ call \in [Requests -> CallStates]
    BY DEF IInv, InOrder, TypeOK
  <1>2. known \in Registrar \cup {{}}
    BY DEF IInv, TypeOK
  <1>3. /\ order \in [1..3 -> Seq(Infos)]
        /\ \A i \in DOMAIN order[1] : IsPreferred(order[1][i].url)
        /\ \A g \in {2, 3} : order[g] \in Seq([url : Urls, manager : Managers])
        /\ \A i \in DOMAIN order[2] : ~HasFailure(order[2][i].url)
        /\ \A i \in DOMAIN order[3] : HasFailure(order[3][i].url)
        /\ \A info \in known : \E g \in {2, 3} : \E i \in DOMAIN order[g] : order[g][i] = info
    BY <1>2, ShuffledFit
  <1> DEFINE Relays == {2, 3}
  <1>4. order \in [1..3 -> Seq(Infos)]
    BY <1>3, Zenon
  <1>5. \A info \in known : \E g \in Relays : \E i \in DOMAIN order[g] : order[g][i] = info
    BY <1>3, Zenon
  <1>6. \A i \in DOMAIN order[1] : IsPreferred(order[1][i].url)
    BY <1>3, Zenon
  <1>7. \A g \in Relays : order[g] \in Seq([url : Urls, manager : Managers])
    BY <1>3, Zenon
  <1>8. \A i \in DOMAIN order[2] : ~HasFailure(order[2][i].url)
    BY <1>3, Zenon
  <1>9. \A i \in DOMAIN order[3] : HasFailure(order[3][i].url)
    BY <1>3, Zenon
  <1>10. \A u \in Urls : call'[r].tried[u] = 0
    BY <1>1 DEF TriedIsGone, Before
  <1>11. TriedIsGone(r)'
    <2>1. ASSUME NEW g \in 1..3, NEW i \in call'[r].left[g]
          PROVE  call'[r].tried[call'[r].order[g][i].url] = 0
      <3>1. order[g] \in Seq(Infos) /\ i \in DOMAIN order[g]
        BY <1>4
      <3>2. order[g][i] \in Infos
        BY <3>1, ElementIn
      <3> QED
        BY <1>10, <3>2 DEF Infos
    <2> QED
      BY <1>10, <2>1 DEF TriedIsGone, Before, Attempts
  <1>12. Grouped(r)'
    <2>1. \A i \in DOMAIN order[2] : order[2][i].url \notin call'[r].recent
      BY <1>8 DEF HasFailure
    <2>2. \A i \in DOMAIN order[3] : order[3][i].url \notin call'[r].clean
      BY <1>9 DEF HasFailure
    <2>3. \A i \in DOMAIN order[1] : IsPreferred(order[1][i].url)'
      BY <1>6 DEF IsPreferred
    <2>4. \A g \in {2, 3} : order[g] \in Seq([url : Urls, manager : Managers])
      BY <1>7
    <2> QED
      BY <2>1, <2>2, <2>3, <2>4 DEF Grouped
  <1>13. AllLeft(r)'
    <2>1. call'[r].why # "exhausted"
      BY <1>1 DEF AllLeft
    <2>2. \A info \in known : \E g \in {2, 3} : \E i \in call'[r].left[g] : order[g][i] = info
      <3>1. \A g \in Relays : call'[r].left[g] = DOMAIN order[g]
        OBVIOUS
      <3>2. ASSUME NEW info \in known
            PROVE  \E g \in Relays : \E i \in call'[r].left[g] : order[g][i] = info
        <4>1. PICK g \in Relays : \E i \in DOMAIN order[g] : order[g][i] = info
          BY <1>5
        <4>2. PICK i \in DOMAIN order[g] : order[g][i] = info
          BY <4>1
        <4>3. i \in call'[r].left[g]
          BY <3>1
        <4> QED
          BY <4>2, <4>3
      <3> QED
        BY <3>2
    <2> QED
      BY <2>1, <2>2 DEF AllLeft
  <1>14. CleanFirst(r)'
    <2>1. \A u \in call'[r].recent : u \in Urls
      OBVIOUS
    <2>2. \A u : ~Chosen(r, u)'
      BY DEF Chosen
    <2> QED
      BY <1>10, <2>1, <2>2 DEF CleanFirst
  <1> QED
    BY <1>11, <1>12, <1>13, <1>14 DEF InOrder

\* The relays a race leaves, and the one it chose.
LEMMA RaceInOrder ==
    ASSUME IInv, NEW r \in Requests, call[r].at = "race",
           NEW g \in 1..3, NEW u \in Urls \cup {None}, NEW errors \in SUBSET Urls,
           \A h \in 1..g - 1 : call[r].left[h] = {},
           u # None => \E i \in call[r].left[g] : call[r].order[g][i].url = u,
           call'[r].order = call[r].order, call'[r].left = Fewer(r, u, errors),
           call'[r].pingErrors = call[r].pingErrors \cup errors,
           call'[r].tried = call[r].tried, call'[r].known = call[r].known,
           call'[r].recent = call[r].recent, call'[r].clean = call[r].clean,
           call'[r].why = call[r].why,
           \/ (u = None \/ IsPreferred(u)) /\ call'[r].at = "race"
           \/ u \in Urls /\ u # None /\ call'[r].at = "view" /\ call'[r].active.url = u
    PROVE  InOrder(r)'
  <1>1. TriedIsGone(r) /\ Grouped(r) /\ AllLeft(r) /\ CleanFirst(r) /\ call[r] \in CallStates
    BY DEF IInv, InOrder, TypeOK
  <1>2. \A h \in 1..3 : call[r].left[h] \subseteq DOMAIN call[r].order[h]
    BY DEF IInv, TypeOK
  <1>3. \A h \in 1..3 : \A i : i \in call'[r].left[h] <=>
             i \in call[r].left[h] /\ call[r].order[h][i].url \notin errors \cup {u}
    BY DEF Fewer
  <1>4. TriedIsGone(r)'
    <2>1. \A h \in 1..3 : \A i \in call'[r].left[h] :
             /\ call'[r].tried[call'[r].order[h][i].url] = 0
             /\ call'[r].order[h][i].url # u
      BY <1>1, <1>3 DEF TriedIsGone
    <2>2. u # None => call'[r].tried[u] = 0
      BY <1>1 DEF TriedIsGone
    <2>3. \A v \in Urls : call'[r].tried[v] < 2
      BY <1>1 DEF TriedIsGone
    <2> QED
      BY <2>1, <2>2, <2>3 DEF TriedIsGone, Before, Attempts
  <1>5. Grouped(r)'
    BY <1>1 DEF Grouped, IsPreferred
  <1>6. \A v : (AskedAt(r, v) => AskedAt(r, v)') /\ ~Chosen(r, v)
               /\ (v \in errors => AskedAt(r, v)')
    BY DEF AskedAt, Chosen
  <1>7. u = None \/ IsPreferred(u) \/ (u \in Urls /\ Chosen(r, u)')
    BY DEF Chosen
  <1>8. AllLeft(r)'
    <2>1. ASSUME NEW info \in call[r].known
          PROVE  \/ IsPreferred(info.url) \/ AskedAt(r, info.url)' \/ Chosen(r, info.url)'
                 \/ \E h \in {2, 3} : \E i \in call'[r].left[h] : call'[r].order[h][i] = info
      <3>1. CASE IsPreferred(info.url) \/ AskedAt(r, info.url)
        BY <1>6, <3>1
      <3>2. ASSUME NEW h \in {2, 3}, NEW i \in call[r].left[h], call[r].order[h][i] = info
            PROVE  \/ IsPreferred(info.url) \/ AskedAt(r, info.url)' \/ Chosen(r, info.url)'
                   \/ i \in call'[r].left[h]
        <4>1. info.url \in Urls
          <5>1. i \in DOMAIN call[r].order[h] /\ call[r].order[h] \in Seq([url : Urls, manager : Managers])
            BY <1>1, <1>2 DEF Grouped
          <5>2. call[r].order[h][i] \in [url : Urls, manager : Managers]
            BY <5>1, ElementIn
          <5> QED
            BY <3>2, <5>2
        <4>2. CASE info.url = u
          BY <1>7, <4>1, <4>2, ClientAssumption
        <4>3. CASE info.url # u /\ info.url \in errors
          BY <1>6, <4>3
        <4>4. CASE info.url # u /\ info.url \notin errors
          BY <1>3, <3>2, <4>4
        <4> QED
          BY <4>2, <4>3, <4>4
      <3>3. \/ IsPreferred(info.url) \/ AskedAt(r, info.url)
            \/ \E h \in {2, 3} : \E i \in call[r].left[h] : call[r].order[h][i] = info
        BY <1>1, <1>6 DEF AllLeft
      <3> QED
        BY <3>1, <3>2, <3>3
    <2>2. call'[r].why # "exhausted"
      BY <1>1 DEF AllLeft
    <2> QED
      BY <2>1, <2>2 DEF AllLeft, IsPreferred
  <1>9. CleanFirst(r)'
    <2>1. ASSUME NEW v \in call[r].recent, ~IsPreferred(v), call[r].tried[v] > 0 \/ Chosen(r, v)',
                 NEW info \in call[r].known,
                 info.url \in call[r].clean, ~IsPreferred(info.url)
          PROVE  AskedAt(r, info.url)'
      <3>1. CASE call[r].tried[v] > 0
        BY <1>1, <1>6, <2>1, <3>1 DEF CleanFirst
      <3>2. CASE Chosen(r, v)'
        <4>1. v = u /\ u # None
          BY <3>2 DEF Chosen
        <4>2. PICK i \in call[r].left[g] : call[r].order[g][i].url = v
          BY <4>1
        <4>3. i \in DOMAIN call[r].order[g]
          BY <1>2
        <4>4. g = 3
          BY <1>1, <2>1, <4>2, <4>3 DEF Grouped
        <4>5. call[r].left[2] = {}
          BY <4>4
        <4>6. \A j \in call[r].left[3] : call[r].order[3][j] # info
          BY <1>1, <1>2, <2>1 DEF Grouped
        <4>7. AskedAt(r, info.url)
          BY <1>1, <1>6, <2>1, <4>5, <4>6 DEF AllLeft
        <4> QED
          BY <1>6, <4>7
      <3> QED
        BY <2>1, <3>1, <3>2
    <2> QED
      BY <2>1 DEF CleanFirst, IsPreferred
  <1> QED
    BY <1>4, <1>5, <1>8, <1>9 DEF InOrder

LEMMA OfferIsGone ==
    ASSUME NEW r \in Requests, call'[r].at = "send", \A u \in Urls : call'[r].tried[u] < 2,
           \A g \in 1..3 : \A i \in call'[r].left[g] :
             /\ call'[r].tried[call'[r].order[g][i].url] = 0
             /\ call'[r].order[g][i].url # call'[r].active.url
    PROVE  TriedIsGone(r)'
  BY DEF TriedIsGone, Before

\* The relay that was chosen is offered the request.
LEMMA OfferInOrder ==
    ASSUME IInv, NEW r \in Requests, call[r].at = "view", call'[r].at = "send",
           call'[r].order = call[r].order, call'[r].left = call[r].left,
           call'[r].pingErrors = call[r].pingErrors, call'[r].active = call[r].active,
           call'[r].known = call[r].known, call'[r].why = call[r].why,
           call'[r].recent = call[r].recent, call'[r].clean = call[r].clean,
           call'[r].tried = [call[r].tried EXCEPT ![call[r].active.url] = IF @ = 2 THEN 2 ELSE @ + 1]
    PROVE  InOrder(r)'
  <1> DEFINE u == call[r].active.url
  <1>1. TriedIsGone(r) /\ Grouped(r) /\ AllLeft(r) /\ CleanFirst(r) /\ call[r] \in CallStates
    BY DEF IInv, InOrder, TypeOK
  <1>2. u \in Urls /\ call[r].tried \in [Urls -> 0..2]
    BY <1>1 DEF IInv, TypeOK, Attempts, CallStates
  <1>3. call[r].tried[u] = 0
    BY <1>1 DEF TriedIsGone
  <1>4. \A v \in Urls : call'[r].tried[v] = IF v = u THEN 1 ELSE call[r].tried[v]
    BY <1>2, <1>3
  <1>5. DOMAIN call'[r].tried = Urls
    BY <1>2
  <1>6. TriedIsGone(r)'
    <2>1. ASSUME NEW g \in 1..3, NEW i \in call[r].left[g]
          PROVE  /\ call'[r].tried[call[r].order[g][i].url] = 0
                 /\ call[r].order[g][i].url # u
      <3>1. call[r].tried[call[r].order[g][i].url] = 0 /\ call[r].order[g][i].url # u
        BY <1>1 DEF TriedIsGone, Attempts
      <3>2. call[r].order[g][i] \in Infos
        <4>1. call[r].order[g] \in Seq(Infos) /\ i \in DOMAIN call[r].order[g]
          BY <1>1 DEF CallStates, IInv, TypeOK
        <4> QED
          BY <4>1, ElementIn
      <3> QED
        BY <1>4, <3>1, <3>2 DEF Infos
    <2>2. \A v \in Urls : call'[r].tried[v] < 2
      BY <1>1, <1>4 DEF TriedIsGone
    <2>3. \A g \in 1..3 : \A i \in call'[r].left[g] :
             /\ call'[r].tried[call'[r].order[g][i].url] = 0
             /\ call'[r].order[g][i].url # call'[r].active.url
      BY <2>1
    <2> QED
      BY <2>2, <2>3, OfferIsGone
  <1>7. Grouped(r)'
    BY <1>1 DEF Grouped, IsPreferred
  <1>8. AskedAt(r, u)' /\ \A v \in Urls : AskedAt(r, v) => AskedAt(r, v)'
    BY <1>2, <1>4 DEF AskedAt
  <1>9. \A v : Chosen(r, v) => v = u
    BY DEF Chosen
  <1>10. \A info \in call[r].known : info.url \in Urls
    BY <1>1 DEF CallStates, Infos
  <1>11. AllLeft(r)'
    <2>1. call'[r].why # "exhausted"
      BY <1>1 DEF AllLeft
    <2>2. \A info \in call[r].known :
             \/ IsPreferred(info.url) \/ AskedAt(r, info.url) \/ Chosen(r, info.url)
             \/ \E g \in {2, 3} : \E i \in call[r].left[g] : call[r].order[g][i] = info
      BY <1>1 DEF AllLeft, Attempts
    <2>3. \A info \in call[r].known :
             \/ IsPreferred(info.url) \/ AskedAt(r, info.url)'
             \/ \E g \in {2, 3} : \E i \in call[r].left[g] : call[r].order[g][i] = info
      BY <1>8, <1>9, <1>10, <2>2
    <2> QED
      BY <2>1, <2>3 DEF AllLeft, IsPreferred
  <1>12. CleanFirst(r)'
    <2>1. \A v \in call[r].recent : v \in Urls
      BY <1>1 DEF CallStates
    <2>2. Chosen(r, u)
      BY DEF Chosen
    <2>3. ASSUME NEW v \in call[r].recent, ~IsPreferred(v), call'[r].tried[v] > 0,
                 NEW info \in call[r].known,
                 info.url \in call[r].clean, ~IsPreferred(info.url)
          PROVE  AskedAt(r, info.url)'
      <3>1. call[r].tried[v] > 0 \/ v = u
        BY <1>4, <2>1, <2>3
      <3>2. AskedAt(r, info.url)
        BY <1>1, <2>2, <2>3, <3>1 DEF CleanFirst
      <3> QED
        BY <1>8, <1>10, <3>2
    <2>4. \A v : ~Chosen(r, v)'
      BY DEF Chosen
    <2> QED
      BY <2>3, <2>4 DEF CleanFirst, IsPreferred
  <1> QED
    BY <1>6, <1>7, <1>11, <1>12 DEF InOrder

LEMMA CallInOrder ==
    ASSUME IInv, NEW r \in Requests, Call(r)
    PROVE  InOrder(r)'
  <1>1. call \in [Requests -> CallStates] /\ call[r] \in CallStates /\ TypeOK /\ Grouped(r)
    BY DEF IInv, TypeOK, InOrder
  <1>2. call[r].why = "exhausted" => call[r].at = "failed"
    BY DEF IInv, InOrder, AllLeft
  <1>3. CASE Begin(r) \/ Refresh(r) \/ Prepare(r) \/ DryRun(r)
    <2>1. /\ Kept(r) /\ call[r].at \in Before /\ call'[r].at \in Before \cup {"failed"}
          /\ call'[r].why # "exhausted"
      BY <1>1, <1>2, <1>3 DEF Begin, Refresh, Prepare, DryRun, End, Kept, CallStates, Before
    <2> QED
      BY <2>1, KeptInOrder
  <1>4. CASE InitSelection(r)
    <2>1. CASE End(r, "failed", "noRelays")
      <3>1. /\ Kept(r) /\ call[r].at \in Before /\ call'[r].at \in Before \cup {"failed"}
            /\ call'[r].why # "exhausted"
        BY <1>1, <1>4, <2>1 DEF InitSelection, End, Kept, CallStates, Before
      <3> QED
        BY <3>1, KeptInOrder
    <2>2. CASE ~End(r, "failed", "noRelays")
      <3>1. PICK order \in RelaysShuffled :
              call' = [call EXCEPT ![r].at = "race", ![r].order = order,
                                   ![r].left = [g \in 1..3 |-> DOMAIN order[g]],
                                   ![r].known = known,
                                   ![r].recent = {u \in Urls : failures[u] = "recent"},
                                   ![r].clean = {u \in Urls : failures[u] = "none"}]
        BY <1>4, <2>2 DEF InitSelection
      <3>2. call[r].at = "init"
        BY <1>4 DEF InitSelection
      <3>3. /\ call'[r].at = "race" /\ call'[r].order = order /\ call'[r].known = known
            /\ \A g \in 1..3 : call'[r].left[g] = DOMAIN order[g]
            /\ \A u : /\ u \in call'[r].recent => u \in Urls /\ failures[u] = "recent"
                      /\ u \in call'[r].clean => failures[u] = "none"
            /\ call'[r].tried = call[r].tried /\ call'[r].why = call[r].why
        BY <1>1, <3>1 DEF CallStates
      <3> QED
        BY <3>2, <3>3, DrawnInOrder
    <2> QED
      BY <2>1, <2>2
  <1>5. CASE Race(r) /\ ~RelaysLeft(call[r].left)
    BY <1>5, ExhaustedInOrder
  <1>6. CASE Race(r) /\ RelaysLeft(call[r].left)
    <2>1. PICK g \in 1..3, u \in Urls \cup {None}, errors \in SUBSET Urls, active \in Infos :
            Outcome(r, g, u, errors, active)
      BY <1>1, <1>6, RaceOutcome
    <2>2. call[r].at = "race" /\ call[r].why = call[r].why
      BY <1>6 DEF Race
    <2>3. /\ \A h \in 1..g - 1 : call[r].left[h] = {}
          /\ u # None => \E i \in call[r].left[g] : call[r].order[g][i].url = u
      BY <2>1 DEF Outcome
    <2> DEFINE fewer == Fewer(r, u, errors)
               failed == call[r].pingErrors \cup errors
    <2>4. \/ /\ u = None \/ IsPreferred(u)
             /\ call' = [call EXCEPT ![r].left = fewer, ![r].pingErrors = failed]
          \/ /\ u \in Urls /\ u # None /\ active.url = u
             /\ call' = [call EXCEPT ![r].left = fewer, ![r].pingErrors = failed,
                                     ![r].at = "view", ![r].active = active]
      BY <2>1 DEF Outcome, Infos
    <2> HIDE DEF fewer, failed
    <2>5. /\ call'[r].order = call[r].order /\ call'[r].left = fewer
          /\ call'[r].pingErrors = failed
          /\ call'[r].tried = call[r].tried /\ call'[r].known = call[r].known
          /\ call'[r].recent = call[r].recent /\ call'[r].clean = call[r].clean
          /\ call'[r].why = call[r].why
          /\ \/ (u = None \/ IsPreferred(u)) /\ call'[r].at = "race"
             \/ u \in Urls /\ u # None /\ call'[r].at = "view" /\ call'[r].active.url = u
      BY <1>1, <2>2, <2>4 DEF CallStates
    <2> QED
      BY <2>2, <2>3, <2>5, RaceInOrder DEF fewer, failed
  <1>7. CASE ViewCall(r)
    <2>1. call[r].at = "view"
      BY <1>7 DEF ViewCall
    <2>2. CASE End(r, "failed", "view")
      <3>1. Kept(r) /\ call'[r].at \in Ends /\ call'[r].why # "exhausted"
        BY <1>1, <2>2 DEF End, Kept, CallStates, Ends
      <3> QED
        BY <2>1, <3>1, KeptInOrder
    <2>3. CASE call' = [call EXCEPT ![r].at = "send", ![r].nonce = Sign(r),
                                    ![r].tried[call[r].active.url] = IF @ = 2 THEN 2 ELSE @ + 1]
      <3>1. /\ call'[r].at = "send"
            /\ call'[r].order = call[r].order /\ call'[r].left = call[r].left
            /\ call'[r].pingErrors = call[r].pingErrors /\ call'[r].active = call[r].active
            /\ call'[r].known = call[r].known /\ call'[r].why = call[r].why
            /\ call'[r].recent = call[r].recent /\ call'[r].clean = call[r].clean
            /\ call'[r].tried = [call[r].tried EXCEPT ![call[r].active.url] =
                                                        IF @ = 2 THEN 2 ELSE @ + 1]
        BY <1>1, <2>3 DEF CallStates
      <3> QED
        BY <2>1, <3>1, OfferInOrder
    <2> QED
      BY <1>7, <2>2, <2>3 DEF ViewCall
  <1>8. CASE Respond(r)
    <2>1. /\ Kept(r) /\ call[r].at = "send"
          /\ \/ call'[r].at \in Ends /\ call'[r].why # "exhausted"
             \/ call'[r].at = "race" /\ call'[r].why = call[r].why
      BY <1>1, <1>8 DEF Respond, End, Kept, CallStates, Ends, None
    <2> QED
      BY <2>1, KeptInOrder
  <1> QED
    BY <1>3, <1>4, <1>5, <1>6, <1>7, <1>8 DEF Call

-----------------------------------------------------------------------------
(* Theorems.                                                               *)

LEMMA InitIsInOrder == Init => IInv
  <1> SUFFICES ASSUME Init PROVE IInv
    OBVIOUS
  <1>1. Fresh \in CallStates
    BY DEF Fresh, CallStates, Before, Reasons, NoRelay
  <1>2. TypeOK
    BY <1>1 DEF Init, TypeOK, Fresh, Attempts
  <1>3. OneNonce
    BY DEF Init, OneNonce
  <1>4. \A r \in Requests : InOrder(r)
    BY DEF Init, InOrder, TriedIsGone, Grouped, AllLeft, CleanFirst, Fresh, Before, Attempts, None
  <1> QED
    BY <1>2, <1>3, <1>4 DEF IInv

LEMMA StepKeepsOrder == IInv /\ [Next]_vars => IInv'
  <1> SUFFICES ASSUME IInv, [Next]_vars PROVE IInv'
    OBVIOUS
  <1>1. CASE Next
    <2>1. \A r \in Requests : InOrder(r)'
      <3>1. CASE Mine \/ Age
        <4>1. call' = call
          BY <3>1 DEF Mine, Age
        <4> QED
          BY <4>1, OthersKeepOrder DEF IInv
      <3>2. ASSUME NEW q \in Requests, Call(q), NEW r \in Requests
            PROVE  InOrder(r)'
        <4>1. CASE r = q
          BY <3>2, <4>1, CallInOrder
        <4>2. CASE r # q
          BY <3>2, <4>2, CallsApart, OthersKeepOrder DEF IInv
        <4> QED
          BY <4>1, <4>2
      <3> QED
        BY <1>1, <3>1, <3>2 DEF Next
    <2> QED
      BY <1>1, <2>1, TypesKept, NonceInvariant DEF IInv
  <1>2. CASE UNCHANGED vars
    <2>1. TypeOK'
      BY <1>2 DEF IInv, TypeOK, vars
    <2>2. OneNonce'
      BY <1>2 DEF IInv, OneNonce, vars
    <2>3. \A r \in Requests : InOrder(r)'
      BY <1>2, OthersKeepOrder DEF IInv, vars
    <2> QED
      BY <2>1, <2>2, <2>3 DEF IInv
  <1> QED
    BY <1>1, <1>2

\* A call always knows whom it asked, whom it has left, and in which order they were
\* drawn; what is signed for it carries one nonce.
THEOREM Invariant == Spec => []IInv
  BY InitIsInOrder, StepKeepsOrder, PTL DEF Spec

\* One call never offers its request to the same URL twice, gives up only after
\* every relay it knows was tried or did not answer its ping, and asks a relay that
\* failed a short while ago last; a request is executed once, whatever the relays do.
THEOREM RelaysAreTried == Spec => []RelaysTried
  <1>1. IInv => RelaysTried
    <2> SUFFICES ASSUME IInv PROVE RelaysTried
      OBVIOUS
    <2>1. TypeOK /\ OneNonce /\ \A r \in Requests : InOrder(r)
      BY DEF IInv
    <2>2. ExecutedOnce
      BY <2>1 DEF ExecutedOnce, OneNonce, TypeOK
    <2>3. NoUrlTwice
      BY <2>1 DEF NoUrlTwice, InOrder, TriedIsGone
    <2>4. TriedAll
      BY <2>1 DEF TriedAll, InOrder, AllLeft, IsPreferred
    <2>5. FailedLast
      BY <2>1 DEF FailedLast, InOrder, CleanFirst, IsPreferred, TypeOK, CallStates
    <2> QED
      BY <2>1, <2>2, <2>3, <2>4, <2>5 DEF RelaysTried
  <1> QED
    BY <1>1, Invariant, PTL

-----------------------------------------------------------------------------
(* The command that registers a relay server.                              *)


OneTerminal == \A c, d \in Commands : c = d

StakedFor(c) == stake >= Options(c).stake /\ delay >= Options(c).delay

\* What the run read is still so until it stakes, the owner it waits for stays, it has the
\* tokens and the allowance it is going to spend, and after it staked there is what it was
\* asked for.
RunInOrder(c) ==
    /\ command[c].at # "idle" => command[c].result = "none"
    /\ command[c].at \in {"fund", "owner", "check", "wrap", "approve", "stake"} =>
         SeenStake(c) = stake /\ SeenDelay(c) = delay /\ (SeenOwned(c) => owned)
    /\ command[c].at \in {"check", "wrap", "approve", "stake"} => owned
    /\ command[c].at \in {"approve", "stake"} /\ Options(c).wrap => StakeValue(c) <= tokens
    /\ command[c].at = "stake" => StakeValue(c) <= allowance
    /\ command[c].at \in {"verify", "wait"} => StakedFor(c)
    /\ command[c].result = "success" => StakedFor(c) /\ Staked

CommandsInv ==
    /\ CommandsTypeOK /\ NoOverstake /\ RetryNotRefused
    /\ ready => Staked
    /\ \A c \in Commands : RunInOrder(c)

-----------------------------------------------------------------------------

\* What a step of a run leaves of its record.
LEMMA RunGoesOn ==
    ASSUME CommandsTypeOK, NEW c \in Commands, NEW step \in Steps, To(c, step)
    PROVE  /\ command' \in [Commands -> RunRecords]
           /\ command'[c].at = step /\ command'[c].options = command[c].options
           /\ command'[c].seen = command[c].seen /\ command'[c].result = command[c].result
  BY DEF CommandsTypeOK, To, RunRecords

LEMMA RunEnds ==
    ASSUME CommandsTypeOK, NEW c \in Commands, NEW result \in Results, EndsRun(c, result)
    PROVE  /\ command' \in [Commands -> RunRecords]
           /\ command'[c].at = "idle" /\ command'[c].options = command[c].options
           /\ command'[c].result = result
  BY DEF CommandsTypeOK, EndsRun, RunRecords, Resting, NoOptions, OptionRecords, Steps, Results

\* Options that were given are options.
LEMMA OptionsOf ==
    ASSUME CommandsTypeOK, NEW c \in Commands
    PROVE  /\ command[c] \in RunRecords
           /\ Options(c).stake \in Nat /\ Options(c).delay \in Nat /\ Options(c).funds \in Nat
           /\ Options(c).wrap \in BOOLEAN /\ Options(c).owner \in BOOLEAN
           /\ SeenStake(c) \in Nat /\ SeenDelay(c) \in Nat /\ SeenOwned(c) \in BOOLEAN
           /\ StakeValue(c) \in Int
  BY DEF CommandsTypeOK, RunRecords, OptionRecords, Options, SeenStake, SeenDelay, SeenOwned, StakeValue

LEMMA CommandsStartInOrder ==
    ASSUME CommandsAssumption, CommandsInit
    PROVE  CommandsInv
  <1>1. CommandsTypeOK
    <2>1. NoOptions \in OptionRecords
      BY DEF NoOptions, OptionRecords
    <2>2. Resting \in RunRecords
      <3>1. <<0, 0, FALSE>> \in Nat \X Nat \X BOOLEAN
        OBVIOUS
      <3> DEFINE nothing == <<0, 0, FALSE>>
      <3>2. Resting = [at |-> "idle", options |-> NoOptions, seen |-> nothing, result |-> "none"]
        BY DEF Resting
      <3> HIDE DEF nothing
      <3>3. "idle" \in Steps /\ "none" \in Results
        BY DEF Steps, Results
      <3>4. nothing \in Nat \X Nat \X BOOLEAN
        BY <3>1 DEF nothing
      <3> QED
        BY <2>1, <3>2, <3>3, <3>4 DEF RunRecords
    <2>3. command \in [Commands -> RunRecords] /\ \A c \in Commands : command[c].at = "idle"
      BY <2>2 DEF CommandsInit, Resting
    <2>4. {owned, authorized, ready} \subseteq BOOLEAN
      BY Zenon DEF CommandsInit
    <2>5. MaxRuns \in Nat /\ MaxFailures \in Nat
      BY DEF CommandsAssumption
    <2> QED
      BY <2>3, <2>4, <2>5 DEF CommandsInit, CommandsTypeOK
  <1>2. NoOverstake /\ RetryNotRefused /\ (ready => Staked)
    BY DEF CommandsInit, NoOverstake, RetryNotRefused, SameAgain, Resting
  <1>3. \A c \in Commands : RunInOrder(c)
    BY DEF CommandsInit, RunInOrder, Resting
  <1> QED
    BY <1>1, <1>2, <1>3 DEF CommandsInv

LEMMA RunKeepsOrder ==
    ASSUME CommandsAssumption, OneTerminal, CommandsInv, NEW c \in Commands, Run(c)
    PROVE  CommandsInv'
  <1>1. PICK o \in Askable :
          /\ command' = [command EXCEPT ![c] = [Resting EXCEPT !.at = "info", !.options = o]]
          /\ asked' = asked \union {o}
    BY DEF Run
  <1>2. o \in OptionRecords /\ o.delay \in Nat /\ asked' \subseteq Askable
    BY <1>1 DEF CommandsAssumption, CommandsInv, CommandsTypeOK, OptionRecords
  <1>4. command' \in [Commands -> RunRecords] /\ command'[c].at = "info" /\ command'[c].options = o
        /\ command'[c].result = "none"
    BY <1>1, <1>2 DEF CommandsInv, CommandsTypeOK, RunRecords, Resting, NoOptions, Steps, Results
  <1>5. UNCHANGED <<stake, delay, owned, authorized, balance, tokens, allowance, ready, funded, spent, stepFailures>>
        /\ runs' = runs + 1 /\ runs < MaxRuns
    BY DEF Run, staking, purse
  <1>6. CommandsTypeOK'
    BY <1>1, <1>2, <1>4, <1>5 DEF CommandsInv, CommandsTypeOK, OneTerminal, CommandsAssumption
  <1>7. NoOverstake' /\ RetryNotRefused'
    BY <1>1, <1>4, <1>5 DEF CommandsInv, NoOverstake, RetryNotRefused, OneTerminal
  <1>8. (ready => Staked)'
    BY <1>5 DEF CommandsInv, Staked
  <1>9. \A d \in Commands : RunInOrder(d)'
    BY <1>4 DEF RunInOrder, OneTerminal, Options
  <1> QED
    BY <1>6, <1>7, <1>8, <1>9 DEF CommandsInv

\* What a run that ends keeps: stake and delay did not fall, and who ends with success has
\* what it was asked for.
LEMMA EndKeepsOrder ==
    ASSUME CommandsAssumption, OneTerminal, CommandsInv, NEW c \in Commands, NEW result \in Results, EndsRun(c, result),
           result = "refused" => ~SameAgain,
           result = "success" => StakedFor(c) /\ Staked,
           UNCHANGED <<stake, delay, owned, authorized, balance, tokens, allowance, ready, runs, funded, spent, asked>>,
           stepFailures' \in 0..MaxFailures
    PROVE  CommandsInv'
  <1>1. /\ command' \in [Commands -> RunRecords] /\ command'[c].at = "idle"
        /\ command'[c].options = command[c].options /\ command'[c].result = result
    BY RunEnds DEF CommandsInv
  <1>2. CommandsTypeOK'
    BY <1>1 DEF CommandsInv, CommandsTypeOK, OneTerminal
  <1>3. NoOverstake' /\ RetryNotRefused' /\ (ready => Staked)'
    BY <1>1 DEF CommandsInv, NoOverstake, RetryNotRefused, Staked, OneTerminal, SameAgain
  <1>4. RunInOrder(c)'
    BY <1>1 DEF RunInOrder, StakedFor, Options, Staked
  <1> QED
    BY <1>2, <1>3, <1>4 DEF CommandsInv, OneTerminal

\* A step to the next wait or transaction, that changes nothing of stake, delay and readiness.
LEMMA CommandStepKeepsOrder ==
    ASSUME CommandsAssumption, OneTerminal, CommandsInv, NEW c \in Commands, NEW step \in Steps, To(c, step),
           command[c].at # "idle",
           UNCHANGED <<stake, delay, owned, ready, runs, spent, stepFailures, asked>>,
           authorized' \in BOOLEAN, authorized => authorized',
           {balance', tokens', allowance', funded'} \subseteq Nat, balance' = funded' - spent,
           RunInOrder(c)'
    PROVE  CommandsInv'
  <1>1. /\ command' \in [Commands -> RunRecords] /\ command'[c].at = step
        /\ command'[c].options = command[c].options /\ command'[c].result = command[c].result
    BY RunGoesOn DEF CommandsInv
  <1>2. CommandsTypeOK'
    BY <1>1 DEF CommandsInv, CommandsTypeOK, OneTerminal
  <1>3. NoOverstake' /\ RetryNotRefused' /\ (ready => Staked)'
    BY <1>1 DEF CommandsInv, NoOverstake, RetryNotRefused, Staked, OneTerminal, SameAgain
  <1> QED
    BY <1>2, <1>3 DEF CommandsInv, OneTerminal

LEMMA ReadKeepsOrder ==
    ASSUME CommandsAssumption, OneTerminal, CommandsInv, NEW c \in Commands, ReadStakeInfo(c)
    PROVE  CommandsInv'
  <1>1. At(c, "info") /\ UNCHANGED <<stake, delay, owned, authorized, balance, tokens, allowance, ready,
                                     runs, funded, spent, stepFailures, asked>>
    BY DEF ReadStakeInfo, staking, purse, counts
  <1>2. CASE EndsRun(c, "nothing")
    BY <1>1, <1>2, EndKeepsOrder DEF CommandsInv, CommandsTypeOK, Results
  <1>3. CASE ~Options(c).owner /\ EndsRun(c, "refused")
    <2>1. ~SameAgain
      BY <1>1, <1>3 DEF SameAgain, CommandsInv, CommandsTypeOK, At, Options
    <2> QED
      BY <1>1, <1>3, <2>1, EndKeepsOrder DEF CommandsInv, CommandsTypeOK, Results
  <1>4. CASE command' = [command EXCEPT ![c].at = "fund", ![c].seen = <<stake, delay, owned>>]
    <2>1. <<stake, delay, owned>> \in Nat \X Nat \X BOOLEAN
      BY DEF CommandsInv, CommandsTypeOK, CommandsAssumption, OptionRecords
    <2>2. /\ command' \in [Commands -> RunRecords] /\ command'[c].at = "fund"
          /\ command'[c].options = command[c].options /\ command'[c].result = command[c].result
          /\ command'[c].seen = <<stake, delay, owned>>
      BY <1>4, <2>1 DEF CommandsInv, CommandsTypeOK, RunRecords, Steps
    <2>3. CommandsTypeOK'
      BY <1>1, <2>2 DEF CommandsInv, CommandsTypeOK, OneTerminal, At
    <2>4. NoOverstake' /\ RetryNotRefused' /\ (ready => Staked)'
      BY <1>1, <2>2 DEF CommandsInv, NoOverstake, RetryNotRefused, SameAgain, Staked, OneTerminal
    <2>5. RunInOrder(c)'
      BY <1>1, <2>2 DEF CommandsInv, RunInOrder, StakedFor, Options, SeenStake, SeenDelay, SeenOwned, At
    <2> QED
      BY <1>1, <2>3, <2>4, <2>5 DEF CommandsInv, OneTerminal
  <1> QED
    BY <1>2, <1>3, <1>4 DEF ReadStakeInfo

LEMMA FundKeepsOrder ==
    ASSUME CommandsAssumption, OneTerminal, CommandsInv, NEW c \in Commands, Fund(c)
    PROVE  CommandsInv'
  <1>1. At(c, "fund") /\ UNCHANGED <<stake, delay, owned, authorized, tokens, allowance, ready, runs,
                                     spent, stepFailures, asked>>
    BY DEF Fund, staking, purse
  <1>2. Options(c).funds \in Nat
    BY OptionsOf DEF CommandsInv
  <1>3. {balance', funded'} \subseteq Nat /\ balance' = funded' - spent
    BY <1>2 DEF Fund, CommandsInv, CommandsTypeOK
  <1>4. PICK step \in {"check", "owner"} : To(c, step) /\ (step = "check" => SeenOwned(c))
    BY DEF Fund
  <1>5. /\ command'[c].at = step /\ command'[c].options = command[c].options
        /\ command'[c].seen = command[c].seen /\ command'[c].result = command[c].result
    BY <1>4, RunGoesOn DEF CommandsInv, Steps
  <1>6. RunInOrder(c)'
    BY <1>1, <1>4, <1>5 DEF CommandsInv, RunInOrder, StakedFor, Options, SeenStake, SeenDelay, SeenOwned, At
  <1> QED
    BY <1>1, <1>3, <1>4, <1>6, CommandStepKeepsOrder DEF CommandsInv, CommandsTypeOK, At, Steps

LEMMA WaitForOwnerKeepsOrder ==
    ASSUME CommandsAssumption, OneTerminal, CommandsInv, NEW c \in Commands, WaitForOwner(c)
    PROVE  CommandsInv'
  <1>1. At(c, "owner") /\ owned /\ To(c, "check")
        /\ UNCHANGED <<stake, delay, owned, authorized, balance, tokens, allowance, ready, runs, funded, spent,
                       stepFailures, asked>>
    BY DEF WaitForOwner, staking, purse, counts
  <1>2. /\ command'[c].at = "check" /\ command'[c].options = command[c].options
        /\ command'[c].seen = command[c].seen /\ command'[c].result = command[c].result
    BY <1>1, RunGoesOn DEF CommandsInv, Steps
  <1>3. RunInOrder(c)'
    BY <1>1, <1>2 DEF CommandsInv, RunInOrder, StakedFor, Options, SeenStake, SeenDelay, SeenOwned, At
  <1> QED
    BY <1>1, <1>3, CommandStepKeepsOrder DEF CommandsInv, CommandsTypeOK, At, Steps

LEMMA CheckKeepsOrder ==
    ASSUME CommandsAssumption, OneTerminal, CommandsInv, NEW c \in Commands, Check(c)
    PROVE  CommandsInv'
  <1>1. At(c, "check") /\ UNCHANGED <<stake, delay, owned, authorized, balance, tokens, allowance, ready,
                                      runs, funded, spent, stepFailures, asked>>
    BY DEF Check, staking, purse, counts
  <1>2. CASE AlreadyStaked(c) /\ To(c, "verify")
    <2>1. /\ command'[c].at = "verify" /\ command'[c].options = command[c].options
          /\ command'[c].seen = command[c].seen /\ command'[c].result = command[c].result
      BY <1>2, RunGoesOn DEF CommandsInv, Steps
    <2>2. RunInOrder(c)'
      BY <1>1, <1>2, <2>1 DEF CommandsInv, RunInOrder, StakedFor, AlreadyStaked, Options, SeenStake, SeenDelay, SeenOwned, At
    <2> QED
      BY <1>1, <1>2, <2>2, CommandStepKeepsOrder DEF CommandsInv, CommandsTypeOK, At, Steps
  <1>3. CASE To(c, "wrap")
    <2>1. /\ command'[c].at = "wrap" /\ command'[c].options = command[c].options
          /\ command'[c].seen = command[c].seen /\ command'[c].result = command[c].result
      BY <1>3, RunGoesOn DEF CommandsInv, Steps
    <2>2. RunInOrder(c)'
      BY <1>1, <2>1 DEF CommandsInv, RunInOrder, StakedFor, Options, SeenStake, SeenDelay, SeenOwned, At
    <2> QED
      BY <1>1, <1>3, <2>2, CommandStepKeepsOrder DEF CommandsInv, CommandsTypeOK, At, Steps
  <1>4. CASE ~Eligible(Options(c)) /\ EndsRun(c, "refused")
    <2>1. ~SameAgain
      BY <1>1, <1>4 DEF SameAgain, Eligible, CommandsInv, CommandsTypeOK, At, Options
    <2> QED
      BY <1>1, <1>4, <2>1, EndKeepsOrder DEF CommandsInv, CommandsTypeOK, Results
  <1> QED
    BY <1>2, <1>3, <1>4 DEF Check

LEMMA WrapKeepsOrder ==
    ASSUME CommandsAssumption, OneTerminal, CommandsInv, NEW c \in Commands, Wrap(c)
    PROVE  CommandsInv'
  <1>1. At(c, "wrap") /\ To(c, "approve")
        /\ UNCHANGED <<stake, delay, owned, authorized, balance, allowance, ready, runs, funded, spent, stepFailures, asked>>
    BY DEF Wrap, staking, counts
  <1>2. tokens' = IF tokens < StakeValue(c) /\ Options(c).wrap THEN tokens + StakeValue(c) ELSE tokens
    BY DEF Wrap
  <1>3. /\ command'[c].at = "approve" /\ command'[c].options = command[c].options
        /\ command'[c].seen = command[c].seen /\ command'[c].result = command[c].result
    BY <1>1, RunGoesOn DEF CommandsInv, Steps
  <1>4. StakeValue(c) \in Int /\ StakeValue(c)' = StakeValue(c) /\ tokens \in Nat
    BY <1>3, OptionsOf DEF CommandsInv, CommandsTypeOK, StakeValue, Options, SeenStake
  <1>5. tokens' \in Nat /\ (Options(c).wrap => StakeValue(c) <= tokens')
    BY <1>2, <1>4
  <1>6. RunInOrder(c)'
    <2> HIDE DEF StakeValue
    <2> QED
      BY <1>1, <1>3, <1>4, <1>5 DEF CommandsInv, RunInOrder, StakedFor, Options, SeenStake, SeenDelay, SeenOwned, At
  <1> QED
    BY <1>1, <1>5, <1>6, CommandStepKeepsOrder DEF CommandsInv, CommandsTypeOK, At, Steps

LEMMA ApproveKeepsOrder ==
    ASSUME CommandsAssumption, OneTerminal, CommandsInv, NEW c \in Commands, Approve(c)
    PROVE  CommandsInv'
  <1>1. At(c, "approve") /\ To(c, "stake")
        /\ UNCHANGED <<stake, delay, owned, authorized, balance, tokens, ready, runs, funded, spent, stepFailures, asked>>
    BY DEF Approve, staking, counts
  <1>2. allowance' = IF allowance < StakeValue(c) THEN StakeValue(c) ELSE allowance
    BY DEF Approve
  <1>3. /\ command'[c].at = "stake" /\ command'[c].options = command[c].options
        /\ command'[c].seen = command[c].seen /\ command'[c].result = command[c].result
    BY <1>1, RunGoesOn DEF CommandsInv, Steps
  <1>4. StakeValue(c) \in Int /\ StakeValue(c)' = StakeValue(c) /\ allowance \in Nat
    BY <1>3, OptionsOf DEF CommandsInv, CommandsTypeOK, StakeValue, Options, SeenStake
  <1>5. allowance' \in Nat /\ StakeValue(c) <= allowance'
    BY <1>2, <1>4
  <1>6. RunInOrder(c)'
    <2> HIDE DEF StakeValue
    <2> QED
      BY <1>1, <1>3, <1>4, <1>5 DEF CommandsInv, RunInOrder, StakedFor, Options, SeenStake, SeenDelay, SeenOwned, At
  <1> QED
    BY <1>1, <1>5, <1>6, CommandStepKeepsOrder DEF CommandsInv, CommandsTypeOK, At, Steps

\* The one step that stakes: what it adds is what was missing, so there is then what the
\* run was asked for.  Who is refused here was not asked for the same as all runs before.
LEMMA StakeKeepsOrder ==
    ASSUME CommandsAssumption, OneTerminal, CommandsInv, NEW c \in Commands, StakeForRelayManager(c)
    PROVE  CommandsInv'
  <1>1. At(c, "stake") /\ UNCHANGED <<owned, authorized, balance, ready, runs, funded, spent, stepFailures, asked>>
    BY DEF StakeForRelayManager, counts
  <1>2. /\ Options(c).stake \in Nat /\ Options(c).delay \in Nat /\ Options(c).wrap \in BOOLEAN
        /\ stake \in Nat /\ delay \in Nat /\ tokens \in Nat /\ allowance \in Nat /\ Options(c) \in asked
    BY <1>1, OptionsOf DEF CommandsInv, CommandsTypeOK, At, Options, CommandsAssumption, OptionRecords
  <1>3. StakeValue(c) = Options(c).stake - stake /\ command[c].result = "none"
    BY <1>1 DEF CommandsInv, RunInOrder, At, StakeValue
  <1>4. CASE CanStake(c) /\ To(c, "verify") /\ stake' = stake + StakeValue(c) /\ delay' = Options(c).delay
             /\ tokens' = tokens - StakeValue(c) /\ allowance' = allowance - StakeValue(c)
    <2>1. /\ command' \in [Commands -> RunRecords] /\ command'[c].at = "verify"
          /\ command'[c].options = command[c].options /\ command'[c].result = command[c].result
      BY <1>4, RunGoesOn DEF CommandsInv, Steps
    <2>2. stake' = Options(c).stake /\ stake <= stake' /\ delay <= delay' /\ tokens' \in Nat /\ allowance' \in Nat
      BY <1>2, <1>3, <1>4 DEF CanStake
    <2>3. CommandsTypeOK'
      BY <1>1, <1>2, <1>4, <2>1, <2>2 DEF CommandsInv, CommandsTypeOK, OneTerminal, At, Options
    <2>4. NoOverstake' /\ RetryNotRefused'
      BY <1>1, <1>2, <1>3, <2>1, <2>2 DEF CommandsInv, NoOverstake, RetryNotRefused, SameAgain, OneTerminal
    <2>5. (ready => Staked)'
      BY <1>1, <1>2, <1>4, <2>2 DEF CommandsInv, Staked, CommandsAssumption
    <2>6. RunInOrder(c)'
      BY <1>1, <1>2, <1>3, <1>4, <2>1, <2>2 DEF RunInOrder, StakedFor, Options
    <2> QED
      BY <1>1, <2>3, <2>4, <2>5, <2>6 DEF CommandsInv, OneTerminal
  <1>5. CASE ~CanStake(c) /\ EndsRun(c, "refused") /\ UNCHANGED <<stake, delay, purse>>
    <2>1. ASSUME SameAgain
          PROVE  FALSE
      <3>1. PICK o : asked = {o} /\ o.wrap
        BY <2>1 DEF SameAgain
      <3>2. Options(c) = o /\ o.wrap /\ o.stake \in Nat
        BY <1>2, <3>1
      <3>3. delay <= Options(c).delay /\ stake <= o.stake
        BY <1>2, <3>1, <3>2 DEF CommandsInv, CommandsTypeOK, NoOverstake
      <3>4. StakeValue(c) >= 0 /\ owned /\ StakeValue(c) <= tokens /\ StakeValue(c) <= allowance
        <4>1. owned /\ StakeValue(c) <= tokens /\ StakeValue(c) <= allowance
          BY <1>1, <3>2 DEF CommandsInv, RunInOrder, At
        <4> QED
          BY <4>1, <1>2, <1>3, <3>2, <3>3
      <3> QED
        BY <1>2, <1>5, <3>3, <3>4 DEF CanStake
    <2> QED
      BY <1>1, <1>5, <2>1, EndKeepsOrder DEF purse, CommandsInv, CommandsTypeOK, Results
  <1> QED
    BY <1>4, <1>5 DEF StakeForRelayManager

LEMMA AuthorizeKeepsOrder ==
    ASSUME CommandsAssumption, OneTerminal, CommandsInv, NEW c \in Commands, AuthorizeHubByOwner(c)
    PROVE  CommandsInv'
  <1>1. At(c, "verify") /\ To(c, "wait") /\ authorized' = TRUE
        /\ UNCHANGED <<stake, delay, owned, balance, tokens, allowance, ready, runs, funded, spent, stepFailures, asked>>
    BY DEF AuthorizeHubByOwner, purse, counts
  <1>2. /\ command'[c].at = "wait" /\ command'[c].options = command[c].options
        /\ command'[c].seen = command[c].seen /\ command'[c].result = command[c].result
    BY <1>1, RunGoesOn DEF CommandsInv, Steps
  <1>3. RunInOrder(c)'
    BY <1>1, <1>2 DEF CommandsInv, RunInOrder, StakedFor, Options, At
  <1> QED
    BY <1>1, <1>3, CommandStepKeepsOrder DEF CommandsInv, CommandsTypeOK, At, Steps

LEMMA WaitForRelayKeepsOrder ==
    ASSUME CommandsAssumption, OneTerminal, CommandsInv, NEW c \in Commands, WaitForRelay(c)
    PROVE  CommandsInv'
  <1>1. At(c, "wait") /\ EndsRun(c, "success")
        /\ UNCHANGED <<stake, delay, owned, authorized, balance, tokens, allowance, ready, runs, funded, spent,
                       stepFailures, asked>>
    BY DEF WaitForRelay, staking, purse, counts
  <1>2. StakedFor(c) /\ Staked
    BY <1>1 DEF CommandsInv, RunInOrder, At, WaitForRelay
  <1> QED
    BY <1>1, <1>2, EndKeepsOrder DEF CommandsInv, CommandsTypeOK, Results

LEMMA FailsKeepsOrder ==
    ASSUME CommandsAssumption, OneTerminal, CommandsInv, NEW c \in Commands, Fails(c)
    PROVE  CommandsInv'
  <1>1. /\ EndsRun(c, "failed") /\ stepFailures < MaxFailures /\ stepFailures' = stepFailures + 1
        /\ UNCHANGED <<stake, delay, owned, authorized, balance, tokens, allowance, ready, runs, funded, spent, asked>>
    BY DEF Fails, staking, purse
  <1>2. stepFailures' \in 0..MaxFailures
    BY <1>1 DEF CommandsInv, CommandsTypeOK, CommandsAssumption
  <1> QED
    BY <1>1, <1>2, EndKeepsOrder DEF Results

LEMMA ServerKeepsOrder ==
    ASSUME CommandsAssumption, CommandsInv, ServerSetsOwner \/ ServerRegisters
    PROVE  CommandsInv'
  <1>1. /\ UNCHANGED <<stake, delay, authorized, tokens, allowance, command, runs, funded, stepFailures, asked>>
        /\ (owned => owned') /\ owned' \in BOOLEAN
        /\ ready' \in BOOLEAN /\ (ready' => ready \/ Staked)
        /\ balance > 0 /\ balance' = balance - 1 /\ spent' = spent + 1
    <2>1. CASE ServerSetsOwner
      BY <2>1 DEF ServerSetsOwner, staking, purse, CommandsInv, CommandsTypeOK
    <2>2. CASE ServerRegisters
      BY <2>2 DEF ServerRegisters, staking, purse, CommandsInv, CommandsTypeOK
    <2> QED
      BY <2>1, <2>2
  <1>2. CommandsTypeOK'
    BY <1>1 DEF CommandsInv, CommandsTypeOK
  <1>3. NoOverstake' /\ RetryNotRefused' /\ (ready => Staked)'
    BY <1>1 DEF CommandsInv, NoOverstake, RetryNotRefused, SameAgain, Staked
  <1>4. \A c \in Commands : RunInOrder(c)'
    BY <1>1 DEF CommandsInv, RunInOrder, StakedFor, Staked, Options, SeenStake, SeenDelay, SeenOwned, StakeValue
  <1> QED
    BY <1>1, <1>2, <1>3, <1>4 DEF CommandsInv

LEMMA NextKeepsOrder ==
    ASSUME CommandsAssumption, OneTerminal, CommandsInv, [CommandsNext]_commandVars
    PROVE  CommandsInv'
  <1>1. CASE UNCHANGED commandVars
    <2>1. UNCHANGED <<stake, delay, owned, authorized, balance, tokens, allowance, ready, command, runs, funded, spent,
                      stepFailures, asked>>
      BY <1>1 DEF commandVars, staking, purse, counts
    <2> QED
      BY <2>1 DEF CommandsInv, CommandsTypeOK, NoOverstake, RetryNotRefused, SameAgain, Staked, RunInOrder, StakedFor, Options, SeenStake,
                  SeenDelay, SeenOwned, StakeValue
  <1>2. ASSUME NEW c \in Commands, Step(c)
        PROVE  CommandsInv'
    BY <1>2, ReadKeepsOrder, FundKeepsOrder, WaitForOwnerKeepsOrder, CheckKeepsOrder, WrapKeepsOrder, ApproveKeepsOrder,
       StakeKeepsOrder, AuthorizeKeepsOrder, WaitForRelayKeepsOrder DEF Step
  <1> QED
    BY <1>1, <1>2, RunKeepsOrder, FailsKeepsOrder, ServerKeepsOrder DEF CommandsNext

-----------------------------------------------------------------------------

\* The inductive invariant holds of every run in one terminal.
THEOREM CommandsInvariant ==
    ASSUME CommandsAssumption, OneTerminal
    PROVE  CommandsSpec => []CommandsInv
  <1>1. CommandsInit => CommandsInv
    BY CommandsStartInOrder
  <1>2. CommandsInv /\ [CommandsNext]_commandVars => CommandsInv'
    BY NextKeepsOrder
  <1> QED
    BY <1>1, <1>2, PTL DEF CommandsSpec

\* However often registerRelay fails and is run again, no more is staked than it was asked
\* for, a run that reports success leaves the stake and the delay it was asked for, and a
\* command that was eligible is not refused when it is repeated.
THEOREM StakesAsAsked ==
    ASSUME CommandsAssumption, OneTerminal
    PROVE  CommandsSpec => []StakeAsAsked
  <1>1. CommandsInv => StakeAsAsked
    <2> SUFFICES ASSUME CommandsInv
                 PROVE  SuccessIsStaked
      BY DEF CommandsInv, StakeAsAsked
    <2> QED
      BY DEF CommandsInv, SuccessIsStaked, RunInOrder, StakedFor, Options
  <1> QED
    BY <1>1, CommandsInvariant, PTL

-----------------------------------------------------------------------------
(* Queries for past events.                                                *)

\* What the counts of events mean: they never fall.
Grows == \A a, b \in 0..Height : a <= b => EventsUpTo(a) <= EventsUpTo(b)

\* Pages that follow one another from the first block of a range to its last.
Tiled(p, from, to) ==
    /\ p \in Seq(Int \X Int) /\ Len(p) >= 1
    /\ p[1][1] = from /\ p[Len(p)][2] = to
    /\ \A i \in 1..Len(p) : from <= p[i][1] /\ p[i][1] <= p[i][2] /\ p[i][2] <= to
    /\ \A i \in 1..Len(p) - 1 : p[i + 1][1] = p[i][2] + 1

\* The range of a query that has one: reach blocks, a block that is still to come, or
\* open to the latest.
RangeFits(from, to, reach) ==
    /\ from \in 1..Height + 1 /\ reach \in 0..Height
    /\ \/ to = Latest
       \/ to \in from..Height /\ reach <= to
       \/ to = from /\ reach <= to

\* A sequence that has the events after a number up to another, and one that is these.
HasEvents(p, b, e) == \A n \in b + 1..e : \E j \in 1..Len(p) : p[j] = n
IsEvents(p, b, e) == Len(p) = e - b /\ \A i \in 1..Len(p) : p[i] = b + i

\* parts has the events from the first of the range up to a number; and exactly those, in
\* order, in a query that was not cut again.
HoldsUpTo(e) ==
    /\ EventsUpTo(range.from - 1) <= e
    /\ HasEvents(parts, EventsUpTo(range.from - 1), e)
    /\ pagesCurrent = PagesForRange(range.from, range.to) =>
         IsEvents(parts, EventsUpTo(range.from - 1), e)

\* A query at work: its pages cover the range, and those before the next are fetched.
Fetching ==
    /\ RangeFits(range.from, range.to, range.known) /\ Tiled(pages, range.from, range.to)
    /\ nextPage \in 1..Len(pages)
    /\ range.to = Latest => Len(pages) = 1
    /\ pagesCurrent >= 1 /\ pagesCurrent >= PagesForRange(range.from, range.to)
    /\ HoldsUpTo(EventsUpTo(pages[nextPage][1] - 1))

\* A query that has ended holds the events of the range it was sure to reach.
Fetched ==
    /\ range.from \in 1..Height + 1 /\ range.known \in 0..Height
    /\ \E e \in Nat : EventsUpTo(range.known) <= e /\ HoldsUpTo(e)

PagesInv ==
    /\ PagesTypeOK /\ Grows
    /\ range = [from |-> range.from, to |-> range.to, known |-> range.known]
    /\ queryAt = "block" => parts = <<>> /\ range.from \in 1..Height + 1 /\ attempts < MaxBlockAttempts
    /\ queryAt = "fetch" => Fetching
    /\ queryAt = "done" => Fetched

\* Rounding up: the least number of parts of size b that a fits into.
LEMMA CeilDivFits ==
    ASSUME NEW a \in Nat, NEW b \in Nat, a >= 1, b >= 1
    PROVE  /\ CeilDiv(a, b) \in Nat /\ CeilDiv(a, b) >= 1
           /\ CeilDiv(a, b) * b >= a /\ (CeilDiv(a, b) - 1) * b < a
  <1>1. PICK q \in Int : q = CeilDiv(a, b)
    BY DEF CeilDiv
  <1>2. PICK r \in 0..b - 1 : a + b - 1 = b * q + r
    BY <1>1 DEF CeilDiv
  <1>3. q >= 1
    <2>1. ASSUME q <= 0
          PROVE  FALSE
      <3>1. b * q <= 0
        BY <2>1
      <3> QED
        BY <3>1, <1>2
    <2> QED
      BY <2>1
  <1>4. q * b = b * q /\ (q - 1) * b = b * q - b
    OBVIOUS
  <1> QED
    BY <1>1, <1>2, <1>3, <1>4

\* splitRange covers the range, without gaps or overlaps.
LEMMA SplitRangeTiles ==
    ASSUME NEW from \in Int, NEW to \in Int, from <= to, NEW n \in Nat, n >= 1
    PROVE  Tiled(SplitRange(from, to, n), from, to) /\ (n = 1 => Len(SplitRange(from, to, n)) = 1)
  <1>1. CASE n = 1
    BY <1>1 DEF SplitRange, Tiled
  <1>2. CASE n # 1
    <2> DEFINE length == to - from + 1
    <2>1. PICK size \in Nat : size = CeilDiv(length, n) /\ size >= 1
      BY CeilDivFits
    <2>2. PICK count \in Nat : /\ count = CeilDiv(length, size) /\ count >= 1
                               /\ count * size >= length /\ (count - 1) * size < length
      <3>1. length \in Nat /\ length >= 1
        OBVIOUS
      <3> QED
        BY <2>1, <3>1, CeilDivFits
    <2> DEFINE PageStart(i) == from + (i - 1) * size
               PageEnd(i) == IF PageStart(i + 1) - 1 < to THEN PageStart(i + 1) - 1 ELSE to
               p == [i \in 1..count |-> <<PageStart(i), PageEnd(i)>>]
    <2>3. SplitRange(from, to, n) = p
      BY <1>2, <2>1, <2>2 DEF SplitRange
    <2>4. ASSUME NEW i \in 1..count
          PROVE  /\ PageStart(i) \in Int /\ PageStart(i + 1) \in Int /\ PageStart(i + 1) = PageStart(i) + size
                 /\ from <= PageStart(i) /\ PageStart(i) <= to
      <3>1. (i - 1) * size \in Nat /\ ((i + 1) - 1) * size = (i - 1) * size + size
        OBVIOUS
      <3>2. (i - 1) * size <= (count - 1) * size
        <4>1. PICK k \in Nat : count - 1 = (i - 1) + k
          <5>1. (count - 1) - (i - 1) \in Nat
            OBVIOUS
          <5> QED
            BY <5>1
        <4>2. (count - 1) * size = (i - 1) * size + k * size /\ k * size \in Nat
          BY <4>1
        <4> QED
          BY <3>1, <4>2
      <3>3. (count - 1) * size < length
        BY <2>2
      <3>4. (i - 1) * size < length
        <4>1. (count - 1) * size \in Int
          OBVIOUS
        <4> QED
          BY <3>1, <3>2, <3>3, <4>1
      <3> QED
        BY <3>1, <3>4
    <2>5. PageStart(count + 1) - 1 >= to /\ PageStart(count + 1) \in Int
      BY <2>2
    <2>6. PageStart(1) = from
      BY <2>1
    <2>7. ASSUME NEW i \in 1..count - 1
          PROVE  PageEnd(i) = PageStart(i + 1) - 1
      <3>1. PageStart(i + 1) <= to
        BY <2>4
      <3>2. PageStart(i + 1) \in Int
        BY <2>4
      <3> HIDE DEF PageStart
      <3> QED
        BY <3>1, <3>2
    <2>8. \A i \in 1..count : /\ PageEnd(i) \in Int /\ PageStart(i) \in Int
                              /\ from <= PageStart(i) /\ PageStart(i) <= PageEnd(i) /\ PageEnd(i) <= to
      <3> HIDE DEF PageStart
      <3> QED
        BY <2>4, <2>1
    <2>9. PageEnd(count) = to
      <3> HIDE DEF PageStart
      <3> QED
        BY <2>5
    <2> HIDE DEF PageStart, PageEnd
    <2>10. /\ p \in Seq(Int \X Int) /\ Len(p) = count
           /\ \A i \in 1..count : p[i] = <<PageStart(i), PageEnd(i)>>
      BY <2>8
    <2>11. Tiled(p, from, to)
      <3> HIDE DEF p
      <3>1. p[1][1] = from /\ p[Len(p)][2] = to
        BY <2>2, <2>6, <2>9, <2>10
      <3>2. \A i \in 1..Len(p) : from <= p[i][1] /\ p[i][1] <= p[i][2] /\ p[i][2] <= to
        BY <2>8, <2>10
      <3>3. \A i \in 1..Len(p) - 1 : p[i + 1][1] = p[i][2] + 1
        <4> SUFFICES ASSUME NEW i \in 1..Len(p) - 1
                     PROVE  p[i + 1][1] = p[i][2] + 1
          OBVIOUS
        <4>1. i \in 1..count /\ i + 1 \in 1..count /\ i \in 1..count - 1
          BY <2>10
        <4>2. p[i + 1] = <<PageStart(i + 1), PageEnd(i + 1)>> /\ p[i] = <<PageStart(i), PageEnd(i)>>
          BY <4>1, <2>10
        <4>3. PageEnd(i) = PageStart(i + 1) - 1 /\ PageStart(i + 1) \in Int
          BY <4>1, <2>7, <2>8
        <4> QED
          BY <4>2, <4>3
      <3> QED
        BY <2>2, <2>10, <3>1, <3>2, <3>3 DEF Tiled
    <2> QED
      BY <1>2, <2>3, <2>11
  <1> QED
    BY <1>1, <1>2

\* The bounds, and the height of the chain, are numbers.
LEMMA PageNumbers ==
    ASSUME LogPagesAssumption, PagesTypeOK
    PROVE  /\ MaxBlock \in Nat /\ MaxPageSize \in Nat /\ MaxPageCount \in Nat /\ MaxQueries \in Nat
           /\ NodeLimit \in Nat /\ MaxPageFailures \in Nat
           /\ MaxAttempts \in Nat /\ MaxAttempts >= 1 /\ MaxBlockAttempts \in Nat /\ MaxBlockAttempts >= 1
           /\ MaxSplit \in Nat /\ MaxSplit >= 1
           /\ Height \in Nat /\ Height <= MaxBlock /\ lastBlockNumber \in 0..Height
  <1>1. /\ MaxBlock \in Nat /\ MaxPageSize \in Nat /\ MaxPageCount \in Nat /\ MaxQueries \in Nat
        /\ NodeLimit \in Nat /\ MaxPageFailures \in Nat
    BY DEF LogPagesAssumption
  <1>2. MaxAttempts \in Nat \ {0} /\ MaxBlockAttempts \in Nat \ {0} /\ MaxSplit \in Nat \ {0}
    BY DEF LogPagesAssumption
  <1>3. Height \in Nat /\ Height <= MaxBlock /\ lastBlockNumber \in 0..Height
    BY DEF PagesTypeOK, Height
  <1> QED
    BY <1>1, <1>2, <1>3

\* EventsUpTo of a mined block is a number.
LEMMA EventsAreNumbers ==
    ASSUME PagesTypeOK, NEW b \in 0..Height
    PROVE  EventsUpTo(b) \in Nat
BY DEF PagesTypeOK, EventsUpTo, Height

\* What a query that has a range does next: it throws, or it starts on the first of its
\* pages, with nothing fetched or as a query that was cut again.
LEMMA CutKeepsPages ==
    ASSUME LogPagesAssumption, PagesTypeOK, logged' = logged, lastBlockNumber' \in 0..Height,
           NEW from, NEW to, NEW reach, NEW n \in Nat, n >= 1,
           range' = [from |-> from, to |-> to, known |-> reach], RangeFits(from, to, reach),
           parts' \in Seq(Nat), n <= MaxPageCount + 4 * MaxSplit,
           parts' = <<>> \/ n > PagesForRange(from, to), n >= PagesForRange(from, to),
           CutRange(from, to, n)
    PROVE  /\ queryAt' \in {"fetch", "thrown"}
           /\ nextPage' \in 0..Len(pages') + 1 /\ pagesCurrent' \in 0..MaxPageCount + 4 * MaxSplit
           /\ attempts' \in 0..MaxAttempts + MaxBlockAttempts
           /\ queryAt' = "fetch" => Fetching'
  <1>1. CASE ThrowQuery
    BY <1>1 DEF ThrowQuery, PagesTypeOK
  <1>2. CASE /\ to # Latest \/ n = 1
             /\ queryAt' = "fetch" /\ pages' = SplitRange(from, to, n)
             /\ nextPage' = 1 /\ attempts' = 0 /\ pagesCurrent' = n
    <2>1. from \in Int /\ to \in Int /\ from <= to /\ from \in 1..Height + 1 /\ Height \in Nat /\ Height <= MaxBlock
          /\ MaxBlock \in Nat
      <3>1. Height \in Nat /\ Height <= MaxBlock /\ MaxBlock \in Nat
        BY PageNumbers
      <3>2. from \in 1..Height + 1
        BY DEF RangeFits
      <3> QED
        BY <3>1, <3>2 DEF RangeFits, Latest
    <2>2. Tiled(pages', from, to) /\ (n = 1 => Len(pages') = 1)
      BY <1>2, <2>1, SplitRangeTiles
    <2>3. Len(pages') \in Nat /\ Len(pages') >= 1 /\ pages'[1][1] = from
      BY <2>2 DEF Tiled
    <2>4. range'.from = from /\ range'.to = to /\ range'.known = reach
      OBVIOUS
    <2>5. Height' = Height /\ \A b : EventsUpTo(b)' = EventsUpTo(b)
      BY DEF Height, EventsUpTo
    <2>6. EventsUpTo(from - 1) \in Nat
      BY <2>1, EventsAreNumbers
    <2>7. HoldsUpTo(EventsUpTo(from - 1))'
      <3> DEFINE e == EventsUpTo(from - 1)
      <3>1. e \in Nat /\ EventsUpTo(from - 1)' = e
        BY <2>5, <2>6
      <3>2. parts' = <<>> => Len(parts') = 0
        OBVIOUS
      <3>3. PagesForRange(from, to) <= n
        OBVIOUS
      <3>4. pagesCurrent' = PagesForRange(from, to) => parts' = <<>>
        <4>1. n > PagesForRange(from, to) => n # PagesForRange(from, to)
          <5>1. PagesForRange(from, to) \in Int
            <6>1. MaxPageSize \in Nat
              BY PageNumbers
            <6>2. MaxPageSize # 0 => (to - from + 1 + MaxPageSize - 1) \div MaxPageSize \in Int
              BY <2>1, <6>1
            <6> QED
              BY <6>2 DEF PagesForRange, CeilDiv, Unlimited
          <5> QED
            BY <5>1
        <4> QED
          BY <1>2, <4>1
      <3> HIDE DEF e
      <3> QED
        BY <2>4, <3>1, <3>2, <3>4 DEF HoldsUpTo, PagesForRange, HasEvents, IsEvents
    <2>8. RangeFits(from, to, reach)'
      BY <2>5 DEF RangeFits
    <2>9. HoldsUpTo(EventsUpTo(pages[nextPage][1] - 1))'
      BY <1>2, <2>3, <2>5, <2>7
    <2>10. n >= PagesForRange(from, to)
      OBVIOUS
    <2>11. to = Latest => Len(pages') = 1
      BY <1>2, <2>2
    <2>12. Fetching'
      BY <1>2, <2>2, <2>3, <2>4, <2>8, <2>9, <2>10, <2>11 DEF Fetching, PagesForRange
    <2> QED
      BY <1>2, <2>3, <2>12 DEF LogPagesAssumption
  <1> QED
    BY <1>1, <1>2 DEF CutRange

\* A query whose range is reach: it throws, or starts on the first page of it.
LEMMA StartKeepsPages ==
    ASSUME LogPagesAssumption, PagesTypeOK, logged' = logged, lastBlockNumber' \in 0..Height,
           NEW from, NEW to, NEW reach, from \in Int, to \in Int,
           range' = [from |-> from, to |-> to, known |-> reach],
           from <= to => RangeFits(from, to, reach), to = Latest => from <= to,
           parts' = <<>>, StartQuery(from, to)
    PROVE  /\ queryAt' \in {"fetch", "thrown"}
           /\ nextPage' \in 0..Len(pages') + 1 /\ pagesCurrent' \in 0..MaxPageCount + 4 * MaxSplit
           /\ attempts' \in 0..MaxAttempts + MaxBlockAttempts
           /\ queryAt' = "fetch" => Fetching'
  <1>1. CASE ThrowQuery
    BY <1>1 DEF ThrowQuery, PagesTypeOK
  <1>2. CASE /\ ~(to # Latest /\ from > to)
             /\ PagesForRange(from, to) <= MaxPageCount
             /\ CutRange(from, to, PagesForRange(from, to))
    <2>1. from <= to
      BY <1>2
    <2>2. PICK n \in Nat : n = PagesForRange(from, to) /\ n >= 1
      <3>1. to - from + 1 \in Nat /\ to - from + 1 >= 1
        BY <2>1
      <3>2. MaxPageSize \in Nat /\ (MaxPageSize # 0 => MaxPageSize >= 1)
        BY DEF LogPagesAssumption
      <3> QED
        BY <3>1, <3>2, CeilDivFits DEF PagesForRange, Unlimited
    <2>3. n <= MaxPageCount + 4 * MaxSplit /\ parts' \in Seq(Nat) /\ n >= PagesForRange(from, to)
      BY <1>2, <2>2 DEF LogPagesAssumption
    <2> QED
      BY <1>2, <2>1, <2>2, <2>3, CutKeepsPages
  <1> QED
    BY <1>1, <1>2 DEF StartQuery

LEMMA GetPastEventsKeepsPages ==
    ASSUME LogPagesAssumption, PagesInv, GetPastEvents
    PROVE  PagesInv'
  <1>1. PICK from \in 1..Height + 1, to \in 1..Height \cup {Latest} :
          /\ range' = [from |-> from, to |-> to, known |-> IF to = Latest THEN Height ELSE to]
          /\ \/ /\ MaxPageSize # Unlimited /\ to = Latest
                /\ queryAt' = "block" /\ attempts' = 0
                /\ UNCHANGED <<pages, nextPage, pagesCurrent>>
             \/ /\ MaxPageSize = Unlimited \/ to # Latest
                /\ StartQuery(from, to)
    BY DEF GetPastEvents
  <1>2. /\ queries < MaxQueries /\ queries' = queries + 1 /\ parts' = <<>>
        /\ UNCHANGED <<logged, lastBlockNumber, pageFailures>>
    BY DEF GetPastEvents
  <1>3. /\ Height \in Nat /\ Height <= MaxBlock /\ MaxBlock \in Nat /\ MaxQueries \in Nat /\ queries \in 0..MaxQueries
        /\ MaxAttempts \in Nat /\ MaxBlockAttempts \in Nat
    <2>1. PagesTypeOK /\ queries \in 0..MaxQueries
      BY DEF PagesInv, PagesTypeOK
    <2> QED
      BY <2>1, PageNumbers
  <1>4. PICK reach \in 0..Height : reach = IF to = Latest THEN Height ELSE to
    BY <1>3 DEF Latest
  <1>5. from \in Int /\ to \in Int /\ from \in 1..MaxBlock + 1 /\ to \in 1..Latest /\ (to = Latest => from <= to)
    BY <1>3 DEF Latest
  <1>6. from <= to => RangeFits(from, to, reach)
    BY <1>3, <1>4 DEF RangeFits
  <1>7. /\ queryAt' \in {"block", "fetch", "thrown"}
        /\ nextPage' \in 0..Len(pages') + 1 /\ pagesCurrent' \in 0..MaxPageCount + 4 * MaxSplit
        /\ attempts' \in 0..MaxAttempts + MaxBlockAttempts
        /\ queryAt' = "fetch" => Fetching'
    <2>1. CASE queryAt' = "block" /\ attempts' = 0 /\ UNCHANGED <<pages, nextPage, pagesCurrent>>
      <3>1. nextPage \in 0..Len(pages) + 1 /\ pagesCurrent \in 0..MaxPageCount + 4 * MaxSplit
        BY DEF PagesInv, PagesTypeOK
      <3> QED
        BY <1>3, <2>1, <3>1
    <2>2. CASE StartQuery(from, to)
      <3>1. PagesTypeOK /\ lastBlockNumber' \in 0..Height
        BY <1>2 DEF PagesInv, PagesTypeOK
      <3> QED
        BY <1>1, <1>2, <1>4, <1>5, <1>6, <2>2, <3>1, StartKeepsPages
    <2> QED
      BY <1>1, <2>1, <2>2
  <1>8. range' = [from |-> from, to |-> to, known |-> reach]
    BY <1>1, <1>4
  <1>9. Height' = Height /\ Grows'
    BY <1>2 DEF PagesInv, Grows, Height, EventsUpTo
  <1>10. PagesTypeOK'
    <2>1. range'.from = from /\ range'.to = to /\ range'.known = reach /\ reach \in 0..Height'
      BY <1>8, <1>9
    <2>2. queries' \in 0..MaxQueries /\ parts' \in Seq(Nat)
      BY <1>2, <1>3
    <2>3. logged \in Seq(Nat) /\ lastBlockNumber \in 0..Height /\ pageFailures \in 0..MaxPageFailures
      BY DEF PagesInv, PagesTypeOK
    <2> QED
      BY <1>2, <1>3, <1>5, <1>7, <1>9, <2>1, <2>2, <2>3 DEF PagesTypeOK
  <1>11. range' = [from |-> range'.from, to |-> range'.to, known |-> range'.known]
    BY <1>8
  <1>12. (queryAt' = "block" => parts' = <<>> /\ range'.from \in 1..Height' + 1 /\ attempts' < MaxBlockAttempts)
    <2>1. queryAt' = "block" => attempts' = 0
      BY <1>1, <1>3, <1>7, <1>8 DEF StartQuery, CutRange, ThrowQuery
    <2>2. MaxBlockAttempts > 0
      BY PageNumbers DEF PagesInv
    <2> QED
      BY <1>2, <1>3, <1>8, <1>9, <2>1, <2>2
  <1> QED
    BY <1>7, <1>9, <1>10, <1>11, <1>12 DEF PagesInv

LEMMA GetBlockNumberKeepsPages ==
    ASSUME LogPagesAssumption, PagesInv, GetBlockNumber
    PROVE  PagesInv'
  <1> DEFINE Top(n) == IF range.from > n THEN range.from ELSE n
  <1>1. PICK n \in lastBlockNumber..Height :
          /\ lastBlockNumber' = n
          /\ range' = [range EXCEPT !.to = Top(n), !.known = n]
          /\ StartQuery(range.from, Top(n))
    BY DEF GetBlockNumber
  <1>2. queryAt = "block" /\ UNCHANGED <<logged, parts, pageFailures, queries>>
    BY DEF GetBlockNumber
  <1>3. /\ Height \in Nat /\ Height <= MaxBlock /\ MaxBlock \in Nat /\ parts = <<>> /\ range.from \in 1..Height + 1
        /\ n \in 0..Height
    <2>1. PagesTypeOK /\ parts = <<>> /\ range.from \in 1..Height + 1
      BY <1>2 DEF PagesInv
    <2> QED
      BY <2>1, PageNumbers
  <1>4. range' = [from |-> range.from, to |-> Top(n), known |-> n]
    <2>1. range = [from |-> range.from, to |-> range.to, known |-> range.known]
      BY DEF PagesInv
    <2> HIDE DEF Top
    <2> QED
      BY <1>1, <2>1
  <1>5. PICK from \in 1..Height + 1, to \in 1..MaxBlock + 1 : from = range.from /\ to = Top(n) /\ from <= to
    BY <1>3
  <1>6. RangeFits(from, to, n) /\ to # Latest
    BY <1>3, <1>5 DEF RangeFits, Latest
  <1>7. /\ queryAt' \in {"fetch", "thrown"}
        /\ nextPage' \in 0..Len(pages') + 1 /\ pagesCurrent' \in 0..MaxPageCount + 4 * MaxSplit
        /\ attempts' \in 0..MaxAttempts + MaxBlockAttempts
        /\ queryAt' = "fetch" => Fetching'
    <2>1. StartQuery(from, to) /\ lastBlockNumber' \in 0..Height /\ range' = [from |-> from, to |-> to, known |-> n]
          /\ parts' = <<>> /\ logged' = logged /\ PagesTypeOK
      BY <1>1, <1>2, <1>3, <1>4, <1>5 DEF PagesInv
    <2> QED
      BY <1>6, <2>1, StartKeepsPages
  <1>8. Height' = Height /\ Grows'
    BY <1>2 DEF PagesInv, Grows, Height, EventsUpTo
  <1>9. PagesTypeOK'
    <2>1. range'.from = from /\ range'.to = to /\ range'.known = n /\ to \in 1..Latest /\ from \in 1..MaxBlock + 1
      BY <1>3, <1>4, <1>5 DEF Latest
    <2> QED
      BY <1>1, <1>2, <1>3, <1>7, <1>8, <2>1 DEF PagesInv, PagesTypeOK
  <1>10. range' = [from |-> range'.from, to |-> range'.to, known |-> range'.known]
    BY <1>4
  <1> QED
    BY <1>7, <1>8, <1>9, <1>10 DEF PagesInv

\* A sequence of numbers after another.
LEMMA Appended ==
    ASSUME NEW p \in Seq(Nat), NEW q \in Seq(Nat)
    PROVE  /\ p \o q \in Seq(Nat) /\ Len(p \o q) = Len(p) + Len(q) /\ Len(p) \in Nat
           /\ \A i \in 1..Len(p) : (p \o q)[i] = p[i]
           /\ \A i \in Len(p) + 1..Len(p) + Len(q) : (p \o q)[i] = q[i - Len(p)]
  OBVIOUS

\* The events after number e up to number f.
EventsAfter(e, f) == [i \in 1..f - e |-> e + i]

\* Numbers that follow those that are there.
LEMMA NumbersFollow ==
    ASSUME NEW p \in Seq(Nat), NEW base \in Nat, NEW e \in Nat, NEW f \in Nat, base <= e, e <= f,
           NEW a \in Seq(Nat), Len(a) = f - e, \A i \in 1..f - e : a[i] = e + i
    PROVE  /\ p \o a \in Seq(Nat)
           /\ HasEvents(p, base, e) => HasEvents(p \o a, base, f)
           /\ IsEvents(p, base, e) => IsEvents(p \o a, base, f)
  <1>1. a \in Seq(Nat) /\ Len(a) = f - e /\ \A i \in 1..f - e : a[i] = e + i
    OBVIOUS
  <1>2. /\ p \o a \in Seq(Nat) /\ Len(p \o a) = Len(p) + (f - e) /\ Len(p) \in Nat
        /\ \A i \in 1..Len(p) : (p \o a)[i] = p[i]
        /\ \A i \in Len(p) + 1..Len(p) + (f - e) : (p \o a)[i] = a[i - Len(p)]
    BY <1>1, Appended
  <1>3. ASSUME \A n \in base + 1..e : \E j \in 1..Len(p) : p[j] = n, NEW n \in base + 1..f
        PROVE  \E j \in 1..Len(p \o a) : (p \o a)[j] = n
    <2>1. CASE n <= e
      <3>1. PICK j \in 1..Len(p) : p[j] = n
        BY <1>3, <2>1
      <3> QED
        BY <1>2, <3>1
    <2>2. CASE n > e
      <3>1. n - e \in 1..f - e /\ a[n - e] = n
        BY <1>1, <2>2
      <3>2. Len(p) + (n - e) \in Len(p) + 1..Len(p) + (f - e) /\ (Len(p) + (n - e)) - Len(p) = n - e
        BY <1>2, <3>1
      <3>3. (p \o a)[Len(p) + (n - e)] = n
        BY <1>2, <3>1, <3>2
      <3>4. Len(p) + (n - e) \in 1..Len(p \o a)
        BY <1>2, <3>1
      <3> QED
        BY <3>3, <3>4
    <2> QED
      BY <2>1, <2>2
  <1>4. ASSUME Len(p) = e - base, \A i \in 1..Len(p) : p[i] = base + i, NEW i \in 1..Len(p \o a)
        PROVE  (p \o a)[i] = base + i
    <2>1. CASE i <= Len(p)
      BY <1>2, <1>4, <2>1
    <2>2. CASE i > Len(p)
      <3>1. i - Len(p) \in 1..f - e /\ i \in Len(p) + 1..Len(p) + (f - e)
        BY <1>2, <2>2
      <3>2. (p \o a)[i] = e + (i - Len(p))
        BY <1>1, <1>2, <3>1
      <3> QED
        BY <1>2, <1>4, <3>2
    <2> QED
      BY <1>2, <2>1, <2>2
  <1>5. HasEvents(p, base, e) => HasEvents(p \o a, base, f)
    BY <1>3 DEF HasEvents
  <1>6. IsEvents(p, base, e) => IsEvents(p \o a, base, f)
    <2> SUFFICES ASSUME IsEvents(p, base, e)
                 PROVE  IsEvents(p \o a, base, f)
      OBVIOUS
    <2>1. Len(p \o a) = f - base
      BY <1>2 DEF IsEvents
    <2> QED
      BY <1>4, <2>1 DEF IsEvents
  <1> QED
    BY <1>1, <1>2, <1>5, <1>6

\* A page's events after those that are there.
LEMMA AnswerFollows ==
    ASSUME NEW p \in Seq(Nat), NEW base \in Nat, NEW e \in Nat, NEW f \in Nat, base <= e, e <= f,
           NEW a, a = EventsAfter(e, f)
    PROVE  /\ p \o a \in Seq(Nat)
           /\ HasEvents(p, base, e) => HasEvents(p \o a, base, f)
           /\ IsEvents(p, base, e) => IsEvents(p \o a, base, f)
  <1>1. a \in Seq(Nat) /\ Len(a) = f - e /\ \A i \in 1..f - e : a[i] = e + i
    BY DEF EventsAfter
  <1> QED
    BY <1>1, NumbersFollow

\* Where a page begins and how far its answer reaches.
LEMMA PageReaches ==
    ASSUME LogPagesAssumption, PagesTypeOK, Fetching
    PROVE  /\ Page[1] \in 1..Height + 1 /\ Page[2] \in Int /\ Page[1] <= Page[2]
           /\ nextPage = Len(pages) => Page[2] = range.to
           /\ nextPage # Len(pages) =>
                Page[2] <= Height /\ nextPage + 1 \in 1..Len(pages) /\ pages[nextPage + 1][1] = Page[2] + 1
           /\ range.known <= range.to
  <1>1. /\ Height \in Nat /\ Height <= MaxBlock /\ MaxBlock \in Nat
        /\ range.from \in 1..Height + 1 /\ range.to \in Int /\ range.known \in 0..Height
    <2>1. Height \in Nat /\ Height <= MaxBlock /\ MaxBlock \in Nat
      BY PageNumbers
    <2>2. range.from \in 1..Height + 1 /\ range.known \in 0..Height
      BY DEF Fetching, RangeFits
    <2>3. range.to \in Int
      BY <2>1 DEF PagesTypeOK, Latest
    <2> QED
      BY <2>1, <2>2, <2>3
  <1>2. /\ Len(pages) \in Nat /\ Len(pages) >= 1 /\ pages \in Seq(Int \X Int) /\ nextPage \in 1..Len(pages)
        /\ pages[1][1] = range.from /\ pages[Len(pages)][2] = range.to
        /\ range.to = Latest => Len(pages) = 1
    BY DEF Fetching, Tiled
  <1>3. \A i \in 1..Len(pages) : pages[i] \in Int \X Int
    BY <1>2
  <1>4. /\ \A i \in 1..Len(pages) :
             range.from <= pages[i][1] /\ pages[i][1] <= pages[i][2] /\ pages[i][2] <= range.to
        /\ \A i \in 1..Len(pages) - 1 : pages[i + 1][1] = pages[i][2] + 1
    BY DEF Fetching, Tiled
  <1>5. Page[1] \in Int /\ Page[2] \in Int /\ range.from <= Page[1] /\ Page[1] <= Page[2] /\ Page[2] <= range.to
    BY <1>2, <1>3, <1>4 DEF Page
  <1>6. Page[1] \in 1..Height + 1
    <2>1. CASE range.to = Latest
      BY <1>1, <1>2, <2>1 DEF Page
    <2>2. CASE range.to # Latest
      BY <1>1, <1>5, <2>2 DEF Fetching, RangeFits
    <2> QED
      BY <2>1, <2>2
  <1>7. ASSUME nextPage # Len(pages)
        PROVE  Page[2] <= Height /\ nextPage + 1 \in 1..Len(pages) /\ pages[nextPage + 1][1] = Page[2] + 1
    <2>1. nextPage + 1 \in 1..Len(pages) /\ nextPage \in 1..Len(pages) - 1
      BY <1>2, <1>7
    <2>2. pages[nextPage + 1][1] = Page[2] + 1
      BY <1>4, <2>1 DEF Page
    <2>3. Page[2] + 1 <= range.to
      BY <1>1, <1>3, <1>4, <1>5, <2>1, <2>2
    <2>4. range.to # Latest
      BY <1>2, <1>7
    <2>5. range.to # range.from
      BY <1>1, <1>5, <2>3
    <2> QED
      BY <1>1, <1>5, <2>1, <2>2, <2>3, <2>4, <2>5 DEF Fetching, RangeFits
  <1>8. range.known <= range.to
    BY <1>1 DEF Fetching, RangeFits, Latest
  <1> QED
    BY <1>2, <1>5, <1>6, <1>7, <1>8 DEF Page

LEMMA FetchPageKeepsPages ==
    ASSUME LogPagesAssumption, PagesInv, FetchPage
    PROVE  PagesInv'
  <1>1. /\ queryAt = "fetch" /\ parts' = parts \o Answer /\ TurnPage /\ nextPage' = nextPage + 1 /\ attempts' = 0
        /\ UNCHANGED <<logged, lastBlockNumber, range, pages, pagesCurrent, pageFailures, queries>>
    BY DEF FetchPage
  <1>2. PagesTypeOK /\ Grows /\ Fetching
    BY <1>1 DEF PagesInv
  <1>3. /\ Height \in Nat /\ Height <= MaxBlock /\ MaxBlock \in Nat /\ MaxAttempts \in Nat /\ MaxBlockAttempts \in Nat
        /\ range.from \in 1..Height + 1 /\ range.known \in 0..Height /\ nextPage \in 1..Len(pages) /\ Len(pages) \in Nat
        /\ range.to \in Int
    <2>1. /\ Height \in Nat /\ Height <= MaxBlock /\ MaxBlock \in Nat /\ MaxAttempts \in Nat
          /\ MaxBlockAttempts \in Nat
      BY <1>2, PageNumbers
    <2>2. range.from \in 1..Height + 1 /\ range.known \in 0..Height /\ nextPage \in 1..Len(pages)
      BY <1>2 DEF Fetching, RangeFits
    <2>3. Len(pages) \in Nat
      BY <1>2 DEF Fetching, Tiled
    <2>4. range.to \in Int
      BY <1>2, <2>1 DEF PagesTypeOK, Latest
    <2> QED
      BY <2>1, <2>2, <2>3, <2>4
  <1>4. PICK b \in 1..Height + 1, f \in Int : b = Page[1] /\ f = Page[2] /\ b <= f
    BY <1>2, PageReaches
  <1>5. PICK last \in 0..Height : last = (IF f > Height THEN Height ELSE f) /\ b - 1 <= last
    BY <1>3, <1>4
  <1>6. PICK base \in Nat, e \in Nat, n \in Nat :
          /\ base = EventsUpTo(range.from - 1) /\ e = EventsUpTo(b - 1) /\ n = EventsUpTo(last)
          /\ base <= e /\ e <= n
    <2>1. EventsUpTo(range.from - 1) \in Nat /\ EventsUpTo(b - 1) \in Nat /\ EventsUpTo(last) \in Nat
      <3>1. range.from - 1 \in 0..Height /\ b - 1 \in 0..Height
        BY <1>3, <1>4
      <3> QED
        BY <1>2, <1>5, <3>1, EventsAreNumbers
    <2>2. EventsUpTo(b - 1) <= EventsUpTo(last)
      BY <1>2, <1>3, <1>4, <1>5 DEF Grows
    <2>3. EventsUpTo(range.from - 1) <= EventsUpTo(b - 1)
      BY <1>2, <1>4 DEF Fetching, HoldsUpTo, Page
    <2> QED
      BY <2>1, <2>2, <2>3
  <1>7. Answer = EventsAfter(e, n)
    BY <1>4, <1>5, <1>6 DEF Answer, EventsIn, EventsAfter
  <1>8. /\ HasEvents(parts, base, e)
        /\ pagesCurrent = PagesForRange(range.from, range.to) => IsEvents(parts, base, e)
    BY <1>2, <1>4, <1>6 DEF Fetching, HoldsUpTo, Page
  <1>9. /\ parts' \in Seq(Nat) /\ HasEvents(parts', base, n)
        /\ pagesCurrent = PagesForRange(range.from, range.to) => IsEvents(parts', base, n)
    <2>1. PICK p, a : p \in Seq(Nat) /\ p = parts /\ a = Answer
      BY <1>2 DEF PagesTypeOK
    <2>2. /\ p \o a \in Seq(Nat)
          /\ HasEvents(p, base, e) => HasEvents(p \o a, base, n)
          /\ IsEvents(p, base, e) => IsEvents(p \o a, base, n)
      BY <1>6, <1>7, <2>1, AnswerFollows
    <2>3. parts' = p \o a
      BY <1>1, <2>1
    <2> QED
      BY <1>8, <2>1, <2>2, <2>3
  <1>10. Height' = Height /\ \A i : EventsUpTo(i)' = EventsUpTo(i)
    BY <1>1 DEF Height, EventsUpTo
  <1>11. HoldsUpTo(n)'
    <2>1. EventsUpTo(range.from - 1)' = base
      BY <1>1, <1>6, <1>10
    <2>2. pagesCurrent' = pagesCurrent /\ PagesForRange(range.from, range.to)' = PagesForRange(range.from, range.to)
      BY <1>1 DEF PagesForRange
    <2> QED
      BY <1>6, <1>9, <2>1, <2>2 DEF HoldsUpTo
  <1>12. CASE nextPage = Len(pages)
    <2>1. queryAt' = "done"
      BY <1>1, <1>12 DEF TurnPage
    <2>2. range.known <= last
      BY <1>2, <1>3, <1>4, <1>5, <1>12, PageReaches
    <2>3. EventsUpTo(range.known) <= n
      BY <1>2, <1>3, <1>5, <1>6, <2>2 DEF Grows
    <2>4. EventsUpTo(range.known)' <= n
      BY <1>1, <1>10, <2>3
    <2>5. Fetched'
      BY <1>1, <1>3, <1>6, <1>10, <1>11, <2>4 DEF Fetched
    <2> QED
      <3>1. PagesTypeOK'
        BY <1>1, <1>2, <1>3, <1>9, <1>10, <2>1 DEF PagesTypeOK
      <3>2. Grows'
        BY <1>2, <1>10 DEF Grows
      <3> QED
        BY <1>1, <2>1, <2>5, <3>1, <3>2 DEF PagesInv
  <1>13. CASE nextPage # Len(pages)
    <2>1. queryAt' = "fetch"
      BY <1>1, <1>13 DEF TurnPage
    <2>2. f <= Height /\ nextPage + 1 \in 1..Len(pages) /\ pages[nextPage + 1][1] = f + 1
      BY <1>2, <1>4, <1>13, PageReaches
    <2>3. last = f /\ (f + 1) - 1 = f
      BY <1>3, <1>4, <1>5, <2>2
    <2>4. HoldsUpTo(EventsUpTo(pages[nextPage][1] - 1))'
      <3>1. pages'[nextPage'][1] - 1 = last
        BY <1>1, <2>2, <2>3
      <3>2. EventsUpTo(pages[nextPage][1] - 1)' = n
        BY <1>6, <1>10, <3>1
      <3> QED
        BY <1>11, <3>2
    <2>5. RangeFits(range.from, range.to, range.known)' /\ Tiled(pages, range.from, range.to)'
      BY <1>1, <1>2, <1>10 DEF Fetching, RangeFits, Tiled
    <2>6. Fetching'
      BY <1>1, <1>2, <2>2, <2>4, <2>5 DEF Fetching, PagesForRange
    <2> QED
      <3>1. PagesTypeOK'
        BY <1>1, <1>2, <1>3, <1>9, <1>10, <2>1 DEF PagesTypeOK
      <3>2. Grows'
        BY <1>2, <1>10 DEF Grows
      <3> QED
        BY <1>1, <2>1, <2>6, <3>1, <3>2 DEF PagesInv
  <1> QED
    BY <1>12, <1>13

\* Steps that leave the chain, the range and what was fetched alone.
LEMMA RetryKeepsPages ==
    ASSUME LogPagesAssumption, PagesInv,
           UNCHANGED <<logged, lastBlockNumber, range, pages, nextPage, pagesCurrent, parts, queries>>,
           attempts' \in 0..MaxAttempts + MaxBlockAttempts, pageFailures' \in 0..MaxPageFailures,
           (queryAt' = queryAt /\ (queryAt = "block" => attempts' < MaxBlockAttempts)) \/ queryAt' = "thrown"
    PROVE  PagesInv'
  <1>1. Height' = Height /\ \A i : EventsUpTo(i)' = EventsUpTo(i)
    BY DEF Height, EventsUpTo
  <1>2. PagesTypeOK'
    BY <1>1 DEF PagesInv, PagesTypeOK
  <1>3. \A e : HoldsUpTo(e) => HoldsUpTo(e)'
    BY <1>1 DEF HoldsUpTo, HasEvents, IsEvents, PagesForRange
  <1>4. Fetching => Fetching'
    <2>1. HoldsUpTo(EventsUpTo(pages[nextPage][1] - 1)) => HoldsUpTo(EventsUpTo(pages[nextPage][1] - 1))'
      BY <1>1, <1>3
    <2> QED
      BY <1>1, <2>1 DEF Fetching, RangeFits, Tiled, PagesForRange
  <1>5. Fetched => Fetched'
    BY <1>1, <1>3 DEF Fetched
  <1> QED
    BY <1>1, <1>2, <1>4, <1>5 DEF PagesInv, Grows

LEMMA LaggingKeepsPages ==
    ASSUME LogPagesAssumption, PagesInv, LaggingBlockNumber \/ FetchFails
    PROVE  PagesInv'
  <1>1. /\ MaxPageFailures \in Nat /\ pageFailures \in 0..MaxPageFailures /\ attempts \in 0..MaxAttempts + MaxBlockAttempts
        /\ MaxAttempts \in Nat /\ MaxBlockAttempts \in Nat /\ MaxAttempts >= 1 /\ MaxBlockAttempts >= 1
    BY PageNumbers DEF PagesInv, PagesTypeOK
  <1>2. pageFailures' \in 0..MaxPageFailures
    BY <1>1 DEF LaggingBlockNumber, FetchFails, PageFailure
  <1>3. CASE FetchFails
    <2>1. /\ attempts' \in 0..MaxAttempts + MaxBlockAttempts
          /\ (queryAt' = queryAt /\ queryAt = "fetch") \/ queryAt' = "thrown"
      BY <1>1, <1>3 DEF FetchFails, ThrowQuery
    <2>2. UNCHANGED <<logged, lastBlockNumber, range, pages, nextPage, pagesCurrent, parts, queries>>
      BY <1>3 DEF FetchFails, ThrowQuery
    <2> QED
      BY <1>2, <2>1, <2>2, RetryKeepsPages
  <1>4. CASE LaggingBlockNumber
    <2>1. /\ queryAt = "block" /\ attempts' = attempts + 1 /\ attempts < MaxBlockAttempts
          /\ UNCHANGED <<logged, lastBlockNumber, range, pages, nextPage, pagesCurrent, parts, queries>>
      BY <1>4 DEF LaggingBlockNumber, PagesInv
    <2>2. attempts' \in 0..MaxAttempts + MaxBlockAttempts
      BY <1>1, <2>1
    <2>3. (queryAt' = queryAt /\ attempts' < MaxBlockAttempts) \/ queryAt' = "thrown"
      BY <1>4, <2>1 DEF LaggingBlockNumber
    <2> QED
      BY <1>2, <2>1, <2>2, <2>3, RetryKeepsPages
  <1> QED
    BY <1>3, <1>4

LEMMA TooManyEventsKeepsPages ==
    ASSUME LogPagesAssumption, PagesInv, TooManyEvents
    PROVE  PagesInv'
  <1>1. /\ queryAt = "fetch" /\ PagesTypeOK /\ Grows /\ Fetching
        /\ UNCHANGED <<logged, lastBlockNumber, range, parts, pageFailures, queries>>
    BY DEF TooManyEvents, PagesInv
  <1>2. /\ attempts \in 0..MaxAttempts + MaxBlockAttempts /\ pageFailures \in 0..MaxPageFailures
        /\ MaxAttempts \in Nat /\ MaxBlockAttempts \in Nat /\ MaxSplit \in Nat /\ MaxPageCount \in Nat
    BY <1>1, PageNumbers DEF PagesTypeOK
  <1>3. CASE /\ attempts + 1 < MaxAttempts /\ attempts' = attempts + 1
             /\ UNCHANGED <<queryAt, pages, nextPage, pagesCurrent>>
    <2>1. attempts' \in 0..MaxAttempts + MaxBlockAttempts
      BY <1>2, <1>3
    <2> QED
      BY <1>1, <1>2, <1>3, <2>1, RetryKeepsPages
  <1>4. CASE ThrowQuery
    BY <1>1, <1>2, <1>4, RetryKeepsPages DEF ThrowQuery
  <1>5. CASE pagesCurrent <= MaxSplit /\ CutRange(range.from, range.to, 4 * pagesCurrent)
    <2>1. PICK n \in Nat : n = 4 * pagesCurrent /\ n >= 1 /\ n <= MaxPageCount + 4 * MaxSplit /\ n > pagesCurrent
      BY <1>1, <1>2, <1>5 DEF Fetching, PagesTypeOK
    <2>2. PICK from, to, reach : range = [from |-> from, to |-> to, known |-> reach]
      BY DEF PagesInv
    <2>3. from = range.from /\ to = range.to /\ reach = range.known /\ range' = [from |-> from, to |-> to, known |-> reach]
      BY <1>1, <2>2
    <2>4. RangeFits(from, to, reach)
      BY <1>1, <2>3 DEF Fetching
    <2>5. n > PagesForRange(from, to) /\ n >= PagesForRange(from, to)
      <3>1. pagesCurrent >= PagesForRange(from, to) /\ pagesCurrent \in Int /\ from \in Int /\ to \in Int
        <4>1. MaxBlock \in Nat /\ MaxPageCount \in Nat /\ MaxSplit \in Nat
          BY <1>1, PageNumbers
        <4>2. pagesCurrent \in Int /\ range.from \in Int /\ range.to \in Int
          BY <1>1, <4>1 DEF PagesTypeOK, Latest
        <4>3. pagesCurrent >= PagesForRange(range.from, range.to)
          BY <1>1 DEF Fetching
        <4> QED
          BY <2>3, <4>2, <4>3
      <3>2. PagesForRange(from, to) \in Int
        <4>1. MaxPageSize \in Nat
          BY <1>1, PageNumbers
        <4>2. MaxPageSize # 0 => (to - from + 1 + MaxPageSize - 1) \div MaxPageSize \in Int
          BY <3>1, <4>1
        <4> QED
          BY <4>2 DEF PagesForRange, CeilDiv, Unlimited
      <3> QED
        BY <2>1, <3>1, <3>2
    <2>6. /\ queryAt' \in {"fetch", "thrown"}
          /\ nextPage' \in 0..Len(pages') + 1 /\ pagesCurrent' \in 0..MaxPageCount + 4 * MaxSplit
          /\ attempts' \in 0..MaxAttempts + MaxBlockAttempts
          /\ queryAt' = "fetch" => Fetching'
      <3>1. CutRange(from, to, n) /\ lastBlockNumber' \in 0..Height /\ parts' \in Seq(Nat) /\ logged' = logged
        BY <1>1, <1>5, <2>1, <2>3 DEF PagesTypeOK
      <3> QED
        BY <1>1, <2>1, <2>3, <2>4, <2>5, <3>1, CutKeepsPages
    <2>7. Height' = Height /\ Grows'
      BY <1>1 DEF Grows, Height, EventsUpTo
    <2>8. PagesTypeOK'
      BY <1>1, <2>6, <2>7 DEF PagesTypeOK
    <2> QED
      BY <1>1, <2>6, <2>7, <2>8 DEF PagesInv
  <1> QED
    BY <1>3, <1>4, <1>5 DEF TooManyEvents, SplitAgain

\* A block is mined: what was counted before stays.
LEMMA MineKeepsPages ==
    ASSUME LogPagesAssumption, PagesInv, MineEvents
    PROVE  PagesInv'
  <1>1. PICK n \in 0..MaxPerBlock : logged' = Append(logged, EventsUpTo(Height) + n)
    BY DEF MineEvents
  <1>2. /\ Height < MaxBlock
        /\ UNCHANGED <<lastBlockNumber, queryAt, range, pages, nextPage, pagesCurrent, attempts, parts, pageFailures,
                       queries>>
    BY DEF MineEvents
  <1>3. /\ PagesTypeOK /\ Grows /\ Height \in Nat /\ MaxBlock \in Nat /\ logged \in Seq(Nat) /\ Height = Len(logged)
        /\ lastBlockNumber \in 0..Height
    BY PageNumbers DEF PagesInv, PagesTypeOK, Height
  <1>4. EventsUpTo(Height) \in Nat
    BY <1>3, EventsAreNumbers
  <1>5. PICK top \in Nat : top = EventsUpTo(Height) + n /\ logged' = Append(logged, top)
    <2>1. MaxPerBlock \in Nat
      BY DEF LogPagesAssumption
    <2> QED
      BY <1>1, <1>4, <2>1
  <1>6. /\ logged' \in Seq(Nat) /\ Height' = Height + 1
        /\ \A b \in 0..Height : EventsUpTo(b)' = EventsUpTo(b)
        /\ \A b : b = Height + 1 => EventsUpTo(b)' = top
    <2>1. /\ logged' \in Seq(Nat) /\ Len(logged') = Len(logged) + 1 /\ logged'[Len(logged) + 1] = top
          /\ \A b \in 1..Len(logged) : logged'[b] = logged[b]
      BY <1>3, <1>5
    <2> QED
      BY <1>3, <2>1 DEF Height, EventsUpTo
  <1>7. Grows'
    <2> SUFFICES ASSUME NEW a \in 0..Height + 1, NEW b \in 0..Height + 1, a <= b
                 PROVE  EventsUpTo(a)' <= EventsUpTo(b)'
      BY <1>6 DEF Grows
    <2>1. CASE b \in 0..Height
      BY <1>3, <1>6, <2>1 DEF Grows
    <2>2. CASE b = Height + 1 /\ a \in 0..Height
      <3>1. EventsUpTo(a) <= EventsUpTo(Height) /\ EventsUpTo(a) \in Nat
        BY <1>3, <2>2, EventsAreNumbers DEF Grows
      <3>2. EventsUpTo(a)' = EventsUpTo(a) /\ EventsUpTo(b)' = top
        BY <1>6, <2>2
      <3> QED
        BY <1>4, <1>5, <3>1, <3>2
    <2>3. CASE b = Height + 1 /\ a = Height + 1
      BY <1>5, <1>6, <2>3
    <2> QED
      BY <1>3, <2>1, <2>2, <2>3
  <1>8. PagesTypeOK'
    <2>1. Height' <= MaxBlock /\ lastBlockNumber' \in 0..Height' /\ range'.known \in 0..Height'
      <3>1. range.known \in 0..Height
        BY <1>3 DEF PagesTypeOK
      <3> QED
        BY <1>2, <1>3, <1>6, <3>1
    <2> QED
      BY <1>2, <1>3, <1>6, <2>1 DEF PagesTypeOK
  <1>9. ASSUME range.from \in 1..Height + 1, NEW e, HoldsUpTo(e)
        PROVE  HoldsUpTo(e)'
    <2>1. EventsUpTo(range.from - 1)' = EventsUpTo(range.from - 1)
      BY <1>2, <1>3, <1>6, <1>9
    <2> QED
      BY <1>2, <1>9, <2>1 DEF HoldsUpTo, HasEvents, IsEvents, PagesForRange
  <1>10. queryAt = "fetch" => Fetching'
    <2> SUFFICES ASSUME Fetching
                 PROVE  Fetching'
      BY DEF PagesInv
    <2>1. range.from \in 1..Height + 1 /\ pages[nextPage][1] \in 1..Height + 1
      BY <1>3, PageReaches DEF Fetching, RangeFits, Page
    <2>2. EventsUpTo(pages[nextPage][1] - 1)' = EventsUpTo(pages[nextPage][1] - 1)
      <3>1. PICK b \in 0..Height : b = pages[nextPage][1] - 1
        BY <1>3, <2>1
      <3>2. (pages[nextPage][1] - 1)' = b
        BY <1>2, <3>1
      <3> QED
        BY <1>6, <3>1, <3>2 DEF EventsUpTo
    <2>3. HoldsUpTo(EventsUpTo(pages[nextPage][1] - 1))'
      BY <1>9, <2>1, <2>2 DEF Fetching
    <2>4. RangeFits(range.from, range.to, range.known)' /\ Tiled(pages, range.from, range.to)'
      <3>1. RangeFits(range.from, range.to, range.known)
        BY DEF Fetching
      <3>2. range' = range
        BY <1>2
      <3> QED
        <4>1. RangeFits(range.from, range.to, range.known)'
          BY <1>3, <1>6, <3>1, <3>2 DEF RangeFits
        <4>2. Tiled(pages, range.from, range.to)'
          BY <1>2 DEF Fetching, Tiled
        <4> QED
          BY <4>1, <4>2
    <2> QED
      BY <1>2, <2>3, <2>4 DEF Fetching, PagesForRange
  <1>11. queryAt = "done" => Fetched'
    <2> SUFFICES ASSUME Fetched
                 PROVE  Fetched'
      BY DEF PagesInv
    <2>1. range.from \in 1..Height + 1 /\ range.known \in 0..Height
      BY DEF Fetched
    <2>2. PICK e \in Nat : EventsUpTo(range.known) <= e /\ HoldsUpTo(e)
      BY DEF Fetched
    <2>3. EventsUpTo(range.known)' <= e
      BY <1>2, <1>6, <2>1, <2>2
    <2>4. HoldsUpTo(e)'
      BY <1>9, <2>1, <2>2
    <2>5. range'.from \in 1..Height' + 1 /\ range'.known \in 0..Height'
      BY <1>2, <1>3, <1>6, <2>1
    <2> QED
      BY <2>3, <2>4, <2>5 DEF Fetched
  <1>12. queryAt' = "block" => parts' = <<>> /\ range'.from \in 1..Height' + 1 /\ attempts' < MaxBlockAttempts
    BY <1>2, <1>3, <1>6 DEF PagesInv
  <1> QED
    BY <1>2, <1>7, <1>8, <1>10, <1>11, <1>12 DEF PagesInv

\* The counts of a chain never fall, since no block takes events away: the last block
\* up to which a count has not fallen is the last.
LEMMA ChainGrows ==
    ASSUME logged \in Seq(Nat), \A b \in 1..Height : EventsUpTo(b) >= EventsUpTo(b - 1)
    PROVE  Grows
  <1> SUFFICES ASSUME NEW a \in 0..Height, NEW b \in 0..Height, a <= b
               PROVE  EventsUpTo(a) <= EventsUpTo(b)
    BY DEF Grows
  <1>1. Height \in Nat /\ \A k \in 0..Height : EventsUpTo(k) \in Nat
    BY DEF Height, EventsUpTo
  <1> DEFINE S == {k \in 1..b + 1 : a <= k - 1 /\ EventsUpTo(a) <= EventsUpTo(k - 1)}
  <1>2. PICK m \in S : \A k \in S : k <= m
    <2>1. a + 1 \in S
      BY <1>1
    <2>2. S \in SUBSET (1..b + 1) /\ b + 1 \in Nat
      OBVIOUS
    <2> HIDE DEF S
    <2> QED
      BY <2>1, <2>2, GreatestNumber
  <1>3. m = b + 1
    <2> SUFFICES ASSUME m # b + 1
                 PROVE  FALSE
      OBVIOUS
    <2>1. m \in 1..b /\ m \in 1..Height /\ EventsUpTo(a) <= EventsUpTo(m - 1)
      BY <1>1
    <2>2. EventsUpTo(m) >= EventsUpTo(m - 1)
      BY <2>1
    <2>3. EventsUpTo(a) \in Nat /\ EventsUpTo(m) \in Nat /\ EventsUpTo(m - 1) \in Nat
      BY <1>1, <2>1
    <2>4. m + 1 \in S
      BY <2>1, <2>2, <2>3
    <2> HIDE DEF S
    <2> QED
      BY <1>2, <2>1, <2>4
  <1> QED
    BY <1>3

LEMMA PagesStart == LogPagesAssumption /\ PagesInit => PagesInv
  <1> SUFFICES ASSUME LogPagesAssumption, PagesInit
               PROVE  PagesInv
    OBVIOUS
  <1>1. PICK h \in 1..MaxBlock : logged \in [1..h -> 0..h * MaxPerBlock]
    BY DEF PagesInit
  <1>2. MaxBlock \in Nat /\ MaxPerBlock \in Nat /\ MaxPageCount \in Nat /\ MaxSplit \in Nat /\ MaxAttempts \in Nat
        /\ MaxBlockAttempts \in Nat /\ MaxPageFailures \in Nat /\ MaxQueries \in Nat
    <2>1. MaxAttempts \in Nat \ {0} /\ MaxBlockAttempts \in Nat \ {0} /\ MaxSplit \in Nat \ {0}
      BY DEF LogPagesAssumption
    <2> QED
      BY <2>1 DEF LogPagesAssumption
  <1>3. logged \in Seq(Nat) /\ Height = h
    <2>1. 0..h * MaxPerBlock \subseteq Nat /\ h \in Nat
      BY <1>1, <1>2
    <2>2. logged \in [1..h -> Nat]
      BY <1>1, <2>1
    <2> QED
      BY <2>1, <2>2 DEF Height
  <1>4. Grows
    <2>1. \A b \in 1..Height : EventsUpTo(b) >= EventsUpTo(b - 1)
      <3> SUFFICES ASSUME NEW b \in 1..Height
                   PROVE  EventsUpTo(b) >= EventsUpTo(b - 1)
        OBVIOUS
      <3>1. EventsUpTo(b) \in Nat /\ EventsUpTo(b - 1) \in Nat
        BY <1>3 DEF EventsUpTo, Height
      <3>2. EventsUpTo(b) - EventsUpTo(b - 1) >= 0
        BY <1>2 DEF PagesInit
      <3> QED
        BY <3>1, <3>2
    <2> QED
      BY <1>3, <2>1, ChainGrows
  <1>5. range = [from |-> 1, to |-> Latest, known |-> 0] /\ queryAt = "idle"
    BY DEF PagesInit
  <1>6. PagesTypeOK
    BY <1>1, <1>2, <1>3, <1>5 DEF PagesInit, PagesTypeOK, Latest
  <1> QED
    BY <1>4, <1>5, <1>6 DEF PagesInv

\* The inductive invariant of queries: pages that tile the range, and in parts the events
\* of those before the next.
THEOREM PagesInvariant == ASSUME LogPagesAssumption PROVE PagesSpec => []PagesInv
  <1>1. PagesInit => PagesInv
    BY PagesStart
  <1>2. PagesInv /\ [PagesNext]_pageVars => PagesInv'
    <2> SUFFICES ASSUME PagesInv, [PagesNext]_pageVars
                 PROVE  PagesInv'
      OBVIOUS
    <2>1. CASE UNCHANGED pageVars
      <3>1. /\ UNCHANGED <<logged, lastBlockNumber, range, pages, nextPage, pagesCurrent, parts, queries>>
            /\ attempts' = attempts /\ pageFailures' = pageFailures /\ queryAt' = queryAt
        BY <2>1 DEF pageVars
      <3> QED
        BY <3>1, RetryKeepsPages DEF PagesInv, PagesTypeOK
    <2> QED
      BY <2>1, MineKeepsPages, GetPastEventsKeepsPages, GetBlockNumberKeepsPages, LaggingKeepsPages,
         FetchPageKeepsPages, TooManyEventsKeepsPages DEF PagesNext, QueryStep
  <1> QED
    BY <1>1, <1>2, PTL DEF PagesSpec

\* A finished query has every event of its range, in order and exactly once unless it was
\* cut again, for any chain, any sizes of pages and limits of the node, however often pages
\* are retried and however far the node lags.
THEOREM QueriesAreComplete == ASSUME LogPagesAssumption PROVE PagesSpec => []QueriesComplete
  <1>1. ASSUME PagesInv
        PROVE  QueriesComplete
    <2>1. ASSUME queryAt = "done"
          PROVE  /\ \A i \in DOMAIN Wanted : \E j \in DOMAIN parts : parts[j] = Wanted[i]
                 /\ pagesCurrent = PagesForRange(range.from, range.to) =>
                      /\ Len(Wanted) <= Len(parts)
                      /\ \A i \in 1..Len(parts) :
                            IF i <= Len(Wanted) THEN parts[i] = Wanted[i] ELSE parts[i] > EventsUpTo(range.known)
      <3>1. Fetched /\ PagesTypeOK /\ Height \in Nat
        BY <1>1, <2>1, PageNumbers DEF PagesInv
      <3>2. PICK e \in Nat : EventsUpTo(range.known) <= e /\ HoldsUpTo(e)
        BY <3>1 DEF Fetched
      <3>3. range.from \in 1..Height + 1 /\ range.known \in 0..Height
        BY <3>1 DEF Fetched
      <3>4. PICK base \in Nat, k \in Nat : base = EventsUpTo(range.from - 1) /\ k = EventsUpTo(range.known) /\ k <= e
        <4>1. EventsUpTo(range.from - 1) \in Nat /\ EventsUpTo(range.known) \in Nat
          BY <3>1, <3>3, EventsAreNumbers
        <4> QED
          BY <3>2, <4>1
      <3>5. Wanted = [i \in 1..k - base |-> base + i]
        <4>1. (IF range.known > Height THEN Height ELSE range.known) = range.known
          BY <3>1, <3>3
        <4> QED
          BY <3>4, <4>1 DEF Wanted, EventsIn
      <3>6. /\ base <= e
            /\ \A n \in base + 1..e : \E j \in 1..Len(parts) : parts[j] = n
            /\ pagesCurrent = PagesForRange(range.from, range.to) =>
                 Len(parts) = e - base /\ \A i \in 1..Len(parts) : parts[i] = base + i
        BY <3>2, <3>4 DEF HoldsUpTo, HasEvents, IsEvents
      <3>7. DOMAIN parts = 1..Len(parts) /\ Len(parts) \in Nat
        BY <3>1 DEF PagesTypeOK
      <3>8. DOMAIN Wanted = 1..k - base /\ \A i \in 1..k - base : Wanted[i] = base + i
        BY <3>5
      <3>9. Len(Wanted) = IF k < base THEN 0 ELSE k - base
        <4>1. CASE k < base
          <5>1. Wanted = <<>>
            BY <3>5, <4>1
          <5> QED
            BY <4>1, <5>1
        <4>2. CASE k >= base
          BY <3>5, <4>2
        <4> QED
          BY <4>1, <4>2
      <3>10. \A i \in DOMAIN Wanted : \E j \in DOMAIN parts : parts[j] = Wanted[i]
        <4> SUFFICES ASSUME NEW i \in 1..k - base
                     PROVE  \E j \in 1..Len(parts) : parts[j] = base + i
          BY <3>7, <3>8
        <4>1. base + i \in base + 1..e
          BY <3>4
        <4> QED
          BY <3>6, <4>1
      <3>11. ASSUME pagesCurrent = PagesForRange(range.from, range.to)
             PROVE  /\ Len(Wanted) <= Len(parts)
                    /\ \A i \in 1..Len(parts) :
                          IF i <= Len(Wanted) THEN parts[i] = Wanted[i] ELSE parts[i] > k
        <4>1. Len(parts) = e - base /\ \A i \in 1..Len(parts) : parts[i] = base + i
          BY <3>6, <3>11
        <4>2. Len(Wanted) <= Len(parts)
          BY <3>4, <3>6, <3>9, <4>1
        <4>3. ASSUME NEW i \in 1..Len(parts)
              PROVE  IF i <= Len(Wanted) THEN parts[i] = Wanted[i] ELSE parts[i] > k
          <5>1. CASE i <= Len(Wanted)
            <6>1. i \in 1..k - base
              BY <3>7, <3>9, <5>1
            <6> QED
              BY <3>8, <4>1, <5>1, <6>1
          <5>2. CASE ~(i <= Len(Wanted))
            <6>1. base + i > k
              BY <3>7, <3>9, <5>2
            <6> QED
              BY <4>1, <5>2, <6>1
          <5> QED
            BY <5>1, <5>2
        <4> QED
          BY <4>2, <4>3
      <3> QED
        BY <3>4, <3>10, <3>11
    <2>2. PagesTypeOK
      BY <1>1 DEF PagesInv
    <2> QED
      BY <2>1, <2>2 DEF QueriesComplete, ExactlyOnce, NothingMissing
  <1> QED
    BY <1>1, PagesInvariant, PTL

-----------------------------------------------------------------------------
(* The contracts a client works with.                                      *)

Addresses == Paymasters \cup Hubs \cup {NoContract}
FreshFields == {"stakeManager", "penalizer", "forwarder"}

\* What was deployed is of the hub of the paymaster.
OfItsHub == dep.paymaster # NoContract => dep.hub = hubOf[dep.paymaster] /\ dep.forwarder = dep.paymaster
Resolved == OfItsHub /\ \A f \in Parts : dep[f] = dep.hub

\* Only what the caller gave is there.
Unresolved ==
    /\ \A f \in Fields \ {"paymaster", "hub"} : dep[f] = NoContract
    /\ dep.paymaster = NoContract \/ dep.hub = NoContract

ResolutionTypes ==
    /\ hubOf \in [Paymasters -> Hubs] /\ oldVersion \subseteq Paymasters \cup Hubs
    /\ dep \in [Fields -> Addresses] /\ ins \in [Fields -> Addresses]
    /\ dep.paymaster \in Paymasters \cup {NoContract} /\ dep.hub \in Hubs \cup {NoContract}
    /\ resolutionAt \in {"idle", "block", "history", "resolve", "fromPaymaster", "fromHub", "contracts",
                         "version", "network"}
    /\ inited \in BOOLEAN /\ typeTwo \in BOOLEAN /\ baseFee \in BOOLEAN
    /\ typeTwo \/ resolutionAt = "history" => baseFee
    /\ questionFailures \in 0..MaxQuestionFailures /\ redeploys \in 0..MaxRedeploys
    /\ resolutionAt # "idle" => ~inited
    /\ resolutionAt = "fromPaymaster" => dep.paymaster # NoContract
    /\ resolutionAt = "fromHub" => dep.hub # NoContract

Instantiated == resolutionAt \in {"version", "network"} \/ inited

\* An instance that is always made anew is there for what is deployed only.
FreshOnes ==
    \A f \in FreshFields :
        /\ dep[f] = NoContract => ins[f] = NoContract
        /\ Instantiated => ins[f] = dep[f]

\* A paymaster has a hub once its version was looked at, and a hub is looked at last.
LookedAt ==
    "both" \notin Sources /\ redeploys = 0 =>
        /\ ins.paymaster \in {NoContract, dep.paymaster}
        /\ dep.paymaster # NoContract /\ dep.hub # NoContract => dep.paymaster \notin oldVersion
        /\ resolutionAt = "contracts" \/ Instantiated =>
             (dep.paymaster # NoContract => dep.hub # NoContract)
        /\ resolutionAt = "network" \/ inited => ins.hub \notin oldVersion

\* How far the addresses are known at each step of an undisturbed init.
ResolvedSoFar ==
    Undisturbed =>
        /\ \A f \in Fields : ins[f] \in {NoContract, dep[f]}
        /\ resolutionAt \in {"idle", "block", "history", "resolve"} => Unresolved \/ Resolved
        /\ resolutionAt = "fromPaymaster" => Unresolved
        /\ resolutionAt = "fromHub" =>
             OfItsHub /\ \A f \in Parts : dep[f] \in {NoContract, dep.hub}
        /\ resolutionAt = "contracts" \/ Instantiated => Resolved
        /\ Instantiated => \A f \in Fields : dep[f] # NoContract => ins[f] = dep[f]

ResolutionInv == ResolutionTypes /\ FreshOnes /\ LookedAt /\ ResolvedSoFar

LEMMA HubsAreContracts ==
    ASSUME ResolutionAssumption, ResolutionTypes
    PROVE  /\ \A p \in Paymasters : hubOf[p] \in Hubs
           /\ \A c \in Paymasters \cup Hubs : c \in Addresses /\ c # NoContract
           /\ NoContract \notin oldVersion /\ MaxQuestionFailures \in Nat /\ MaxRedeploys \in Nat
           /\ dep.paymaster # NoContract => dep.paymaster \in Paymasters
           /\ dep.hub # NoContract => dep.hub \in Hubs
  <1>1. NoContract \notin Paymasters \cup Hubs /\ MaxQuestionFailures \in Nat /\ MaxRedeploys \in Nat
    BY DEF ResolutionAssumption
  <1> QED
    BY <1>1 DEF ResolutionTypes, Addresses

LEMMA ResolutionStarts ==
    ASSUME ResolutionAssumption, ResolutionInit
    PROVE  ResolutionInv
  <1>1. PICK s \in Sources, p \in Paymasters, h \in Hubs : dep = Given(s, p, h)
    BY DEF ResolutionInit
  <1>2. /\ hubOf \in [Paymasters -> Hubs] /\ oldVersion \subseteq Paymasters \cup Hubs
        /\ baseFee \in BOOLEAN /\ ins = Nothing /\ resolutionAt = "idle" /\ inited = FALSE
        /\ typeTwo = FALSE /\ questionFailures = 0 /\ redeploys = 0
    BY DEF ResolutionInit
  <1>3. /\ NoContract \notin Paymasters \cup Hubs /\ 0 \in 0..MaxQuestionFailures /\ 0 \in 0..MaxRedeploys
        /\ s \in {"paymaster", "hub", "both", "none"}
    BY DEF ResolutionAssumption
  <1>4. /\ dep = [f \in Fields |-> IF f = "paymaster" THEN dep.paymaster
                                  ELSE IF f = "hub" THEN dep.hub ELSE NoContract]
        /\ dep.paymaster = (IF s \in {"paymaster", "both"} THEN p ELSE NoContract)
        /\ dep.hub = (IF s \in {"hub", "both"} THEN h ELSE NoContract)
    BY <1>1 DEF Given, Nothing, Fields, Parts
  <1>5. ins \in [Fields -> Addresses] /\ \A f \in Fields : ins[f] = NoContract
    BY <1>2 DEF Nothing, Addresses
  <1>6. /\ dep \in [Fields -> Addresses] /\ dep.paymaster \in Paymasters \cup {NoContract}
        /\ dep.hub \in Hubs \cup {NoContract} /\ \A f \in Fields \ {"paymaster", "hub"} : dep[f] = NoContract
    BY <1>4 DEF Addresses
  <1>7. "both" \notin Sources => dep.paymaster = NoContract \/ dep.hub = NoContract
    BY <1>4
  <1>8. ResolutionTypes
    BY <1>2, <1>3, <1>5, <1>6 DEF ResolutionTypes
  <1>9. FreshOnes
    BY <1>2, <1>5 DEF FreshOnes, Instantiated, FreshFields, Fields, Parts
  <1>10. LookedAt
    BY <1>2, <1>5, <1>7 DEF LookedAt, Instantiated, Fields, Parts
  <1>11. ResolvedSoFar
    BY <1>2, <1>5, <1>6, <1>7 DEF ResolvedSoFar, Undisturbed, Unresolved, Instantiated
  <1> QED
    BY <1>8, <1>9, <1>10, <1>11 DEF ResolutionInv

LEMMA ResolutionStep ==
    ASSUME ResolutionAssumption, ResolutionInv, ResolutionNext
    PROVE  ResolutionInv'
  <1> USE DEF ResolutionInv
  <1>1. CASE Start \/ GetBlock \/ GetFeeHistory
    <2>1. /\ UNCHANGED <<hubOf, oldVersion, baseFee, dep, ins, inited, questionFailures, redeploys>> /\ ~inited
          /\ resolutionAt \in {"idle", "block", "history"} /\ resolutionAt' \in {"block", "history", "resolve"}
          /\ resolutionAt' = "history" => baseFee
          /\ typeTwo' = typeTwo \/ (resolutionAt = "history" /\ typeTwo' \in BOOLEAN)
      BY <1>1 DEF Start, GetBlock, GetFeeHistory, Bounds, chainFacts, ResolutionTypes
    <2>2. ResolutionTypes'
      BY <2>1 DEF ResolutionTypes
    <2>3. FreshOnes'
      BY <2>1 DEF FreshOnes, Instantiated
    <2>4. LookedAt'
      BY <2>1 DEF LookedAt, Instantiated
    <2>5. ResolvedSoFar'
      BY <2>1 DEF ResolvedSoFar, Instantiated, Undisturbed, Unresolved, Resolved, OfItsHub
    <2> QED
      BY <2>2, <2>3, <2>4, <2>5
  <1>2. CASE ResolveDeployment
    <2>1. /\ UNCHANGED <<hubOf, oldVersion, baseFee, dep, ins, inited, typeTwo, questionFailures, redeploys>>
          /\ resolutionAt = "resolve" /\ ~inited
          /\ resolutionAt' = IF dep.paymaster # NoContract /\ dep.hub # NoContract THEN "contracts"
             ELSE IF dep.paymaster # NoContract THEN "fromPaymaster"
             ELSE IF dep.hub # NoContract THEN "fromHub" ELSE "contracts"
      BY <1>2 DEF ResolveDeployment, Bounds, chainFacts, ResolutionTypes
    <2>2. ResolutionTypes'
      BY <2>1 DEF ResolutionTypes
    <2>3. FreshOnes'
      BY <2>1 DEF FreshOnes, Instantiated
    <2>4. LookedAt'
      BY <2>1 DEF LookedAt, Instantiated
    <2>5. ResolvedSoFar'
      <3> SUFFICES ASSUME Undisturbed
                   PROVE  ResolvedSoFar'
        BY <2>1 DEF ResolvedSoFar, Undisturbed
      <3>1. Unresolved \/ Resolved
        BY <2>1 DEF ResolvedSoFar
      <3>2. dep.hub # NoContract /\ dep.paymaster # NoContract => Resolved
        BY <3>1 DEF Unresolved
      <3>3. dep.hub = NoContract /\ dep.paymaster # NoContract => Unresolved
        BY <3>1, HubsAreContracts DEF Resolved, OfItsHub
      <3>4. dep.hub # NoContract /\ dep.paymaster = NoContract =>
              OfItsHub /\ \A f \in Parts : dep[f] \in {NoContract, dep.hub}
        BY <3>1 DEF Unresolved, Resolved, OfItsHub, Parts, Fields
      <3>5. dep.hub = NoContract /\ dep.paymaster = NoContract => Resolved
        BY <3>1 DEF Unresolved, Resolved, OfItsHub, Parts, Fields
      <3> QED
        BY <2>1, <3>2, <3>3, <3>4, <3>5 DEF ResolvedSoFar, Instantiated, Undisturbed, Unresolved, Resolved, OfItsHub
    <2> QED
      BY <2>2, <2>3, <2>4, <2>5
  <1>3. CASE ResolveFromPaymaster
    <2>1. /\ UNCHANGED <<hubOf, oldVersion, baseFee, inited, typeTwo, questionFailures, redeploys>>
          /\ resolutionAt = "fromPaymaster" /\ ~inited
          /\ ins' = [ins EXCEPT !.paymaster = dep.paymaster]
          /\ \/ dep.paymaster \in oldVersion /\ resolutionAt' = "idle" /\ dep' = dep
             \/ /\ dep.paymaster \notin oldVersion /\ resolutionAt' = "fromHub"
                /\ dep' = [dep EXCEPT !.hub = hubOf[dep.paymaster], !.forwarder = dep.paymaster]
      BY <1>3 DEF ResolveFromPaymaster, Bounds, chainFacts, ResolutionTypes
    <2>2. /\ ins' \in [Fields -> Addresses] /\ ins'.paymaster = dep.paymaster
          /\ \A f \in Fields \ {"paymaster"} : ins'[f] = ins[f]
      BY <2>1 DEF ResolutionTypes, Fields, Parts, Addresses
    <2>3. /\ dep.paymaster # NoContract /\ dep.paymaster \in Paymasters /\ hubOf[dep.paymaster] \in Hubs
          /\ hubOf[dep.paymaster] # NoContract
      BY <2>1, HubsAreContracts DEF ResolutionTypes
    <2>4. CASE dep.paymaster \in oldVersion
      <3>1. dep' = dep /\ resolutionAt' = "idle"
        BY <2>1, <2>4
      <3>2. ResolutionTypes'
        BY <2>1, <2>2, <3>1 DEF ResolutionTypes
      <3>3. FreshOnes'
        BY <2>1, <2>2, <3>1 DEF FreshOnes, Instantiated, FreshFields, Fields, Parts
      <3>4. LookedAt'
        BY <2>1, <2>2, <3>1 DEF LookedAt, Instantiated
      <3>5. ResolvedSoFar'
        BY <2>1, <2>2, <3>1 DEF ResolvedSoFar, Instantiated, Undisturbed, Unresolved
      <3> QED
        BY <3>2, <3>3, <3>4, <3>5
    <2>5. CASE dep.paymaster \notin oldVersion
      <3>1. resolutionAt' = "fromHub"
        BY <2>1, <2>5
      <3>2. /\ dep' \in [Fields -> Addresses] /\ dep'.hub = hubOf[dep.paymaster] /\ dep'.forwarder = dep.paymaster
            /\ dep'.paymaster = dep.paymaster
            /\ \A f \in Fields \ {"hub", "forwarder"} : dep'[f] = dep[f]
        BY <2>1, <2>3, <2>5 DEF ResolutionTypes, Fields, Parts, Addresses
      <3>3. ResolutionTypes'
        BY <2>1, <2>2, <2>3, <3>1, <3>2 DEF ResolutionTypes
      <3>4. FreshOnes'
        BY <2>1, <2>2, <2>3, <3>1, <3>2 DEF FreshOnes, Instantiated, FreshFields, Fields, Parts
      <3>5. LookedAt'
        BY <2>1, <2>2, <2>5, <3>1, <3>2 DEF LookedAt, Instantiated
      <3>6. ResolvedSoFar'
        <4> SUFFICES ASSUME Undisturbed
                     PROVE  ResolvedSoFar'
          BY <2>1 DEF ResolvedSoFar, Undisturbed
        <4>1. Unresolved /\ \A f \in Fields : ins[f] \in {NoContract, dep[f]}
          BY <2>1 DEF ResolvedSoFar
        <4>2. dep.hub = NoContract /\ \A f \in Fields \ {"paymaster"} : dep[f] = NoContract /\ ins[f] = NoContract
          BY <2>3, <4>1 DEF Unresolved
        <4>3. \A f \in Fields : ins'[f] \in {NoContract, dep'[f]}
          BY <2>2, <3>2, <4>2 DEF Fields, Parts
        <4>4. OfItsHub' /\ \A f \in Parts : dep'[f] \in {NoContract, dep'.hub}
          BY <2>1, <3>2, <4>2 DEF OfItsHub, Fields, Parts
        <4> QED
          BY <2>1, <3>1, <4>3, <4>4 DEF ResolvedSoFar, Instantiated
      <3> QED
        BY <3>3, <3>4, <3>5, <3>6
    <2> QED
      BY <2>4, <2>5
  <1>4. CASE ResolveFromHub
    <2>1. /\ UNCHANGED <<hubOf, oldVersion, baseFee, inited, typeTwo, questionFailures, redeploys>>
          /\ resolutionAt = "fromHub" /\ ~inited /\ resolutionAt' = "contracts"
          /\ ins' = [ins EXCEPT !.hub = dep.hub]
          /\ dep' = [dep EXCEPT !.stakeManager = dep.hub, !.penalizer = dep.hub, !.registrar = dep.hub]
      BY <1>4 DEF ResolveFromHub, Bounds, chainFacts, ResolutionTypes
    <2>2. dep.hub # NoContract /\ dep.hub \in Addresses
      BY <2>1, HubsAreContracts DEF ResolutionTypes
    <2>3. /\ ins' \in [Fields -> Addresses] /\ ins'.hub = dep.hub
          /\ \A f \in Fields \ {"hub"} : ins'[f] = ins[f]
      BY <2>1, <2>2 DEF ResolutionTypes, Fields, Parts
    <2>4. /\ dep' \in [Fields -> Addresses] /\ \A f \in Parts : dep'[f] = dep.hub
          /\ dep'.paymaster = dep.paymaster /\ dep'.forwarder = dep.forwarder
      BY <2>1, <2>2 DEF ResolutionTypes, Fields, Parts
    <2>5. dep'.hub = dep.hub
      BY <2>4 DEF Parts
    <2>6. ResolutionTypes'
      BY <2>1, <2>3, <2>4, <2>5 DEF ResolutionTypes
    <2>7. FreshOnes'
      BY <2>1, <2>2, <2>3, <2>4 DEF FreshOnes, Instantiated, FreshFields, Fields, Parts
    <2>8. LookedAt'
      BY <2>1, <2>2, <2>3, <2>4, <2>5 DEF LookedAt, Instantiated, Fields, Parts
    <2>9. ResolvedSoFar'
      <3> SUFFICES ASSUME Undisturbed
                   PROVE  ResolvedSoFar'
        BY <2>1 DEF ResolvedSoFar, Undisturbed
      <3>1. /\ OfItsHub /\ \A f \in Parts : dep[f] \in {NoContract, dep.hub}
            /\ \A f \in Fields : ins[f] \in {NoContract, dep[f]}
        BY <2>1 DEF ResolvedSoFar
      <3>2. Resolved'
        BY <2>1, <2>4, <2>5, <3>1 DEF Resolved, OfItsHub
      <3>3. \A f \in Fields : ins'[f] \in {NoContract, dep'[f]}
        BY <2>3, <2>4, <2>5, <3>1 DEF Fields
      <3> QED
        BY <2>1, <3>2, <3>3 DEF ResolvedSoFar, Instantiated
    <2> QED
      BY <2>6, <2>7, <2>8, <2>9
  <1>5. CASE InitializeContracts
    <2>1. /\ UNCHANGED <<hubOf, oldVersion, baseFee, dep, inited, typeTwo, questionFailures, redeploys>>
          /\ resolutionAt = "contracts" /\ ~inited /\ resolutionAt' = "version"
          /\ ins' = Instances(dep)
      BY <1>5 DEF InitializeContracts, Bounds, chainFacts, ResolutionTypes
    <2>2. /\ ins' \in [Fields -> Addresses]
          /\ \A f \in Fields : ins'[f] = IF dep[f] = NoContract \/ (f \in KeptInstances /\ ins[f] # NoContract)
                                        THEN ins[f] ELSE dep[f]
      BY <2>1 DEF Instances, ResolutionTypes
    <2>3. ResolutionTypes'
      BY <2>1, <2>2 DEF ResolutionTypes
    <2>4. FreshOnes'
      BY <2>1, <2>2 DEF FreshOnes, FreshFields, KeptInstances, Fields, Parts
    <2>5. LookedAt'
      BY <2>1, <2>2 DEF LookedAt, Instantiated, Fields
    <2>6. ResolvedSoFar'
      <3> SUFFICES ASSUME Undisturbed
                   PROVE  ResolvedSoFar'
        BY <2>1 DEF ResolvedSoFar, Undisturbed
      <3>1. Resolved /\ \A f \in Fields : ins[f] \in {NoContract, dep[f]}
        BY <2>1 DEF ResolvedSoFar
      <3>2. \A f \in Fields : ins'[f] \in {NoContract, dep[f]} /\ (dep[f] # NoContract => ins'[f] = dep[f])
        BY <2>2, <3>1
      <3>3. Resolved'
        BY <2>1, <3>1 DEF Resolved, OfItsHub
      <3> QED
        BY <2>1, <3>2, <3>3 DEF ResolvedSoFar
    <2> QED
      BY <2>3, <2>4, <2>5, <2>6
  <1>6. CASE ValidateCompatibility
    <2>1. /\ UNCHANGED <<hubOf, oldVersion, baseFee, dep, ins, inited, typeTwo, questionFailures, redeploys>>
          /\ resolutionAt = "version" /\ ~inited
          /\ resolutionAt' = IF ins.hub # NoContract /\ ins.hub \in oldVersion THEN "idle" ELSE "network"
      BY <1>6 DEF ValidateCompatibility, Bounds, chainFacts, ResolutionTypes
    <2>2. ResolutionTypes'
      BY <2>1 DEF ResolutionTypes
    <2>3. FreshOnes'
      BY <2>1 DEF FreshOnes, Instantiated
    <2>4. LookedAt'
      BY <2>1, HubsAreContracts DEF LookedAt, Instantiated
    <2>5. ResolvedSoFar'
      BY <2>1 DEF ResolvedSoFar, Instantiated, Undisturbed, Resolved, OfItsHub
    <2> QED
      BY <2>2, <2>3, <2>4, <2>5
  <1>7. CASE InitializeNetworkParams
    <2>1. /\ UNCHANGED <<hubOf, oldVersion, baseFee, dep, ins, typeTwo, questionFailures, redeploys>>
          /\ resolutionAt = "network" /\ ~inited /\ resolutionAt' = "idle" /\ inited' = TRUE
      BY <1>7 DEF InitializeNetworkParams, Bounds, chainFacts, ResolutionTypes
    <2>2. ResolutionTypes'
      BY <2>1 DEF ResolutionTypes
    <2>3. FreshOnes'
      BY <2>1 DEF FreshOnes, Instantiated
    <2>4. LookedAt'
      BY <2>1 DEF LookedAt, Instantiated
    <2>5. ResolvedSoFar'
      BY <2>1 DEF ResolvedSoFar, Instantiated, Undisturbed, Resolved, OfItsHub
    <2> QED
      BY <2>2, <2>3, <2>4, <2>5
  <1>8. CASE QuestionFails
    <2>1. /\ UNCHANGED <<hubOf, oldVersion, baseFee, dep, ins, inited, typeTwo, redeploys>>
          /\ resolutionAt' = "idle" /\ ~inited /\ questionFailures' = questionFailures + 1
          /\ questionFailures < MaxQuestionFailures
      BY <1>8 DEF QuestionFails, chainFacts, ResolutionTypes
    <2>2. questionFailures' \in 0..MaxQuestionFailures /\ questionFailures' # 0
      BY <2>1, HubsAreContracts DEF ResolutionTypes
    <2>3. ResolutionTypes'
      BY <2>1, <2>2 DEF ResolutionTypes
    <2>4. FreshOnes'
      BY <2>1 DEF FreshOnes, Instantiated
    <2>5. LookedAt'
      BY <2>1 DEF LookedAt, Instantiated
    <2>6. ResolvedSoFar'
      BY <2>2 DEF ResolvedSoFar, Undisturbed
    <2> QED
      BY <2>3, <2>4, <2>5, <2>6
  <1>9. CASE InitDeployment
    <2>1. PICK p \in Paymasters : /\ dep' = [f \in Fields |-> IF f \in Parts THEN hubOf[p] ELSE p]
                                  /\ ins' = Instances([f \in Fields |-> IF f \in Parts THEN hubOf[p] ELSE p])
      BY <1>9 DEF InitDeployment
    <2>2. /\ UNCHANGED <<hubOf, oldVersion, baseFee, resolutionAt, inited, typeTwo, questionFailures>>
          /\ resolutionAt = "idle" /\ redeploys < MaxRedeploys /\ redeploys' = redeploys + 1
      BY <1>9 DEF InitDeployment, chainFacts
    <2>3. p \in Addresses /\ p # NoContract /\ hubOf[p] \in Hubs /\ hubOf[p] \in Addresses /\ hubOf[p] # NoContract
      BY HubsAreContracts
    <2>4. redeploys' \in 0..MaxRedeploys /\ redeploys' # 0
      BY <2>2, HubsAreContracts DEF ResolutionTypes
    <2>5. /\ dep' \in [Fields -> Addresses] /\ dep'.paymaster = p /\ dep'.hub = hubOf[p]
          /\ \A f \in Fields : dep'[f] \in Addresses /\ dep'[f] # NoContract
      BY <2>1, <2>3 DEF Fields, Parts
    <2>6. /\ ins' \in [Fields -> Addresses]
          /\ \A f \in Fields : f \notin KeptInstances => ins'[f] = dep'[f]
      BY <2>1, <2>5 DEF Instances, ResolutionTypes
    <2>7. ResolutionTypes'
      BY <2>2, <2>4, <2>5, <2>6 DEF ResolutionTypes
    <2>8. FreshOnes'
      BY <2>5, <2>6 DEF FreshOnes, FreshFields, KeptInstances, Fields, Parts
    <2>9. LookedAt' /\ ResolvedSoFar'
      BY <2>4 DEF LookedAt, ResolvedSoFar, Undisturbed
    <2> QED
      BY <2>7, <2>8, <2>9
  <1> QED
    BY <1>1, <1>2, <1>3, <1>4, <1>5, <1>6, <1>7, <1>8, <1>9 DEF ResolutionNext

\* For any paymasters and hubs of any versions, failures and deployments in their place.
THEOREM ResolutionInvariant == ASSUME ResolutionAssumption PROVE ResolutionSpec => []ResolutionInv
  <1>1. ResolutionInit => ResolutionInv
    BY ResolutionStarts
  <1>2. ResolutionInv /\ [ResolutionNext]_resolutionVars => ResolutionInv'
    <2> SUFFICES ASSUME ResolutionInv, UNCHANGED resolutionVars
                 PROVE  ResolutionInv'
      BY ResolutionStep
    <2>1. UNCHANGED <<hubOf, oldVersion, baseFee, dep, ins, resolutionAt, inited, typeTwo, questionFailures, redeploys>>
      BY DEF resolutionVars, chainFacts
    <2> QED
      BY <2>1 DEF ResolutionInv, ResolutionTypes, FreshOnes, LookedAt, ResolvedSoFar, Instantiated, Undisturbed,
                  Unresolved, Resolved, OfItsHub
  <1> QED
    BY <1>1, <1>2, PTL DEF ResolutionSpec

\* A client's instances are of one deployment, of versions it looked at, and made anew where
\* they always are.
LEMMA ResolutionIsFit ==
    ASSUME ResolutionAssumption, ResolutionInv
    PROVE  ResolutionFits
  <1> USE DEF ResolutionInv
  <1>1. ResolutionTypeOK
    <2>1. DOMAIN dep = Fields /\ DOMAIN ins = Fields /\ \A f \in Fields : {dep[f], ins[f]} \subseteq Addresses
      BY DEF ResolutionTypes
    <2> QED
      BY <2>1 DEF ResolutionTypes, ResolutionTypeOK, Addresses
  <1>2. OneDeployment
    <2> SUFFICES ASSUME Undisturbed, Completed, dep.paymaster # NoContract \/ dep.hub # NoContract
                 PROVE  /\ \A f \in Parts : ins[f] = dep.hub
                        /\ dep.paymaster # NoContract =>
                             hubOf[dep.paymaster] = dep.hub /\ ins.forwarder = dep.paymaster
      BY DEF OneDeployment
    <2>1. Resolved /\ \A f \in Fields : dep[f] # NoContract => ins[f] = dep[f]
      BY DEF ResolvedSoFar, Completed, Instantiated
    <2>2. dep.hub # NoContract
      BY <2>1, HubsAreContracts DEF Resolved, OfItsHub
    <2> QED
      BY <2>1, <2>2 DEF Resolved, OfItsHub, Fields
  <1>3. VersionsChecked
    BY HubsAreContracts DEF VersionsChecked, Completed, LookedAt, Instantiated
  <1>4. FreshInstances
    BY DEF FreshInstances, FreshOnes, FreshFields, Instantiated, Completed
  <1> QED
    BY <1>1, <1>2, <1>3, <1>4 DEF ResolutionFits

-----------------------------------------------------------------------------
(* The command that deploys them.                                          *)

\* The place of each step in a run.
Rank == [idle |-> 0, registrar |-> 1, stakeManager |-> 2, penalizer |-> 3, forwarder |-> 4, hub |-> 5,
         setRegistrar |-> 6, paymaster |-> 7, setRelayHub |-> 8, setTrustedForwarder |-> 9,
         registerForwarder |-> 10, token |-> 11, setMinimumStakes |-> 12, initDeployment |-> 13,
         save |-> 14]
Past(step) == Rank[deployAt] > Rank[step]

DeployedTypes ==
    /\ made \in [Kinds -> Nat] /\ inst \in [Kinds -> Nat] /\ file \in [Kinds -> Nat]
    /\ given \in [addresses : [Kinds -> Nat], testPaymaster : BOOLEAN]
    /\ \A k \in Kinds : inst[k] <= made[k] /\ file[k] <= made[k] /\ given.addresses[k] <= made[k]
    /\ hub \in [Contracts -> [registrar : Nat, stakeManager : Nat, penalizer : Nat, tokens : SUBSET Nat]]
    /\ paymaster \in [Contracts -> [hub : Nat, forwarder : Nat]]
    /\ registered \subseteq 1..made["forwarder"]
    /\ deployAt \in DOMAIN Rank /\ nextFile \in 1..7 /\ (deployAt # "save" => nextFile = 1)
    /\ torn \in BOOLEAN /\ moved \in BOOLEAN /\ deployRuns \in 0..MaxDeployRuns

\* A run makes one contract of a kind at most.
OneOfAKind ==
    \A k \in Kinds :
        LET most == IF k = "token" THEN deployRuns + 1 ELSE deployRuns
        IN  made[k] <= most /\ (deployAt # "idle" /\ ~Past(k) => made[k] < most)

\* What is given with a hub is what it has.
GivenFits ==
    /\ \A h \in 1..made["hub"] : hub[h].stakeManager # NotGiven /\ hub[h].penalizer # NotGiven
    /\ GivesParts /\ given.addresses["hub"] # NotGiven =>
         \A k \in {"stakeManager", "penalizer"} : given.addresses[k] = hub[given.addresses["hub"]][k]

Connected(d) ==
    GivesParts => hub[d["hub"]].stakeManager = d["stakeManager"] /\ hub[d["hub"]].penalizer = d["penalizer"]
Usable(d) ==
    /\ d["paymaster"] # NotGiven =>
         paymaster[d["paymaster"]].hub = d["hub"] /\ paymaster[d["paymaster"]].forwarder = d["forwarder"]
    /\ d["forwarder"] \in registered
    /\ d["token"] \in hub[d["hub"]].tokens

\* What a run has done at each of its steps.
DoneSoFar ==
    /\ \A k \in Givable \cup {"token"} : Past(k) =>
         /\ inst[k] >= 1
         /\ given.addresses[k] # NotGiven => inst[k] = given.addresses[k]
    /\ Past("hub") => Connected(inst)
    /\ Past("setRegistrar") => hub[inst["hub"]].registrar = inst["registrar"]
    /\ deployAt # "idle" /\ ~Past("paymaster") => inst["paymaster"] = NotGiven
    /\ deployAt \in {"setRelayHub", "setTrustedForwarder"} => file["paymaster"] < inst["paymaster"]
    /\ Past("setRelayHub") /\ inst["paymaster"] # NotGiven => paymaster[inst["paymaster"]].hub = inst["hub"]
    /\ Past("setTrustedForwarder") /\ inst["paymaster"] # NotGiven =>
         paymaster[inst["paymaster"]].forwarder = inst["forwarder"]
    /\ Past("registerForwarder") => inst["forwarder"] \in registered
    /\ Past("setMinimumStakes") => inst["token"] \in hub[inst["hub"]].tokens

\* What the files hold, between two saves and during one.
FilesFit ==
    /\ nextFile = 1 /\ ~torn /\ file["hub"] # NotGiven =>
         Connected(file) /\ Usable(file) /\ (moved \/ hub[file["hub"]].registrar = file["registrar"])
    /\ \A j \in 1..nextFile - 1 : file[Files[j]] = inst[Files[j]]

DeploymentInv == DeployedTypes /\ OneOfAKind /\ GivenFits /\ DoneSoFar /\ FilesFit

LEMMA Ranks ==
    /\ Rank["idle"] = 0 /\ Rank["registrar"] = 1 /\ Rank["stakeManager"] = 2 /\ Rank["penalizer"] = 3
    /\ Rank["forwarder"] = 4 /\ Rank["hub"] = 5 /\ Rank["setRegistrar"] = 6 /\ Rank["paymaster"] = 7
    /\ Rank["setRelayHub"] = 8 /\ Rank["setTrustedForwarder"] = 9 /\ Rank["registerForwarder"] = 10
    /\ Rank["token"] = 11 /\ Rank["setMinimumStakes"] = 12 /\ Rank["initDeployment"] = 13 /\ Rank["save"] = 14
    /\ DOMAIN Rank = {"idle", "registrar", "stakeManager", "penalizer", "forwarder", "hub", "setRegistrar",
                      "paymaster", "setRelayHub", "setTrustedForwarder", "registerForwarder", "token",
                      "setMinimumStakes", "initDeployment", "save"}
  BY DEF Rank

LEMMA KindsAreSteps ==
    /\ Kinds = {"registrar", "stakeManager", "penalizer", "forwarder", "hub", "paymaster", "token"}
    /\ Kinds \subseteq DOMAIN Rank /\ \A s \in DOMAIN Rank : Rank[s] \in Nat
  BY Ranks DEF Kinds, Givable

\* A step that is done leads to the next one.
LEMMA AdvancePasses ==
    ASSUME deployAt \in DOMAIN Rank, deployAt # "idle", deployAt # "save", Advance
    PROVE  /\ deployAt' \in DOMAIN Rank /\ deployAt' # "idle"
           /\ \A s \in DOMAIN Rank : Past(s)' <=> Past(s) \/ s = deployAt
  <1>1. Rank[deployAt'] = Rank[deployAt] + 1 /\ deployAt' \in DOMAIN Rank
    BY Ranks DEF Advance, Following
  <1>2. \A s, t \in DOMAIN Rank : Rank[s] = Rank[t] => s = t
    BY Ranks
  <1>3. \A s \in DOMAIN Rank : Rank[s] \in Nat
    BY KindsAreSteps
  <1>4. deployAt' # "idle"
    BY <1>1, <1>3, Ranks
  <1>5. \A s \in DOMAIN Rank : Past(s)' <=> Rank[deployAt'] > Rank[s]
    BY DEF Past
  <1>6. \A s \in DOMAIN Rank : Past(s) <=> Rank[deployAt] > Rank[s]
    BY DEF Past
  <1>7. ASSUME NEW s \in DOMAIN Rank
        PROVE  Past(s)' <=> Past(s) \/ s = deployAt
    <2>1. Rank[deployAt] + 1 > Rank[s] <=> Rank[deployAt] > Rank[s] \/ Rank[deployAt] = Rank[s]
      BY <1>3
    <2>2. Rank[deployAt] = Rank[s] <=> s = deployAt
      BY <1>2
    <2> QED
      BY <1>1, <1>5, <1>6, <2>1, <2>2
  <1> QED
    BY <1>1, <1>4, <1>7

LEMMA DeploymentStarts ==
    ASSUME DeploymentAssumption, DeploymentInit
    PROVE  DeploymentInv
  <1>1. /\ made \in [Kinds -> Nat] /\ made["token"] = 1 /\ \A k \in Kinds \ {"token"} : made[k] = 0
        /\ inst \in [Kinds -> Nat] /\ file \in [Kinds -> Nat]
        /\ \A k \in Kinds : made[k] \in Nat /\ inst[k] = 0 /\ file[k] = 0 /\ given.addresses[k] = 0
        /\ given \in [addresses : [Kinds -> Nat], testPaymaster : BOOLEAN]
    <2>1. NoContracts \in [Kinds -> Nat] /\ \A k \in Kinds : NoContracts[k] = 0
      BY DEF NoContracts, NotGiven
    <2>2. /\ made = [NoContracts EXCEPT !["token"] = 1] /\ inst = NoContracts /\ file = NoContracts
          /\ given = [addresses |-> NoContracts, testPaymaster |-> FALSE]
      BY DEF DeploymentInit
    <2>3. "token" \in Kinds
      BY DEF Kinds
    <2> QED
      BY <2>1, <2>2, <2>3
  <1>2. /\ hub \in [Contracts -> [registrar : Nat, stakeManager : Nat, penalizer : Nat, tokens : SUBSET Nat]]
        /\ paymaster \in [Contracts -> [hub : Nat, forwarder : Nat]]
    BY DEF DeploymentInit, NoHub, NotGiven
  <1>3. /\ registered = {} /\ deployAt = "idle" /\ nextFile = 1 /\ torn = FALSE /\ moved = FALSE
        /\ deployRuns = 0 /\ MaxDeployRuns \in Nat
    BY DEF DeploymentInit, DeploymentAssumption
  <1>4. "hub" \in Kinds /\ "hub" # "token" /\ "paymaster" \in Kinds
    BY DEF Kinds, Givable
  <1>5. \A k \in Kinds : inst[k] <= made[k] /\ file[k] <= made[k] /\ given.addresses[k] <= made[k]
    BY <1>1
  <1>6. DeployedTypes
    <2>1. deployAt \in DOMAIN Rank /\ deployAt # "save"
      BY <1>3, Ranks
    <2>2. registered \subseteq 1..made["forwarder"] /\ nextFile \in 1..7 /\ nextFile = 1
      BY <1>3
    <2>3. deployRuns \in 0..MaxDeployRuns
      BY <1>3
    <2>4. torn \in BOOLEAN /\ moved \in BOOLEAN
      BY <1>3
    <2> QED
      BY <1>1, <1>2, <1>5, <2>1, <2>2, <2>3, <2>4 DEF DeployedTypes
  <1>7. OneOfAKind
    BY <1>1, <1>3 DEF OneOfAKind
  <1>8. GivenFits
    BY <1>1, <1>4 DEF GivenFits, NotGiven
  <1>9. \A s \in DOMAIN Rank : ~Past(s)
    BY <1>3, Ranks, KindsAreSteps DEF Past
  <1>10. DoneSoFar
    BY <1>3, <1>9, Ranks, KindsAreSteps DEF DoneSoFar, Givable
  <1>11. FilesFit
    BY <1>1, <1>3, <1>4 DEF FilesFit, NotGiven
  <1> QED
    BY <1>6, <1>7, <1>8, <1>10, <1>11 DEF DeploymentInv

\* The steps a run is past at each step.
LEMMA WhatIsPast ==
    ASSUME deployAt \in DOMAIN Rank
    PROVE  /\ deployAt = "idle" => \A s \in DOMAIN Rank : ~Past(s)
           /\ \A s \in DOMAIN Rank : Rank[s] >= Rank[deployAt] => ~Past(s)
           /\ Past("hub") => Past("stakeManager") /\ Past("penalizer")
           /\ deployAt = "hub" => Past("registrar") /\ Past("stakeManager") /\ Past("penalizer")
           /\ deployAt \in {"setRegistrar", "paymaster", "setRelayHub", "setTrustedForwarder", "registerForwarder",
                            "token", "setMinimumStakes", "initDeployment", "save"} =>
                Past("registrar") /\ Past("forwarder") /\ Past("hub")
           /\ deployAt \in {"setRelayHub", "setTrustedForwarder", "registerForwarder", "token", "setMinimumStakes",
                            "initDeployment", "save"} => Past("setRegistrar") /\ Past("paymaster")
           /\ deployAt \in {"setMinimumStakes", "initDeployment", "save"} => Past("token")
           /\ deployAt = "save" => \A s \in DOMAIN Rank : Past(s) \/ s = "save"
           /\ deployAt = "setTrustedForwarder" => Past("setRelayHub")
           /\ deployAt = "setRelayHub" => ~Past("setTrustedForwarder") /\ ~Past("registerForwarder")
           /\ deployAt = "paymaster" => /\ Past("setRegistrar") /\ ~Past("setRelayHub")
                                       /\ ~Past("setTrustedForwarder")
           /\ Past("setRelayHub") \/ Past("setTrustedForwarder") => Past("paymaster")
           /\ deployAt \in {"registrar", "stakeManager", "penalizer", "forwarder", "hub"} =>
                ~Past("hub") /\ ~Past("setRegistrar") /\ ~Past("paymaster") /\ ~Past("setRelayHub")
                /\ ~Past("setTrustedForwarder") /\ ~Past("registerForwarder") /\ ~Past("setMinimumStakes")
                /\ ~Past("token")
  <1> SUFFICES ASSUME NEW n, n = Rank[deployAt], n \in 0..14
               PROVE  /\ deployAt = "idle" => \A s \in DOMAIN Rank : ~(n > Rank[s])
                      /\ \A s \in DOMAIN Rank : Rank[s] >= n => ~(n > Rank[s])
                      /\ deployAt = "save" => \A s \in DOMAIN Rank : n > Rank[s] \/ s = "save"
    BY Ranks DEF Past
  <1> QED
    BY Ranks, KindsAreSteps

\* What the first part of the invariant says of each kind.
LEMMA Numbered ==
    ASSUME DeploymentAssumption, DeployedTypes, OneOfAKind
    PROVE  /\ MaxDeployRuns \in Nat /\ deployRuns \in Nat /\ deployRuns <= MaxDeployRuns
           /\ \A k \in Kinds : /\ made[k] \in Nat /\ inst[k] \in 0..made[k] /\ file[k] \in 0..made[k]
                               /\ given.addresses[k] \in 0..made[k]
           /\ \A k \in Kinds \ {"token"} : made[k] \in Contracts
  <1>1. MaxDeployRuns \in Nat /\ deployRuns \in Nat /\ deployRuns <= MaxDeployRuns
    BY DEF DeploymentAssumption, DeployedTypes
  <1>2. \A k \in Kinds : /\ made[k] \in Nat /\ inst[k] \in 0..made[k] /\ file[k] \in 0..made[k]
                        /\ given.addresses[k] \in 0..made[k]
    BY DEF DeployedTypes
  <1>3. \A k \in Kinds \ {"token"} : made[k] <= deployRuns
    BY DEF OneOfAKind
  <1> QED
    BY <1>1, <1>2, <1>3 DEF Contracts

\* An instance that is used is there, and what is given is used.
LEMMA InstanceIsThere ==
    ASSUME DeploymentAssumption, DeployedTypes, OneOfAKind, NEW k \in Kinds, deployAt = k, Instance(k)
    PROVE  /\ made' \in [Kinds -> Nat] /\ inst' \in [Kinds -> Nat]
           /\ \A j \in Kinds \ {k} : made'[j] = made[j] /\ inst'[j] = inst[j]
           /\ inst'[k] >= 1 /\ inst'[k] <= made'[k] /\ made'[k] >= made[k]
           /\ made'[k] <= IF k = "token" THEN deployRuns + 1 ELSE deployRuns
           /\ given.addresses[k] # NotGiven => inst'[k] = given.addresses[k] /\ made' = made
           /\ given.addresses[k] = NotGiven => inst'[k] = made[k] + 1 /\ made'[k] = made[k] + 1
  <1>1. ~Past(k) /\ deployAt # "idle"
    BY WhatIsPast, KindsAreSteps, Ranks DEF DeployedTypes
  <1>2. made[k] < IF k = "token" THEN deployRuns + 1 ELSE deployRuns
    BY <1>1 DEF OneOfAKind
  <1>3. made[k] \in Nat /\ given.addresses[k] \in 0..made[k] /\ deployRuns \in Nat
    BY Numbered
  <1>4. made \in [Kinds -> Nat] /\ inst \in [Kinds -> Nat]
    BY DEF DeployedTypes
  <1>5. CASE given.addresses[k] = NotGiven
    <2>1. made' = [made EXCEPT ![k] = made[k] + 1] /\ inst' = [inst EXCEPT ![k] = made[k] + 1]
      BY <1>5 DEF Instance
    <2> QED
      BY <1>2, <1>3, <1>4, <1>5, <2>1
  <1>6. CASE given.addresses[k] # NotGiven
    <2>1. made' = made /\ inst' = [inst EXCEPT ![k] = given.addresses[k]]
      BY <1>6 DEF Instance
    <2> QED
      BY <1>2, <1>3, <1>4, <1>6, <2>1 DEF NotGiven
  <1> QED
    BY <1>5, <1>6

LEMMA DeployContractFits ==
    ASSUME DeploymentAssumption, DeploymentInv, NEW k \in Givable \ {"hub"}, DeployContract(k)
    PROVE  DeploymentInv'
  <1> USE DEF DeploymentInv
  <1>1. /\ deployAt = k /\ Instance(k) /\ Advance
        /\ UNCHANGED <<hub, paymaster, registered, given, nextFile, file, torn, moved, deployRuns>>
    BY DEF DeployContract
  <1>2. /\ k \in Kinds /\ k \in {"registrar", "stakeManager", "penalizer", "forwarder"}
        /\ "hub" \in Kinds /\ "paymaster" \in Kinds
    BY DEF Kinds, Givable
  <1>3. /\ made' \in [Kinds -> Nat] /\ inst' \in [Kinds -> Nat]
        /\ \A j \in Kinds \ {k} : made'[j] = made[j] /\ inst'[j] = inst[j]
        /\ inst'[k] >= 1 /\ inst'[k] <= made'[k] /\ made'[k] >= made[k] /\ made'[k] <= deployRuns
        /\ given.addresses[k] # NotGiven => inst'[k] = given.addresses[k]
    BY <1>1, <1>2, InstanceIsThere
  <1>4. /\ deployAt' \in {"stakeManager", "penalizer", "forwarder", "hub"}
        /\ \A s \in DOMAIN Rank : Past(s)' <=> Past(s) \/ s = k
    <2>1. deployAt' \in {"stakeManager", "penalizer", "forwarder", "hub"}
      BY <1>1, <1>2 DEF Advance, Following
    <2> QED
      BY <1>1, <1>2, <2>1, AdvancePasses, KindsAreSteps
  <1>5. \A j \in Kinds : /\ made[j] \in Nat /\ made'[j] \in Nat /\ made[j] <= made'[j] /\ inst'[j] \in 0..made'[j]
                        /\ file[j] \in 0..made'[j] /\ given.addresses[j] \in 0..made'[j]
    BY <1>3, Numbered
  <1>6. DeployedTypes'
    <2>1. registered \subseteq 1..made'["forwarder"]
      BY <1>5, KindsAreSteps DEF DeployedTypes
    <2>2. deployAt' \in DOMAIN Rank /\ deployAt' # "save"
      BY <1>4, Ranks
    <2> QED
      BY <1>1, <1>2, <1>3, <1>5, <2>1, <2>2 DEF DeployedTypes
  <1>7. OneOfAKind'
    <2>1. ASSUME NEW j \in Kinds
          PROVE  /\ made'[j] <= IF j = "token" THEN deployRuns + 1 ELSE deployRuns
                 /\ ~Past(j)' => made'[j] < IF j = "token" THEN deployRuns + 1 ELSE deployRuns
      <3>1. CASE j = k
        BY <1>2, <1>3, <1>4, <3>1, KindsAreSteps
      <3>2. CASE j # k
        BY <1>1, <1>2, <1>3, <1>4, <3>2, KindsAreSteps DEF OneOfAKind
      <3> QED
        BY <3>1, <3>2
    <2>2. deployRuns' = deployRuns
      BY <1>1
    <2> QED
      BY <2>1, <2>2 DEF OneOfAKind
  <1>8. GivenFits'
    BY <1>1, <1>2, <1>3 DEF GivenFits
  <1>9. DoneSoFar'
    <2>1. /\ ~Past("hub")' /\ ~Past("setRegistrar")' /\ ~Past("paymaster")' /\ ~Past("setRelayHub")'
          /\ ~Past("setTrustedForwarder")' /\ ~Past("registerForwarder")' /\ ~Past("setMinimumStakes")'
      BY <1>1, <1>2, <1>4, WhatIsPast, Ranks
    <2>2. ASSUME NEW j \in Givable \cup {"token"}, Past(j)'
          PROVE  inst'[j] >= 1 /\ (given.addresses[j] # NotGiven => inst'[j] = given.addresses[j])
      <3>1. j \in Kinds
        BY DEF Kinds
      <3> QED
        BY <1>3, <1>4, <2>2, <3>1, KindsAreSteps DEF DoneSoFar
    <2>3. inst'["paymaster"] = NotGiven
      BY <1>1, <1>2, <1>3, WhatIsPast, Ranks DEF DoneSoFar
    <2> QED
      BY <1>1, <1>4, <2>1, <2>2, <2>3 DEF DoneSoFar
  <1>10. FilesFit'
    <2>1. nextFile = 1
      BY <1>1, <1>2 DEF DeployedTypes
    <2> QED
      BY <1>1, <2>1 DEF FilesFit, Connected, Usable
  <1> QED
    BY <1>6, <1>7, <1>8, <1>9, <1>10

\* A new hub has the parts of this run, and a hub that is given has what is given with it.
LEMMA DeployHubFits ==
    ASSUME DeploymentAssumption, DeploymentInv, DeployHub
    PROVE  DeploymentInv'
  <1> USE DEF DeploymentInv
  <1>1. /\ deployAt = "hub" /\ Instance("hub") /\ Advance
        /\ hub' = IF given.addresses["hub"] # NotGiven THEN hub
                  ELSE [hub EXCEPT ![made["hub"] + 1] =
                          [registrar |-> inst["registrar"], stakeManager |-> inst["stakeManager"],
                           penalizer |-> inst["penalizer"], tokens |-> {}]]
        /\ UNCHANGED <<paymaster, registered, given, nextFile, file, torn, moved, deployRuns>>
    BY DEF DeployHub
  <1>2. /\ {"registrar", "stakeManager", "penalizer", "forwarder", "hub", "paymaster", "token"} = Kinds
    BY KindsAreSteps
  <1>3. /\ made' \in [Kinds -> Nat] /\ inst' \in [Kinds -> Nat]
        /\ \A j \in Kinds \ {"hub"} : made'[j] = made[j] /\ inst'[j] = inst[j]
        /\ inst'["hub"] >= 1 /\ inst'["hub"] <= made'["hub"] /\ made'["hub"] >= made["hub"]
        /\ made'["hub"] <= deployRuns
        /\ given.addresses["hub"] # NotGiven => inst'["hub"] = given.addresses["hub"] /\ made' = made
        /\ given.addresses["hub"] = NotGiven =>
             inst'["hub"] = made["hub"] + 1 /\ made'["hub"] = made["hub"] + 1
    BY <1>1, <1>2, InstanceIsThere
  <1>4. /\ deployAt' = "setRegistrar"
        /\ \A s \in DOMAIN Rank : Past(s)' <=> Past(s) \/ s = "hub"
    <2>1. deployAt' = "setRegistrar"
      BY <1>1 DEF Advance, Following
    <2> QED
      BY <1>1, <2>1, AdvancePasses, Ranks
  <1>5. /\ \A j \in Kinds : /\ made[j] \in Nat /\ made'[j] \in Nat /\ made[j] <= made'[j] /\ inst'[j] \in 0..made'[j]
                           /\ inst[j] \in Nat /\ file[j] \in 0..made[j] /\ file[j] \in 0..made'[j]
                           /\ given.addresses[j] \in 0..made[j] /\ given.addresses[j] \in 0..made'[j]
        /\ deployRuns \in Nat /\ deployRuns <= MaxDeployRuns /\ MaxDeployRuns \in Nat
    BY <1>2, <1>3, Numbered
  <1>6. /\ Past("registrar") /\ Past("stakeManager") /\ Past("penalizer") /\ ~Past("hub") /\ ~Past("setRegistrar")
        /\ ~Past("paymaster") /\ ~Past("setRelayHub") /\ ~Past("setTrustedForwarder")
        /\ ~Past("registerForwarder") /\ ~Past("setMinimumStakes") /\ ~Past("token")
    BY <1>1, WhatIsPast, Ranks
  <1>7. /\ hub' \in [Contracts -> [registrar : Nat, stakeManager : Nat, penalizer : Nat, tokens : SUBSET Nat]]
        /\ \A h \in 0..made["hub"] : hub'[h] = hub[h]
        /\ given.addresses["hub"] = NotGiven =>
             /\ hub'[made["hub"] + 1].stakeManager = inst["stakeManager"]
             /\ hub'[made["hub"] + 1].penalizer = inst["penalizer"]
    <2>1. /\ hub \in [Contracts -> [registrar : Nat, stakeManager : Nat, penalizer : Nat, tokens : SUBSET Nat]]
          /\ inst["registrar"] \in Nat /\ inst["stakeManager"] \in Nat /\ inst["penalizer"] \in Nat
      BY <1>2, <1>5 DEF DeployedTypes
    <2>2. CASE given.addresses["hub"] # NotGiven
      BY <1>1, <2>1, <2>2
    <2>3. CASE given.addresses["hub"] = NotGiven
      <3>1. PICK n \in Nat : n = made["hub"] + 1 /\ n \in Contracts
        BY <1>2, <1>3, <1>5, <2>3 DEF Contracts
      <3>2. hub' = [hub EXCEPT ![n] = [registrar |-> inst["registrar"], stakeManager |-> inst["stakeManager"],
                                       penalizer |-> inst["penalizer"], tokens |-> {}]]
        BY <1>1, <2>3, <3>1
      <3>3. \A h \in 0..made["hub"] : h \in Contracts /\ h # n
        BY <1>2, <1>3, <1>5, <3>1 DEF Contracts
      <3>4. /\ hub' \in [Contracts -> [registrar : Nat, stakeManager : Nat, penalizer : Nat, tokens : SUBSET Nat]]
            /\ \A h \in Contracts : h # n => hub'[h] = hub[h]
            /\ hub'[n].stakeManager = inst["stakeManager"] /\ hub'[n].penalizer = inst["penalizer"]
        BY <2>1, <3>1, <3>2
      <3> QED
        BY <3>1, <3>3, <3>4
    <2> QED
      BY <2>2, <2>3
  <1>8. DeployedTypes'
    <2>1. registered \subseteq 1..made'["forwarder"]
      BY <1>2, <1>3 DEF DeployedTypes
    <2>2. deployAt' \in DOMAIN Rank /\ deployAt' # "save"
      BY <1>4, Ranks
    <2> QED
      BY <1>1, <1>2, <1>3, <1>5, <1>7, <2>1, <2>2 DEF DeployedTypes
  <1>9. OneOfAKind'
    <2>1. ASSUME NEW j \in Kinds
          PROVE  /\ made'[j] <= IF j = "token" THEN deployRuns + 1 ELSE deployRuns
                 /\ ~Past(j)' => made'[j] < IF j = "token" THEN deployRuns + 1 ELSE deployRuns
      <3>1. CASE j = "hub"
        BY <1>2, <1>3, <1>4, <3>1, KindsAreSteps
      <3>2. CASE j # "hub"
        BY <1>1, <1>2, <1>3, <1>4, <3>2, KindsAreSteps DEF OneOfAKind
      <3> QED
        BY <3>1, <3>2
    <2>2. deployRuns' = deployRuns
      BY <1>1
    <2> QED
      BY <2>1, <2>2 DEF OneOfAKind
  <1>10. inst["stakeManager"] # NotGiven /\ inst["penalizer"] # NotGiven
    <2>1. inst["stakeManager"] >= 1 /\ inst["penalizer"] >= 1
      BY <1>6 DEF DoneSoFar, Givable
    <2> QED
      BY <2>1 DEF NotGiven
  <1>11. GivenFits'
    <2>1. ASSUME NEW h \in 1..made'["hub"]
          PROVE  hub'[h].stakeManager # NotGiven /\ hub'[h].penalizer # NotGiven
      <3>1. CASE h <= made["hub"]
        BY <1>2, <1>5, <1>7, <3>1 DEF GivenFits
      <3>2. CASE h > made["hub"]
        BY <1>2, <1>3, <1>5, <1>7, <1>10, <3>2
      <3> QED
        BY <1>2, <1>5, <3>1, <3>2
    <2>2. hub'[given.addresses["hub"]] = hub[given.addresses["hub"]]
      BY <1>2, <1>5, <1>7
    <2> QED
      BY <1>1, <2>1, <2>2 DEF GivenFits
  <1>12. Connected(inst)'
    <2> SUFFICES ASSUME GivesParts
                 PROVE  /\ hub'[inst'["hub"]].stakeManager = inst'["stakeManager"]
                        /\ hub'[inst'["hub"]].penalizer = inst'["penalizer"]
      BY DEF Connected
    <2>1. inst'["stakeManager"] = inst["stakeManager"] /\ inst'["penalizer"] = inst["penalizer"]
      BY <1>2, <1>3
    <2>2. CASE given.addresses["hub"] = NotGiven
      BY <1>3, <1>7, <2>1, <2>2
    <2>3. CASE given.addresses["hub"] # NotGiven
      <3>1. inst'["hub"] = given.addresses["hub"] /\ given.addresses["hub"] \in 1..made["hub"]
        BY <1>2, <1>3, <1>5, <2>3 DEF NotGiven
      <3>2. /\ given.addresses["stakeManager"] = hub[given.addresses["hub"]].stakeManager
            /\ given.addresses["penalizer"] = hub[given.addresses["hub"]].penalizer
        BY <2>3 DEF GivenFits
      <3>3. given.addresses["stakeManager"] # NotGiven /\ given.addresses["penalizer"] # NotGiven
        BY <3>1, <3>2 DEF GivenFits
      <3>4. inst["stakeManager"] = given.addresses["stakeManager"] /\ inst["penalizer"] = given.addresses["penalizer"]
        BY <1>6, <3>3 DEF DoneSoFar, Givable
      <3>5. hub'[given.addresses["hub"]] = hub[given.addresses["hub"]]
        BY <1>5, <1>7, <3>1
      <3> QED
        BY <2>1, <3>1, <3>2, <3>4, <3>5
    <2> QED
      BY <2>2, <2>3
  <1>13. DoneSoFar'
    <2>1. /\ ~Past("setRegistrar")' /\ ~Past("paymaster")' /\ ~Past("setRelayHub")'
          /\ ~Past("setTrustedForwarder")' /\ ~Past("registerForwarder")' /\ ~Past("setMinimumStakes")'
      BY <1>4, <1>6, Ranks
    <2>2. ASSUME NEW j \in Givable \cup {"token"}, Past(j)'
          PROVE  inst'[j] >= 1 /\ (given.addresses[j] # NotGiven => inst'[j] = given.addresses[j])
      <3>1. j \in Kinds
        BY DEF Kinds
      <3> QED
        BY <1>3, <1>4, <2>2, <3>1, KindsAreSteps DEF DoneSoFar
    <2>3. inst'["paymaster"] = NotGiven
      BY <1>1, <1>2, <1>3, <1>6 DEF DoneSoFar
    <2> QED
      BY <1>1, <1>4, <1>12, <2>1, <2>2, <2>3 DEF DoneSoFar
  <1>14. FilesFit'
    <2>1. nextFile = 1
      BY <1>1 DEF DeployedTypes
    <2>2. hub'[file["hub"]] = hub[file["hub"]]
      BY <1>2, <1>5, <1>7
    <2> QED
      BY <1>1, <2>1, <2>2 DEF FilesFit, Connected, Usable
  <1> QED
    BY <1>8, <1>9, <1>11, <1>13, <1>14

LEMMA DeployTokenFits ==
    ASSUME DeploymentAssumption, DeploymentInv, DeployToken
    PROVE  DeploymentInv'
  <1> USE DEF DeploymentInv
  <1>1. /\ deployAt = "token" /\ Instance("token") /\ Advance
        /\ UNCHANGED <<hub, paymaster, registered, given, nextFile, file, torn, moved, deployRuns>>
    BY DEF DeployToken
  <1>2. /\ {"registrar", "stakeManager", "penalizer", "forwarder", "hub", "paymaster", "token"} = Kinds
    BY KindsAreSteps
  <1>3. /\ made' \in [Kinds -> Nat] /\ inst' \in [Kinds -> Nat]
        /\ \A j \in Kinds \ {"token"} : made'[j] = made[j] /\ inst'[j] = inst[j]
        /\ inst'["token"] >= 1 /\ inst'["token"] <= made'["token"] /\ made'["token"] >= made["token"]
        /\ made'["token"] <= deployRuns + 1
        /\ given.addresses["token"] # NotGiven => inst'["token"] = given.addresses["token"]
    BY <1>1, <1>2, InstanceIsThere
  <1>4. /\ deployAt' = "setMinimumStakes"
        /\ \A s \in DOMAIN Rank : Past(s)' <=> Past(s) \/ s = "token"
    <2>1. deployAt' = "setMinimumStakes"
      BY <1>1 DEF Advance, Following
    <2> QED
      BY <1>1, <2>1, AdvancePasses, Ranks
  <1>5. \A j \in Kinds : /\ made[j] \in Nat /\ made'[j] \in Nat /\ made[j] <= made'[j] /\ inst'[j] \in 0..made'[j]
                        /\ file[j] \in 0..made'[j] /\ given.addresses[j] \in 0..made'[j]
    BY <1>2, <1>3, Numbered
  <1>6. DeployedTypes'
    <2>1. registered \subseteq 1..made'["forwarder"]
      BY <1>2, <1>3 DEF DeployedTypes
    <2>2. deployAt' \in DOMAIN Rank /\ deployAt' # "save"
      BY <1>4, Ranks
    <2> QED
      BY <1>1, <1>2, <1>3, <1>5, <2>1, <2>2 DEF DeployedTypes
  <1>7. OneOfAKind'
    <2>1. ASSUME NEW j \in Kinds
          PROVE  /\ made'[j] <= IF j = "token" THEN deployRuns + 1 ELSE deployRuns
                 /\ ~Past(j)' => made'[j] < IF j = "token" THEN deployRuns + 1 ELSE deployRuns
      <3>1. CASE j = "token"
        BY <1>2, <1>3, <1>4, <3>1, KindsAreSteps
      <3>2. CASE j # "token"
        BY <1>1, <1>2, <1>3, <1>4, <3>2, KindsAreSteps DEF OneOfAKind
      <3> QED
        BY <3>1, <3>2
    <2>2. deployRuns' = deployRuns
      BY <1>1
    <2> QED
      BY <2>1, <2>2 DEF OneOfAKind
  <1>8. GivenFits'
    BY <1>1, <1>2, <1>3 DEF GivenFits
  <1>9. DoneSoFar'
    <2>1. ASSUME NEW j \in Givable \cup {"token"}, Past(j)'
          PROVE  inst'[j] >= 1 /\ (given.addresses[j] # NotGiven => inst'[j] = given.addresses[j])
      <3>1. j \in Kinds
        BY DEF Kinds
      <3> QED
        BY <1>3, <1>4, <2>1, <3>1, KindsAreSteps DEF DoneSoFar
    <2>2. /\ inst'["hub"] = inst["hub"] /\ inst'["paymaster"] = inst["paymaster"]
          /\ inst'["registrar"] = inst["registrar"] /\ inst'["forwarder"] = inst["forwarder"]
          /\ inst'["stakeManager"] = inst["stakeManager"] /\ inst'["penalizer"] = inst["penalizer"]
      BY <1>2, <1>3
    <2>3. \A s \in {"hub", "setRegistrar", "paymaster", "setRelayHub", "setTrustedForwarder", "registerForwarder",
                   "setMinimumStakes"} : Past(s)' <=> Past(s)
      BY <1>4, Ranks
    <2>4. ~Past("setMinimumStakes") /\ Past("paymaster")
      BY <1>1, WhatIsPast, Ranks
    <2>5. Past("hub") => Connected(inst)'
      BY <1>1, <2>2 DEF DoneSoFar, Connected
    <2> QED
      BY <1>1, <1>4, <2>1, <2>2, <2>3, <2>4, <2>5 DEF DoneSoFar
  <1>10. FilesFit'
    <2>1. nextFile = 1
      BY <1>1 DEF DeployedTypes
    <2> QED
      BY <1>1, <2>1 DEF FilesFit, Connected, Usable
  <1> QED
    BY <1>6, <1>7, <1>8, <1>9, <1>10

\* Steps that deploy nothing and write no file.
LEMMA QuietStep ==
    ASSUME DeploymentAssumption, DeploymentInv, UNCHANGED <<made, inst, given, nextFile, file, torn, deployRuns>>,
           deployAt \in DOMAIN Rank, deployAt # "idle", deployAt # "save", deployAt' \in DOMAIN Rank,
           deployAt' # "idle", \A s \in DOMAIN Rank : Past(s) => Past(s)', moved' \in BOOLEAN,
           hub' \in [Contracts -> [registrar : Nat, stakeManager : Nat, penalizer : Nat, tokens : SUBSET Nat]],
           paymaster' \in [Contracts -> [hub : Nat, forwarder : Nat]], registered' \subseteq 1..made["forwarder"]
    PROVE  DeployedTypes' /\ OneOfAKind'
  <1> USE DEF DeploymentInv
  <1>1. nextFile = 1
    BY DEF DeployedTypes
  <1>2. DeployedTypes'
    BY <1>1 DEF DeployedTypes
  <1>3. OneOfAKind'
    <2>1. \A k \in Kinds : ~Past(k)' => ~Past(k)
      BY KindsAreSteps
    <2> QED
      BY <2>1 DEF OneOfAKind
  <1> QED
    BY <1>2, <1>3

\* The hub of a run that has one.
LEMMA HubIsThere ==
    ASSUME DeploymentAssumption, DeploymentInv, Past("hub")
    PROVE  /\ inst["hub"] \in 1..made["hub"] /\ inst["hub"] \in Contracts /\ inst["registrar"] \in Nat
           /\ file["hub"] \in Contracts /\ made["hub"] \in Contracts /\ 1..made["hub"] \subseteq Contracts
           /\ given.addresses["hub"] \in Contracts
  <1> USE DEF DeploymentInv
  <1>1. "hub" \in Kinds \ {"token"} /\ "registrar" \in Kinds /\ "hub" \in Givable
    BY DEF Kinds, Givable
  <1>2. inst["hub"] >= 1
    BY <1>1 DEF DoneSoFar
  <1>3. /\ made["hub"] \in Nat /\ inst["hub"] \in 0..made["hub"] /\ file["hub"] \in 0..made["hub"]
        /\ given.addresses["hub"] \in 0..made["hub"] /\ made["hub"] \in Contracts /\ inst["registrar"] \in Nat
        /\ MaxDeployRuns \in Nat
    BY <1>1, Numbered DEF DeployedTypes
  <1> QED
    BY <1>2, <1>3 DEF Contracts

\* The saved hub, when it gets another registrar, is known to have moved.
LEMMA SetRegistrarFits ==
    ASSUME DeploymentAssumption, DeploymentInv, SetRegistrar
    PROVE  DeploymentInv'
  <1> USE DEF DeploymentInv
  <1>1. /\ deployAt = "setRegistrar" /\ Advance /\ MovesHub
        /\ hub' = [hub EXCEPT ![inst["hub"]].registrar = inst["registrar"]]
        /\ UNCHANGED <<made, paymaster, registered, given, inst, nextFile, file, torn, deployRuns>>
    BY DEF SetRegistrar
  <1>2. /\ Past("hub") /\ ~Past("setRegistrar") /\ ~Past("paymaster") /\ ~Past("setRelayHub")
        /\ ~Past("setTrustedForwarder") /\ ~Past("registerForwarder") /\ ~Past("setMinimumStakes")
    BY <1>1, WhatIsPast, Ranks
  <1>3. /\ inst["hub"] \in Contracts /\ inst["registrar"] \in Nat /\ file["hub"] \in Contracts
        /\ 1..made["hub"] \subseteq Contracts /\ given.addresses["hub"] \in Contracts
    BY <1>2, HubIsThere
  <1>4. /\ hub' \in [Contracts -> [registrar : Nat, stakeManager : Nat, penalizer : Nat, tokens : SUBSET Nat]]
    BY <1>1, <1>3 DEF DeployedTypes
  <1>5. ASSUME NEW h \in Contracts
         PROVE  /\ hub'[h].stakeManager = hub[h].stakeManager /\ hub'[h].tokens = hub[h].tokens
                /\ hub'[h].penalizer = hub[h].penalizer
                /\ h # inst["hub"] => hub'[h].registrar = hub[h].registrar
    BY <1>1, <1>3 DEF DeployedTypes
  <1>6. hub'[inst["hub"]].registrar = inst["registrar"]
    BY <1>1, <1>3 DEF DeployedTypes
  <1>7. /\ deployAt' = "paymaster" /\ deployAt' # "idle" /\ deployAt' \in DOMAIN Rank
        /\ \A s \in DOMAIN Rank : Past(s)' <=> Past(s) \/ s = "setRegistrar"
    <2>1. deployAt' = "paymaster"
      BY <1>1 DEF Advance, Following
    <2> QED
      BY <1>1, <2>1, AdvancePasses, Ranks
  <1>8. moved' = (moved \/ (inst["hub"] = file["hub"] /\ inst["registrar"] # file["registrar"])) /\ moved' \in BOOLEAN
    BY <1>1 DEF MovesHub, DeployedTypes
  <1>9. DeployedTypes' /\ OneOfAKind'
    BY <1>1, <1>4, <1>7, <1>8, QuietStep, Ranks DEF DeployedTypes
  <1>10. GivenFits'
    BY <1>1, <1>3, <1>5 DEF GivenFits
  <1>11. DoneSoFar'
    <2>1. /\ Past("hub")' /\ ~Past("paymaster")' /\ ~Past("setRelayHub")' /\ ~Past("setTrustedForwarder")'
          /\ ~Past("registerForwarder")' /\ ~Past("setMinimumStakes")'
      BY <1>2, <1>7, Ranks
    <2>2. \A k \in Givable \cup {"token"} : Past(k)' => Past(k)
      BY <1>7, Ranks DEF Givable
    <2>3. Connected(inst)'
      BY <1>1, <1>2, <1>3, <1>5 DEF DoneSoFar, Connected
    <2> QED
      BY <1>1, <1>2, <1>6, <1>7, <2>1, <2>2, <2>3 DEF DoneSoFar
  <1>12. FilesFit'
    <2>1. nextFile = 1
      BY <1>1 DEF DeployedTypes
    <2>2. ASSUME ~torn, file["hub"] # NotGiven
          PROVE  Connected(file)' /\ Usable(file)' /\ (moved' \/ hub'[file["hub"]].registrar = file["registrar"])
      <3>1. Connected(file) /\ Usable(file) /\ (moved \/ hub[file["hub"]].registrar = file["registrar"])
        BY <2>1, <2>2 DEF FilesFit
      <3>2. Connected(file)' /\ Usable(file)'
        <4>1. /\ hub'[file["hub"]].stakeManager = hub[file["hub"]].stakeManager
              /\ hub'[file["hub"]].penalizer = hub[file["hub"]].penalizer
              /\ hub'[file["hub"]].tokens = hub[file["hub"]].tokens
          BY <1>3, <1>5
        <4>2. file' = file /\ paymaster' = paymaster /\ registered' = registered
          BY <1>1
        <4>3. Connected(file)'
          BY <3>1, <4>1, <4>2 DEF Connected
        <4>4. Usable(file)'
          <5>1. /\ file["paymaster"] # NotGiven =>
                      /\ paymaster'[file["paymaster"]].hub = file["hub"]
                      /\ paymaster'[file["paymaster"]].forwarder = file["forwarder"]
                /\ file["forwarder"] \in registered'
            BY <3>1, <4>2 DEF Usable
          <5>2. file["token"] \in hub'[file["hub"]].tokens
            BY <3>1, <4>1 DEF Usable
          <5> QED
            BY <4>2, <5>1, <5>2 DEF Usable
        <4> QED
          BY <4>3, <4>4
      <3>3. moved' \/ hub'[file["hub"]].registrar = file["registrar"]
        <4>1. CASE file["hub"] = inst["hub"]
          BY <1>8, <1>6, <4>1
        <4>2. CASE file["hub"] # inst["hub"]
          <5>1. hub'[file["hub"]].registrar = hub[file["hub"]].registrar
            BY <1>3, <1>5, <4>2
          <5> QED
            BY <1>8, <3>1, <5>1
        <4> QED
          BY <4>1, <4>2
      <3> QED
        BY <3>2, <3>3
    <2> QED
      BY <1>1, <2>1, <2>2 DEF FilesFit
  <1> QED
    BY <1>9, <1>10, <1>11, <1>12

LEMMA DeployPaymasterFits ==
    ASSUME DeploymentAssumption, DeploymentInv, DeployPaymaster
    PROVE  DeploymentInv'
  <1> USE DEF DeploymentInv
  <1>1. /\ deployAt = "paymaster" /\ Advance
        /\ made' = [made EXCEPT !["paymaster"] = @ + 1]
        /\ inst' = [inst EXCEPT !["paymaster"] = made["paymaster"] + 1]
        /\ UNCHANGED <<hub, paymaster, registered, given, nextFile, file, torn, moved, deployRuns>>
    BY DEF DeployPaymaster
  <1>2. /\ Past("hub") /\ Past("setRegistrar") /\ ~Past("paymaster") /\ ~Past("setRelayHub")
        /\ ~Past("setTrustedForwarder") /\ ~Past("registerForwarder") /\ ~Past("setMinimumStakes")
    BY <1>1, WhatIsPast, Ranks
  <1>3. /\ deployAt' = "setRelayHub"
        /\ \A s \in DOMAIN Rank : Past(s)' <=> Past(s) \/ s = "paymaster"
    <2>1. deployAt' = "setRelayHub"
      BY <1>1 DEF Advance, Following
    <2> QED
      BY <1>1, <2>1, AdvancePasses, Ranks
  <1>4. /\ {"registrar", "stakeManager", "penalizer", "forwarder", "hub", "paymaster", "token"} = Kinds
        /\ \A j \in Kinds : /\ made[j] \in Nat /\ inst[j] \in 0..made[j] /\ file[j] \in 0..made[j]
                           /\ given.addresses[j] \in 0..made[j]
        /\ deployRuns \in Nat /\ made["paymaster"] < deployRuns
    <2>1. made["paymaster"] < deployRuns
      BY <1>1, <1>2, KindsAreSteps DEF OneOfAKind
    <2> QED
      BY <2>1, KindsAreSteps, Numbered
  <1>5. /\ made' \in [Kinds -> Nat] /\ inst' \in [Kinds -> Nat]
        /\ \A j \in Kinds \ {"paymaster"} : made'[j] = made[j] /\ inst'[j] = inst[j]
        /\ made'["paymaster"] = made["paymaster"] + 1 /\ inst'["paymaster"] = made["paymaster"] + 1
    BY <1>1, <1>4 DEF DeployedTypes
  <1>6. \A j \in Kinds : /\ made'[j] \in Nat /\ inst'[j] \in 0..made'[j] /\ file[j] \in 0..made'[j]
                        /\ given.addresses[j] \in 0..made'[j]
    BY <1>4, <1>5
  <1>7. DeployedTypes'
    <2>1. registered \subseteq 1..made'["forwarder"]
      BY <1>4, <1>5 DEF DeployedTypes
    <2>2. deployAt' \in DOMAIN Rank /\ deployAt' # "save"
      BY <1>3, Ranks
    <2> QED
      BY <1>1, <1>5, <1>6, <2>1, <2>2 DEF DeployedTypes
  <1>8. OneOfAKind'
    <2>1. ASSUME NEW j \in Kinds
          PROVE  /\ made'[j] <= IF j = "token" THEN deployRuns + 1 ELSE deployRuns
                 /\ ~Past(j)' => made'[j] < IF j = "token" THEN deployRuns + 1 ELSE deployRuns
      <3>1. CASE j = "paymaster"
        BY <1>3, <1>4, <1>5, <3>1, KindsAreSteps
      <3>2. CASE j # "paymaster"
        BY <1>1, <1>3, <1>5, <3>2, KindsAreSteps DEF OneOfAKind
      <3> QED
        BY <3>1, <3>2
    <2>2. deployRuns' = deployRuns
      BY <1>1
    <2> QED
      BY <2>1, <2>2 DEF OneOfAKind
  <1>9. GivenFits'
    BY <1>1, <1>4, <1>5 DEF GivenFits
  <1>10. DoneSoFar'
    <2>1. /\ inst'["hub"] = inst["hub"] /\ inst'["registrar"] = inst["registrar"]
          /\ inst'["stakeManager"] = inst["stakeManager"] /\ inst'["penalizer"] = inst["penalizer"]
          /\ file["paymaster"] < inst'["paymaster"]
      BY <1>4, <1>5
    <2>2. ASSUME NEW j \in Givable \cup {"token"}, Past(j)'
          PROVE  inst'[j] >= 1 /\ (given.addresses[j] # NotGiven => inst'[j] = given.addresses[j])
      <3>1. j \in Kinds /\ j # "paymaster"
        BY DEF Kinds, Givable
      <3> QED
        BY <1>3, <1>5, <2>2, <3>1, KindsAreSteps DEF DoneSoFar
    <2>3. /\ Past("paymaster")' /\ ~Past("setRelayHub")' /\ ~Past("setTrustedForwarder")'
          /\ ~Past("registerForwarder")' /\ ~Past("setMinimumStakes")'
      BY <1>2, <1>3, Ranks
    <2>4. Connected(inst)' /\ hub'[inst'["hub"]].registrar = inst'["registrar"]
      BY <1>1, <1>2, <2>1 DEF DoneSoFar, Connected
    <2> QED
      BY <1>1, <2>1, <2>2, <2>3, <2>4 DEF DoneSoFar
  <1>11. FilesFit'
    <2>1. nextFile = 1
      BY <1>1 DEF DeployedTypes
    <2> QED
      BY <1>1, <2>1 DEF FilesFit, Connected, Usable
  <1> QED
    BY <1>7, <1>8, <1>9, <1>10, <1>11

LEMMA NoPaymasterFits ==
    ASSUME DeploymentAssumption, DeploymentInv, NoPaymaster
    PROVE  DeploymentInv'
  <1> USE DEF DeploymentInv
  <1>1. /\ deployAt = "paymaster" /\ deployAt' = "registerForwarder"
        /\ UNCHANGED <<made, hub, paymaster, registered, given, inst, nextFile, file, torn, moved, deployRuns>>
    BY DEF NoPaymaster
  <1>2. /\ Past("hub") /\ Past("setRegistrar") /\ ~Past("paymaster") /\ ~Past("registerForwarder")
        /\ ~Past("setMinimumStakes") /\ ~Past("token")
    BY <1>1, WhatIsPast, Ranks
  <1>3. /\ \A s \in DOMAIN Rank : Past(s) => Past(s)'
        /\ Past("paymaster")' /\ ~Past("registerForwarder")' /\ ~Past("setMinimumStakes")'
        /\ \A k \in Givable \cup {"token"} : Past(k)' => Past(k)
        /\ deployAt' \in DOMAIN Rank /\ deployAt' # "idle" /\ deployAt' # "save"
    <2>1. Rank[deployAt] = 7 /\ Rank[deployAt'] = 10 /\ deployAt' \in DOMAIN Rank
      BY <1>1, Ranks
    <2>2. \A s : (Past(s) <=> 7 > Rank[s]) /\ (Past(s)' <=> 10 > Rank[s])
      BY <2>1 DEF Past
    <2>3. \A k \in Givable \cup {"token"} : 10 > Rank[k] => 7 > Rank[k]
      BY Ranks DEF Givable
    <2> QED
      BY <1>1, <2>1, <2>2, <2>3, Ranks, KindsAreSteps
  <1>4. DeployedTypes' /\ OneOfAKind'
    BY <1>1, <1>3, QuietStep, Ranks DEF DeployedTypes
  <1>5. GivenFits'
    BY <1>1 DEF GivenFits
  <1>6. inst["paymaster"] = NotGiven
    BY <1>1, <1>2 DEF DoneSoFar
  <1>7. DoneSoFar'
    BY <1>1, <1>2, <1>3, <1>6 DEF DoneSoFar, Connected
  <1>8. FilesFit'
    BY <1>1 DEF FilesFit, Connected, Usable
  <1> QED
    BY <1>4, <1>5, <1>7, <1>8

\* The paymaster of a run that makes one is a new one, which no file names.
LEMMA PaymasterIsThere ==
    ASSUME DeploymentAssumption, DeploymentInv, deployAt \in {"setRelayHub", "setTrustedForwarder"}
    PROVE  /\ inst["paymaster"] \in Contracts /\ inst["hub"] \in Nat /\ inst["forwarder"] \in Nat
           /\ file["paymaster"] \in Contracts /\ file["paymaster"] # inst["paymaster"]
  <1> USE DEF DeploymentInv
  <1>1. {"registrar", "stakeManager", "penalizer", "forwarder", "hub", "paymaster", "token"} = Kinds
    BY KindsAreSteps
  <1>2. /\ made["paymaster"] \in Contracts /\ made["paymaster"] \in Nat /\ MaxDeployRuns \in Nat
        /\ inst["paymaster"] \in 0..made["paymaster"] /\ file["paymaster"] \in 0..made["paymaster"]
        /\ inst["hub"] \in Nat /\ inst["forwarder"] \in Nat
    BY <1>1, Numbered DEF DeployedTypes
  <1>3. file["paymaster"] < inst["paymaster"]
    BY DEF DoneSoFar
  <1> QED
    BY <1>2, <1>3 DEF Contracts

LEMMA SetRelayHubFits ==
    ASSUME DeploymentAssumption, DeploymentInv, SetRelayHub
    PROVE  DeploymentInv'
  <1> USE DEF DeploymentInv
  <1>1. /\ deployAt = "setRelayHub" /\ Advance
        /\ paymaster' = [paymaster EXCEPT ![inst["paymaster"]].hub = inst["hub"]]
        /\ UNCHANGED <<made, hub, registered, given, inst, nextFile, file, torn, moved, deployRuns>>
    BY DEF SetRelayHub
  <1>2. /\ Past("hub") /\ Past("setRegistrar") /\ Past("paymaster") /\ ~Past("setTrustedForwarder")
        /\ ~Past("registerForwarder") /\ ~Past("setMinimumStakes")
    BY <1>1, WhatIsPast, Ranks
  <1>3. /\ inst["paymaster"] \in Contracts /\ inst["hub"] \in Nat
        /\ file["paymaster"] \in Contracts /\ file["paymaster"] # inst["paymaster"]
    BY <1>1, PaymasterIsThere
  <1>4. paymaster' \in [Contracts -> [hub : Nat, forwarder : Nat]]
    BY <1>1, <1>3 DEF DeployedTypes
  <1>5. paymaster'[inst["paymaster"]].hub = inst["hub"] /\ paymaster'[file["paymaster"]] = paymaster[file["paymaster"]]
    BY <1>1, <1>3 DEF DeployedTypes
  <1>6. /\ deployAt' = "setTrustedForwarder" /\ deployAt' # "idle" /\ deployAt' \in DOMAIN Rank
        /\ \A s \in DOMAIN Rank : Past(s)' <=> Past(s) \/ s = "setRelayHub"
    <2>1. deployAt' = "setTrustedForwarder"
      BY <1>1 DEF Advance, Following
    <2> QED
      BY <1>1, <2>1, AdvancePasses, Ranks
  <1>7. DeployedTypes' /\ OneOfAKind'
    BY <1>1, <1>4, <1>6, QuietStep, Ranks DEF DeployedTypes
  <1>8. GivenFits'
    BY <1>1 DEF GivenFits
  <1>9. DoneSoFar'
    <2>1. /\ Past("hub")' /\ Past("paymaster")' /\ ~Past("setTrustedForwarder")' /\ ~Past("registerForwarder")'
          /\ ~Past("setMinimumStakes")'
      BY <1>2, <1>6, Ranks
    <2>2. \A k \in Givable \cup {"token"} : Past(k)' => Past(k)
      BY <1>6, Ranks DEF Givable
    <2>3. Connected(inst)' /\ hub'[inst'["hub"]].registrar = inst'["registrar"]
      BY <1>1, <1>2 DEF DoneSoFar, Connected
    <2>4. file["paymaster"] < inst["paymaster"]
      BY <1>1 DEF DoneSoFar
    <2> QED
      BY <1>1, <1>5, <2>1, <2>2, <2>3, <2>4 DEF DoneSoFar
  <1>10. FilesFit'
    <2>1. nextFile = 1
      BY <1>1 DEF DeployedTypes
    <2> QED
      BY <1>1, <1>5, <2>1 DEF FilesFit, Connected, Usable
  <1> QED
    BY <1>7, <1>8, <1>9, <1>10

LEMMA SetTrustedForwarderFits ==
    ASSUME DeploymentAssumption, DeploymentInv, SetTrustedForwarder
    PROVE  DeploymentInv'
  <1> USE DEF DeploymentInv
  <1>1. /\ deployAt = "setTrustedForwarder" /\ Advance
        /\ paymaster' = [paymaster EXCEPT ![inst["paymaster"]].forwarder = inst["forwarder"]]
        /\ UNCHANGED <<made, hub, registered, given, inst, nextFile, file, torn, moved, deployRuns>>
    BY DEF SetTrustedForwarder
  <1>2. /\ Past("hub") /\ Past("setRegistrar") /\ Past("paymaster") /\ Past("setRelayHub")
        /\ ~Past("registerForwarder") /\ ~Past("setMinimumStakes")
    BY <1>1, WhatIsPast, Ranks
  <1>3. /\ inst["paymaster"] \in Contracts /\ inst["forwarder"] \in Nat
        /\ file["paymaster"] \in Contracts /\ file["paymaster"] # inst["paymaster"]
    BY <1>1, PaymasterIsThere
  <1>4. paymaster' \in [Contracts -> [hub : Nat, forwarder : Nat]]
    BY <1>1, <1>3 DEF DeployedTypes
  <1>5. /\ paymaster'[inst["paymaster"]].hub = paymaster[inst["paymaster"]].hub
        /\ paymaster'[inst["paymaster"]].forwarder = inst["forwarder"]
        /\ paymaster'[file["paymaster"]] = paymaster[file["paymaster"]]
    BY <1>1, <1>3 DEF DeployedTypes
  <1>6. /\ deployAt' = "registerForwarder" /\ deployAt' # "idle" /\ deployAt' \in DOMAIN Rank
        /\ \A s \in DOMAIN Rank : Past(s)' <=> Past(s) \/ s = "setTrustedForwarder"
    <2>1. deployAt' = "registerForwarder"
      BY <1>1 DEF Advance, Following
    <2> QED
      BY <1>1, <2>1, AdvancePasses, Ranks
  <1>7. DeployedTypes' /\ OneOfAKind'
    BY <1>1, <1>4, <1>6, QuietStep, Ranks DEF DeployedTypes
  <1>8. GivenFits'
    BY <1>1 DEF GivenFits
  <1>9. DoneSoFar'
    <2>1. /\ Past("hub")' /\ Past("paymaster")' /\ ~Past("registerForwarder")' /\ ~Past("setMinimumStakes")'
      BY <1>2, <1>6, Ranks
    <2>2. \A k \in Givable \cup {"token"} : Past(k)' => Past(k)
      BY <1>6, Ranks DEF Givable
    <2>3. Connected(inst)' /\ hub'[inst'["hub"]].registrar = inst'["registrar"]
      BY <1>1, <1>2 DEF DoneSoFar, Connected
    <2>4. file["paymaster"] < inst["paymaster"]
      BY <1>1 DEF DoneSoFar
    <2>5. inst["paymaster"] # NotGiven => paymaster'[inst["paymaster"]].hub = inst["hub"]
      BY <1>2, <1>5 DEF DoneSoFar
    <2> QED
      BY <1>1, <1>5, <1>6, <2>1, <2>2, <2>3, <2>4, <2>5 DEF DoneSoFar
  <1>10. FilesFit'
    <2>1. nextFile = 1
      BY <1>1 DEF DeployedTypes
    <2> QED
      BY <1>1, <1>5, <2>1 DEF FilesFit, Connected, Usable
  <1> QED
    BY <1>7, <1>8, <1>9, <1>10

LEMMA RegisterForwarderFits ==
    ASSUME DeploymentAssumption, DeploymentInv, RegisterForwarder
    PROVE  DeploymentInv'
  <1> USE DEF DeploymentInv
  <1>1. /\ deployAt = "registerForwarder" /\ Advance
        /\ registered' = registered \union {inst["forwarder"]}
        /\ UNCHANGED <<made, hub, paymaster, given, inst, nextFile, file, torn, moved, deployRuns>>
    BY DEF RegisterForwarder
  <1>2. /\ Past("hub") /\ Past("forwarder") /\ Past("setRegistrar") /\ Past("paymaster")
        /\ ~Past("setMinimumStakes")
    <2>1. ~Past("setMinimumStakes")
      BY <1>1, WhatIsPast, Ranks
    <2> QED
      BY <1>1, <2>1, WhatIsPast, Ranks
  <1>3. registered' \subseteq 1..made["forwarder"]
    <2>1. "forwarder" \in Kinds /\ "forwarder" \in Givable
      BY DEF Kinds, Givable
    <2>2. inst["forwarder"] \in 0..made["forwarder"] /\ inst["forwarder"] >= 1 /\ made["forwarder"] \in Nat
      BY <1>2, <2>1, Numbered DEF DoneSoFar
    <2>3. registered \subseteq 1..made["forwarder"]
      BY DEF DeployedTypes
    <2>4. inst["forwarder"] \in 1..made["forwarder"]
      BY <2>2
    <2> QED
      BY <1>1, <2>3, <2>4
  <1>4. /\ deployAt' = "token" /\ deployAt' # "idle" /\ deployAt' \in DOMAIN Rank
        /\ \A s \in DOMAIN Rank : Past(s)' <=> Past(s) \/ s = "registerForwarder"
    <2>1. deployAt' = "token"
      BY <1>1 DEF Advance, Following
    <2> QED
      BY <1>1, <2>1, AdvancePasses, Ranks
  <1>5. DeployedTypes' /\ OneOfAKind'
    BY <1>1, <1>3, <1>4, QuietStep, Ranks DEF DeployedTypes
  <1>6. GivenFits'
    BY <1>1 DEF GivenFits
  <1>7. DoneSoFar'
    <2>1. /\ Past("paymaster")' /\ ~Past("setMinimumStakes")'
          /\ \A s \in {"hub", "setRegistrar", "setRelayHub", "setTrustedForwarder"} : Past(s)' <=> Past(s)
      BY <1>2, <1>4, Ranks
    <2>2. \A k \in Givable \cup {"token"} : Past(k)' => Past(k)
      BY <1>4, Ranks DEF Givable
    <2>3. Connected(inst)' /\ hub'[inst'["hub"]].registrar = inst'["registrar"]
      BY <1>1, <1>2 DEF DoneSoFar, Connected
    <2> QED
      BY <1>1, <1>4, <2>1, <2>2, <2>3 DEF DoneSoFar
  <1>8. FilesFit'
    <2>1. nextFile = 1
      BY <1>1 DEF DeployedTypes
    <2> QED
      BY <1>1, <2>1 DEF FilesFit, Connected, Usable
  <1> QED
    BY <1>5, <1>6, <1>7, <1>8

LEMMA SetMinimumStakesFits ==
    ASSUME DeploymentAssumption, DeploymentInv, SetMinimumStakes
    PROVE  DeploymentInv'
  <1> USE DEF DeploymentInv
  <1>1. /\ deployAt = "setMinimumStakes" /\ Advance
        /\ hub' = [hub EXCEPT ![inst["hub"]].tokens = @ \union {inst["token"]}]
        /\ UNCHANGED <<made, paymaster, registered, given, inst, nextFile, file, torn, moved, deployRuns>>
    BY DEF SetMinimumStakes
  <1>2. Past("hub") /\ Past("setRegistrar") /\ Past("paymaster")
    BY <1>1, WhatIsPast, Ranks
  <1>3. /\ inst["hub"] \in Contracts /\ file["hub"] \in Contracts /\ 1..made["hub"] \subseteq Contracts
        /\ given.addresses["hub"] \in Contracts
    BY <1>2, HubIsThere
  <1>4. inst["token"] \in Nat
    BY KindsAreSteps DEF DeployedTypes
  <1>5. hub' \in [Contracts -> [registrar : Nat, stakeManager : Nat, penalizer : Nat, tokens : SUBSET Nat]]
    BY <1>1, <1>3, <1>4 DEF DeployedTypes
  <1>6. ASSUME NEW h \in Contracts
        PROVE  /\ hub'[h].stakeManager = hub[h].stakeManager /\ hub'[h].penalizer = hub[h].penalizer
               /\ hub'[h].registrar = hub[h].registrar /\ hub[h].tokens \subseteq hub'[h].tokens
    BY <1>1, <1>3 DEF DeployedTypes
  <1>7. inst["token"] \in hub'[inst["hub"]].tokens
    BY <1>1, <1>3 DEF DeployedTypes
  <1>8. /\ deployAt' = "initDeployment" /\ deployAt' # "idle" /\ deployAt' \in DOMAIN Rank
        /\ \A s \in DOMAIN Rank : Past(s)' <=> Past(s) \/ s = "setMinimumStakes"
    <2>1. deployAt' = "initDeployment"
      BY <1>1 DEF Advance, Following
    <2> QED
      BY <1>1, <2>1, AdvancePasses, Ranks
  <1>9. DeployedTypes' /\ OneOfAKind'
    BY <1>1, <1>5, <1>8, QuietStep, Ranks DEF DeployedTypes
  <1>10. GivenFits'
    BY <1>1, <1>3, <1>6 DEF GivenFits
  <1>11. DoneSoFar'
    <2>1. /\ Past("paymaster")'
          /\ \A s \in {"hub", "setRegistrar", "setRelayHub", "setTrustedForwarder", "registerForwarder"} :
               Past(s)' <=> Past(s)
      BY <1>2, <1>8, Ranks
    <2>2. \A k \in Givable \cup {"token"} : Past(k)' => Past(k)
      BY <1>8, Ranks DEF Givable
    <2>3. /\ hub'[inst["hub"]].stakeManager = hub[inst["hub"]].stakeManager
          /\ hub'[inst["hub"]].penalizer = hub[inst["hub"]].penalizer
          /\ hub'[inst["hub"]].registrar = hub[inst["hub"]].registrar
      BY <1>3, <1>6
    <2>4. Connected(inst)' /\ hub'[inst'["hub"]].registrar = inst'["registrar"]
      BY <1>1, <1>2, <2>3 DEF DoneSoFar, Connected
    <2> QED
      BY <1>1, <1>7, <1>8, <2>1, <2>2, <2>4 DEF DoneSoFar
  <1>12. FilesFit'
    <2>1. nextFile = 1
      BY <1>1 DEF DeployedTypes
    <2>2. /\ hub'[file["hub"]].stakeManager = hub[file["hub"]].stakeManager
          /\ hub'[file["hub"]].penalizer = hub[file["hub"]].penalizer
          /\ hub'[file["hub"]].registrar = hub[file["hub"]].registrar
          /\ hub[file["hub"]].tokens \subseteq hub'[file["hub"]].tokens
      BY <1>3, <1>6
    <2>3. Connected(file) => Connected(file)'
      BY <1>1, <2>2 DEF Connected
    <2>4. Usable(file) => Usable(file)'
      <3>1. file["token"] \in hub[file["hub"]].tokens => file["token"] \in hub'[file["hub"]].tokens
        BY <2>2
      <3> QED
        BY <1>1, <3>1 DEF Usable
    <2> QED
      BY <1>1, <2>1, <2>2, <2>3, <2>4 DEF FilesFit
  <1> QED
    BY <1>9, <1>10, <1>11, <1>12

LEMMA InitInteractorFits ==
    ASSUME DeploymentAssumption, DeploymentInv, InitInteractor
    PROVE  DeploymentInv'
  <1> USE DEF DeploymentInv
  <1>1. /\ deployAt = "initDeployment" /\ Advance
        /\ UNCHANGED <<made, hub, paymaster, registered, given, inst, nextFile, file, torn, moved, deployRuns>>
    BY DEF InitInteractor
  <1>2. Past("paymaster")
    BY <1>1, WhatIsPast, Ranks
  <1>3. /\ deployAt' = "save" /\ deployAt' # "idle" /\ deployAt' \in DOMAIN Rank
        /\ \A s \in DOMAIN Rank : Past(s)' <=> Past(s) \/ s = "initDeployment"
    <2>1. deployAt' = "save"
      BY <1>1 DEF Advance, Following
    <2> QED
      BY <1>1, <2>1, AdvancePasses, Ranks
  <1>4. DeployedTypes' /\ OneOfAKind'
    BY <1>1, <1>3, QuietStep, Ranks DEF DeployedTypes
  <1>5. GivenFits'
    BY <1>1 DEF GivenFits
  <1>6. DoneSoFar'
    <2>1. /\ Past("paymaster")'
          /\ \A s \in {"hub", "setRegistrar", "setRelayHub", "setTrustedForwarder", "registerForwarder",
                       "setMinimumStakes"} : Past(s)' <=> Past(s)
      BY <1>2, <1>3, Ranks
    <2>2. \A k \in Givable \cup {"token"} : Past(k)' => Past(k)
      BY <1>3, Ranks DEF Givable
    <2>3. Past("hub") => Connected(inst)'
      BY <1>1 DEF DoneSoFar, Connected
    <2> QED
      BY <1>1, <1>3, <2>1, <2>2, <2>3 DEF DoneSoFar
  <1>7. FilesFit'
    <2>1. nextFile = 1
      BY <1>1 DEF DeployedTypes
    <2> QED
      BY <1>1, <2>1 DEF FilesFit, Connected, Usable
  <1> QED
    BY <1>4, <1>5, <1>6, <1>7

\* Each contract has a file of its own.
LEMMA FilesAreKinds ==
    /\ Len(Files) = 7 /\ \A j \in 1..7 : Files[j] \in Kinds
    /\ \A i, j \in 1..7 : Files[i] = Files[j] => i = j
    /\ \A k \in Kinds : \E j \in 1..7 : Files[j] = k
  <1>1. /\ Len(Files) = 7 /\ Files[1] = "stakeManager" /\ Files[2] = "penalizer" /\ Files[3] = "hub"
        /\ Files[4] = "paymaster" /\ Files[5] = "forwarder" /\ Files[6] = "registrar" /\ Files[7] = "token"
    BY DEF Files
  <1>2. \A j \in 1..7 : j = 1 \/ j = 2 \/ j = 3 \/ j = 4 \/ j = 5 \/ j = 6 \/ j = 7
    OBVIOUS
  <1>3. \A j \in 1..7 : Files[j] \in Kinds
    BY <1>1, <1>2, KindsAreSteps
  <1>4. \A i, j \in 1..7 : Files[i] = Files[j] => i = j
    BY <1>1, <1>2
  <1>5. ASSUME NEW k \in Kinds
        PROVE  \E j \in 1..7 : Files[j] = k
    <2>1. \/ k = Files[1] \/ k = Files[2] \/ k = Files[3] \/ k = Files[4] \/ k = Files[5] \/ k = Files[6]
          \/ k = Files[7]
      BY <1>1, KindsAreSteps
    <2>2. 1 \in 1..7 /\ 2 \in 1..7 /\ 3 \in 1..7 /\ 4 \in 1..7 /\ 5 \in 1..7 /\ 6 \in 1..7 /\ 7 \in 1..7
      OBVIOUS
    <2> QED
      BY <2>1, <2>2, Zenon
  <1> QED
    BY <1>1, <1>3, <1>4, <1>5

LEMMA SaveFileFits ==
    ASSUME DeploymentAssumption, DeploymentInv, SaveFile
    PROVE  DeploymentInv'
  <1> USE DEF DeploymentInv
  <1>1. /\ deployAt = "save" /\ file' = [file EXCEPT ![Files[nextFile]] = inst[Files[nextFile]]]
        /\ UNCHANGED <<made, hub, paymaster, registered, given, inst, deployRuns>>
    BY DEF SaveFile
  <1>2. nextFile \in 1..7 /\ Files[nextFile] \in Kinds
    BY FilesAreKinds DEF DeployedTypes
  <1>3. /\ file' \in [Kinds -> Nat] /\ file'[Files[nextFile]] = inst[Files[nextFile]]
        /\ \A k \in Kinds : k # Files[nextFile] => file'[k] = file[k]
        /\ \A k \in Kinds : inst[k] <= made[k] /\ file'[k] <= made[k] /\ given.addresses[k] <= made[k]
    BY <1>1, <1>2 DEF DeployedTypes
  <1>4. \A j \in 1..nextFile : file'[Files[j]] = inst[Files[j]]
    <2>1. ASSUME NEW j \in 1..nextFile - 1
          PROVE  file'[Files[j]] = inst[Files[j]]
      <3>1. j \in 1..7 /\ j # nextFile
        BY <1>2
      <3>2. Files[j] \in Kinds /\ Files[j] # Files[nextFile]
        BY <1>2, <3>1, FilesAreKinds
      <3>3. file[Files[j]] = inst[Files[j]]
        BY DEF FilesFit
      <3> QED
        BY <1>3, <3>2, <3>3
    <2>2. \A j \in 1..nextFile : j = nextFile \/ j \in 1..nextFile - 1
      BY <1>2
    <2> QED
      BY <1>3, <2>1, <2>2
  <1>5. GivenFits'
    BY <1>1 DEF GivenFits
  <1>6. CASE nextFile < 7
    <2>1. nextFile' = nextFile + 1 /\ UNCHANGED <<deployAt, torn, moved>>
      BY <1>6, FilesAreKinds DEF SaveFile
    <2>2. DeployedTypes'
      BY <1>1, <1>2, <1>3, <1>6, <2>1 DEF DeployedTypes
    <2>3. \A s : Past(s)' <=> Past(s)
      BY <2>1 DEF Past
    <2>4. OneOfAKind'
      BY <1>1, <2>1, <2>3 DEF OneOfAKind
    <2>5. DoneSoFar'
      <3>1. deployAt' = "save"
        BY <1>1, <2>1
      <3>2. Connected(inst) => Connected(inst)'
        BY <1>1 DEF Connected
      <3> QED
        BY <1>1, <2>1, <2>3, <3>1, <3>2 DEF DoneSoFar
    <2>6. FilesFit'
      <3>1. nextFile' # 1 /\ 1..nextFile' - 1 = 1..nextFile
        BY <1>2, <2>1
      <3> QED
        BY <1>1, <1>4, <3>1 DEF FilesFit
    <2> QED
      BY <1>5, <2>2, <2>4, <2>5, <2>6
  <1>7. CASE nextFile = 7
    <2>1. nextFile' = 1 /\ deployAt' = "idle" /\ torn' = FALSE /\ moved' = FALSE
      BY <1>7, FilesAreKinds DEF SaveFile
    <2>2. DeployedTypes'
      <3>1. deployAt' \in DOMAIN Rank /\ deployAt' # "save" /\ nextFile' \in 1..7
        BY <2>1, Ranks
      <3>2. torn' \in BOOLEAN /\ moved' \in BOOLEAN
        BY <2>1
      <3> QED
        BY <1>1, <1>3, <2>1, <3>1, <3>2 DEF DeployedTypes
    <2>3. \A s \in DOMAIN Rank : ~Past(s)'
      <3>1. Rank[deployAt'] = 0
        BY <2>1, Ranks
      <3> QED
        BY <3>1, KindsAreSteps DEF Past
    <2>4. OneOfAKind'
      BY <1>1, <2>1 DEF OneOfAKind
    <2>5. DoneSoFar'
      BY <2>1, <2>3, Ranks DEF DoneSoFar, Givable
    <2>6. \A k \in Kinds : file'[k] = inst[k]
      BY <1>4, <1>7, FilesAreKinds
    <2>7. /\ Past("hub") /\ Past("setRegistrar") /\ Past("setRelayHub") /\ Past("setTrustedForwarder")
          /\ Past("registerForwarder") /\ Past("setMinimumStakes")
      BY <1>1, WhatIsPast, Ranks
    <2>8. /\ file'["hub"] = inst["hub"] /\ file'["registrar"] = inst["registrar"]
          /\ file'["stakeManager"] = inst["stakeManager"] /\ file'["penalizer"] = inst["penalizer"]
          /\ file'["paymaster"] = inst["paymaster"] /\ file'["forwarder"] = inst["forwarder"]
          /\ file'["token"] = inst["token"]
      BY <2>6, KindsAreSteps
    <2>9. hub[inst["hub"]].registrar = inst["registrar"] /\ Connected(inst)
      BY <2>7 DEF DoneSoFar
    <2>10. Connected(file)'
      BY <1>1, <2>8, <2>9 DEF Connected
    <2>11. Usable(file)'
      <3>1. Usable(inst)
        BY <2>7 DEF DoneSoFar, Usable
      <3> QED
        BY <1>1, <2>8, <3>1 DEF Usable
    <2>12. hub'[file'["hub"]].registrar = file'["registrar"]
      BY <1>1, <2>8, <2>9
    <2>13. FilesFit'
      <3>1. 1..nextFile' - 1 = {}
        BY <2>1
      <3> QED
        BY <2>10, <2>11, <2>12, <3>1 DEF FilesFit
    <2> QED
      BY <1>5, <2>2, <2>4, <2>5, <2>13
  <1> QED
    BY <1>2, <1>6, <1>7

LEMMA FailFits ==
    ASSUME DeploymentAssumption, DeploymentInv, Fail
    PROVE  DeploymentInv'
  <1> USE DEF DeploymentInv
  <1>1. /\ deployAt' = "idle" /\ nextFile' = 1 /\ torn' = (torn \/ nextFile > 1)
        /\ UNCHANGED <<made, hub, paymaster, registered, given, inst, file, moved, deployRuns>>
    BY DEF Fail
  <1>2. DeployedTypes'
    BY <1>1, Ranks DEF DeployedTypes
  <1>3. \A s \in DOMAIN Rank : ~Past(s)'
    <2>1. Rank[deployAt'] = 0
      BY <1>1, Ranks
    <2> QED
      BY <2>1, KindsAreSteps DEF Past
  <1>4. OneOfAKind'
    BY <1>1 DEF OneOfAKind
  <1>5. GivenFits'
    BY <1>1 DEF GivenFits
  <1>6. DoneSoFar'
    BY <1>1, <1>3, Ranks DEF DoneSoFar, Givable
  <1>7. FilesFit'
    <2>1. ~torn' => ~torn /\ nextFile = 1
      <3>1. nextFile > 1 \/ nextFile = 1
        BY DEF DeployedTypes
      <3> QED
        BY <1>1, <3>1
    <2>2. 1..nextFile' - 1 = {}
      BY <1>1
    <2>3. (Connected(file) => Connected(file)') /\ (Usable(file) => Usable(file)')
      BY <1>1 DEF Connected, Usable
    <2> QED
      BY <1>1, <2>1, <2>2, <2>3 DEF FilesFit
  <1> QED
    BY <1>2, <1>4, <1>5, <1>6, <1>7

LEMMA RunDeployFits ==
    ASSUME DeploymentAssumption, DeploymentInv, NEW a \in [Kinds -> Contracts], NEW testPaymaster \in BOOLEAN,
           RunDeploy(a, testPaymaster)
    PROVE  DeploymentInv'
  <1> USE DEF DeploymentInv
  <1>1. /\ deployAt = "idle" /\ deployRuns < MaxDeployRuns /\ \A k \in Kinds : a[k] <= made[k]
        /\ given' = [addresses |-> a, testPaymaster |-> testPaymaster]
        /\ inst' = NoContracts /\ deployAt' = "registrar" /\ deployRuns' = deployRuns + 1
        /\ UNCHANGED <<made, hub, paymaster, registered, nextFile, file, torn, moved>>
    BY DEF RunDeploy
  <1>2. a \in [Kinds -> Nat]
    BY DEF Contracts, DeploymentAssumption
  <1>3. inst' \in [Kinds -> Nat] /\ \A k \in Kinds : inst'[k] = 0 /\ made[k] \in Nat
    BY <1>1 DEF NoContracts, NotGiven, DeployedTypes
  <1>4. MaxDeployRuns \in Nat /\ deployRuns \in Nat /\ nextFile = 1
    BY <1>1 DEF DeploymentAssumption, DeployedTypes
  <1>5. DeployedTypes'
    <2>1. \A k \in Kinds : inst'[k] <= made[k] /\ file[k] <= made[k] /\ a[k] <= made[k]
      BY <1>1, <1>3 DEF DeployedTypes
    <2>2. given' \in [addresses : [Kinds -> Nat], testPaymaster : BOOLEAN] /\ given'.addresses = a
      BY <1>1, <1>2
    <2>3. deployAt' \in DOMAIN Rank
      BY <1>1, Ranks
    <2>4. deployRuns' \in 0..MaxDeployRuns
      BY <1>1, <1>4
    <2> QED
      BY <1>1, <1>3, <1>4, <2>1, <2>2, <2>3, <2>4 DEF DeployedTypes
  <1>6. \A s \in DOMAIN Rank : Past(s)' => s = "idle"
    <2>1. Rank[deployAt'] = 1
      BY <1>1, Ranks
    <2> QED
      BY <2>1, Ranks DEF Past
  <1>7. OneOfAKind'
    <2>1. ASSUME NEW k \in Kinds
          PROVE  made[k] < IF k = "token" THEN deployRuns' + 1 ELSE deployRuns'
      BY <1>1, <1>3, <1>4 DEF OneOfAKind
    <2>2. \A k \in Kinds : LET most == IF k = "token" THEN deployRuns' + 1 ELSE deployRuns'
                          IN  made[k] < most /\ made[k] <= most
      BY <1>1, <1>3, <1>4, <2>1
    <2> QED
      BY <1>1, <2>2 DEF OneOfAKind
  <1>8. GivenFits'
    <2>1. GivesParts /\ a["hub"] # NotGiven => \A k \in {"stakeManager", "penalizer"} : a[k] = hub[a["hub"]][k]
      BY DEF RunDeploy
    <2>2. given'.addresses = a /\ hub' = hub /\ made' = made
      BY <1>1
    <2> QED
      BY <2>1, <2>2 DEF GivenFits
  <1>9. DoneSoFar'
    <2>1. inst'["paymaster"] = NotGiven
      BY <1>3, KindsAreSteps DEF NotGiven
    <2>2. /\ ~Past("hub")' /\ ~Past("setRegistrar")' /\ ~Past("setRelayHub")' /\ ~Past("setTrustedForwarder")'
          /\ ~Past("registerForwarder")' /\ ~Past("setMinimumStakes")'
          /\ \A k \in Givable \cup {"token"} : ~Past(k)'
      BY <1>6, Ranks DEF Givable
    <2> QED
      BY <1>1, <2>1, <2>2 DEF DoneSoFar
  <1>10. FilesFit'
    <2>1. (Connected(file) => Connected(file)') /\ (Usable(file) => Usable(file)')
      BY <1>1 DEF Connected, Usable
    <2>2. 1..nextFile' - 1 = {}
      BY <1>1, <1>4
    <2> QED
      BY <1>1, <1>4, <2>1, <2>2 DEF FilesFit
  <1> QED
    BY <1>5, <1>7, <1>8, <1>9, <1>10

\* Each contract that a run works with fits the ones before it, and so do the saved ones.
THEOREM DeploymentInvariant ==
    ASSUME DeploymentAssumption
    PROVE  DeploymentSpec => []DeploymentInv
  <1>1. DeploymentInit => DeploymentInv
    BY DeploymentStarts
  <1>2. DeploymentInv /\ [DeploymentNext]_deploymentVars => DeploymentInv'
    <2> SUFFICES ASSUME DeploymentInv, [DeploymentNext]_deploymentVars
                 PROVE  DeploymentInv'
      OBVIOUS
    <2>1. CASE DeploymentNext
      BY <2>1, RunDeployFits, DeployContractFits, DeployHubFits, SetRegistrarFits, DeployPaymasterFits,
         NoPaymasterFits, SetRelayHubFits, SetTrustedForwarderFits, RegisterForwarderFits, DeployTokenFits,
         SetMinimumStakesFits, InitInteractorFits, SaveFileFits, FailFits DEF DeploymentNext, DeployContract
    <2>2. CASE UNCHANGED deploymentVars
      BY <2>2 DEF deploymentVars, DeploymentInv, DeployedTypes, OneOfAKind, GivenFits, DoneSoFar, FilesFit, Past,
                  Connected, Usable
    <2> QED
      BY <2>1, <2>2
  <1> QED
    BY <1>1, <1>2, PTL DEF DeploymentSpec

LEMMA DeploymentIsFit ==
    ASSUME DeploymentAssumption, DeploymentInv
    PROVE  DeploymentFits
  <1> USE DEF DeploymentInv
  <1>1. DeploymentTypeOK
    <2>1. DOMAIN made = Kinds /\ DOMAIN inst = Kinds /\ DOMAIN file = Kinds
      BY DEF DeployedTypes
    <2>2. ASSUME NEW k \in Kinds
          PROVE  made[k] \in 0..MaxDeployRuns + 1 /\ {inst[k], file[k], given.addresses[k]} \subseteq 0..made[k]
      <3>1. /\ made[k] \in Nat /\ inst[k] \in 0..made[k] /\ file[k] \in 0..made[k]
            /\ given.addresses[k] \in 0..made[k] /\ deployRuns \in Nat /\ deployRuns <= MaxDeployRuns
            /\ MaxDeployRuns \in Nat
        BY Numbered
      <3>2. made[k] <= deployRuns + 1
        BY <3>1 DEF OneOfAKind
      <3> QED
        BY <3>1, <3>2
    <2>3. deployAt \in DOMAIN Following \union {"idle", "save"}
      <3>1. DOMAIN Following = {"registrar", "stakeManager", "penalizer", "forwarder", "hub", "setRegistrar",
                                "paymaster", "setRelayHub", "setTrustedForwarder", "registerForwarder", "token",
                                "setMinimumStakes", "initDeployment"}
        BY DEF Following
      <3> QED
        BY <3>1, Ranks DEF DeployedTypes
    <2>4. nextFile \in 1..Len(Files) /\ registered \subseteq 1..made["forwarder"]
      BY FilesAreKinds DEF DeployedTypes
    <2>5. torn \in BOOLEAN /\ deployRuns \in 0..MaxDeployRuns
      BY DEF DeployedTypes
    <2> QED
      BY <2>1, <2>2, <2>3, <2>4, <2>5 DEF DeploymentTypeOK
  <1>2. ASSUME Saved
        PROVE  Connected(file) /\ Usable(file) /\ (moved \/ hub[file["hub"]].registrar = file["registrar"])
    <2>1. nextFile = 1 /\ ~torn /\ file["hub"] # NotGiven
      BY <1>2 DEF Saved, DeployedTypes
    <2> QED
      BY <2>1 DEF FilesFit
  <1>3. HubIsConnected
    BY <1>2 DEF HubIsConnected, Connected
  <1>4. DeploymentIsUsable
    <2>1. file["paymaster"] \in Contracts
      BY Numbered, KindsAreSteps DEF Contracts
    <2>2. ASSUME Saved, file["paymaster"] # NotGiven
          PROVE  paymaster[file["paymaster"]] = [hub |-> file["hub"], forwarder |-> file["forwarder"]]
      <3>1. /\ paymaster[file["paymaster"]].hub = file["hub"]
            /\ paymaster[file["paymaster"]].forwarder = file["forwarder"]
        BY <1>2, <2>2 DEF Usable
      <3>2. paymaster[file["paymaster"]] \in [hub : Nat, forwarder : Nat]
        BY <2>1 DEF DeployedTypes
      <3> QED
        BY <3>1, <3>2
    <2> QED
      BY <1>2, <2>2 DEF DeploymentIsUsable, Usable
  <1> QED
    BY <1>1, <1>3, <1>4 DEF DeploymentFits

\* The addresses a client resolved and the addresses a run saved are of contracts that
\* work together.
THEOREM ContractsDoFit ==
    ASSUME ResolutionAssumption, DeploymentAssumption
    PROVE  ResolutionSpec /\ DeploymentSpec => []ContractsFit
  <1>1. ResolutionInv => ResolutionFits
    BY ResolutionIsFit
  <1>2. DeploymentInv => DeploymentFits
    BY DeploymentIsFit
  <1>3. ResolutionInv /\ DeploymentInv => ContractsFit
    BY <1>1, <1>2 DEF ContractsFit
  <1>4. ResolutionSpec => []ResolutionInv
    BY ResolutionInvariant
  <1>5. DeploymentSpec => []DeploymentInv
    BY DeploymentInvariant
  <1> QED
    BY <1>3, <1>4, <1>5, PTL

-----------------------------------------------------------------------------
(* Initialising the client                                                 *)

\* What an init has resolved and installed, and what is installed once it has ended.
CallOK(c) ==
    /\ callAt[c] \in Starts => KindOf[c] \in {"init", "tokenInit", "send"}
    /\ callAt[c] = "relay" => KindOf[c] = "send"
    /\ callAt[c] = "deps" =>
         resolved[c] # "none" /\ (KindOf[c] = "tokenInit" => resolved[c] = "token")
    /\ callAt[c] = "check" => deps.paymaster # "none"

\* When nothing is called during an init: one call initialises the client, that was not
\* initialised; a token paymaster that was asked for is installed; no key is missing.
CallAlone(c) ==
    /\ callAt[c] \in Starts =>
         ~initialized /\ \A d \in AppCalls : callAt[d] \in Starts => d = c
    /\ callAt[c] = "check" /\ KindOf[c] = "tokenInit" => deps.paymaster = "token"
    /\ callAt[c] = "done" /\ KindOf[c] = "tokenInit" => initialized /\ deps.paymaster = "token"
    /\ callAt[c] # "wallet"

\* The keys of the accounts that were handed out are in the installed account manager.
HandedOK == handed \subseteq deps.accounts /\ (~initialized => handed = {})

SetupInv ==
    /\ SetupTypeOK
    /\ \A c \in AppCalls : CallOK(c)
    /\ ~Eager => HandedOK /\ \A c \in AppCalls : CallAlone(c)

LEMMA SetupInvInit == SetupInit => SetupInv
  <1> SUFFICES ASSUME SetupInit PROVE SetupInv OBVIOUS
  <1>1. MaxInitFailures \in Nat BY InitAssumption
  <1>2. 0 \in 0..MaxInitFailures BY <1>1
  <1>3. SetupTypeOK BY <1>2 DEF SetupInit, SetupTypeOK, PaymasterKinds
  <1>4. ASSUME NEW c \in AppCalls PROVE CallOK(c) /\ CallAlone(c)
    BY DEF SetupInit, CallOK, CallAlone, Starts
  <1>5. HandedOK BY DEF SetupInit, HandedOK
  <1> QED BY <1>3, <1>4, <1>5 DEF SetupInv

\* What a step does to the place of a call.
LEMMA GoOnTo ==
    ASSUME NEW c \in AppCalls, NEW where \in {"idle", "relay", "done", "thrown", "wallet"} \cup Starts,
           SetupTypeOK, GoOn(c, where)
    PROVE  /\ callAt' \in [AppCalls -> {"idle", "relay", "done", "thrown", "wallet"} \cup Starts]
           /\ callAt'[c] = where
           /\ \A d \in AppCalls : d # c => callAt'[d] = callAt[d]
  BY DEF GoOn, SetupTypeOK

\* A call that is made while none initialises the client.
LEMMA NoneInitialises ==
    ASSUME NEW c \in AppCalls, MayCall(c), ~Eager
    PROVE  \A d \in AppCalls : callAt[d] \notin Starts
  BY DEF MayCall

LEMMA StartInitSetup == ASSUME SetupInv, NEW c \in AppCalls, StartInit(c) PROVE SetupInv'
  <1>1. CASE Already
    <2>1. GoOn(c, "thrown") BY <1>1 DEF StartInit
    <2>2. /\ callAt'[c] = "thrown"
          /\ \A d \in AppCalls : d # c => callAt'[d] = callAt[d]
          /\ callAt' \in [AppCalls -> {"idle", "relay", "done", "thrown", "wallet"} \cup Starts]
      BY <2>1, GoOnTo DEF SetupInv
    <2>3. UNCHANGED <<initialized, config, resolved, deps, handed, initFailures>> BY DEF StartInit
    <2>4. SetupTypeOK' BY <2>2, <2>3 DEF SetupInv, SetupTypeOK
    <2>5. ASSUME NEW d \in AppCalls PROVE CallOK(d)'
      BY <2>2, <2>3 DEF SetupInv, CallOK, Starts
    <2>6. ASSUME ~Eager, NEW d \in AppCalls PROVE CallAlone(d)'
      BY <2>2, <2>3, <2>6 DEF SetupInv, CallAlone, Starts
    <2>7. ~Eager => HandedOK' BY <2>3 DEF SetupInv, HandedOK
    <2> QED BY <2>4, <2>5, <2>6, <2>7 DEF SetupInv
  <1>2. CASE ~Already
    <2>1. GoOn(c, "config") /\ KindOf[c] \in {"init", "tokenInit"} /\ MayCall(c) BY <1>2 DEF StartInit
    <2>2. /\ callAt'[c] = "config"
          /\ \A d \in AppCalls : d # c => callAt'[d] = callAt[d]
          /\ callAt' \in [AppCalls -> {"idle", "relay", "done", "thrown", "wallet"} \cup Starts]
      BY <2>1, GoOnTo DEF SetupInv, Starts
    <2>3. UNCHANGED <<initialized, config, resolved, deps, handed, initFailures>> BY DEF StartInit
    <2>4. SetupTypeOK' BY <2>2, <2>3 DEF SetupInv, SetupTypeOK
    <2>5. ASSUME NEW d \in AppCalls PROVE CallOK(d)'
      BY <2>1, <2>2, <2>3 DEF SetupInv, CallOK, Starts
    <2>6. ASSUME ~Eager, NEW d \in AppCalls PROVE CallAlone(d)'
      <3>1. \A e \in AppCalls : callAt[e] \notin Starts BY <2>1, <2>6, NoneInitialises
      <3>2. ~initialized BY <1>2 DEF Already
      <3> QED BY <2>2, <2>3, <2>6, <3>1, <3>2 DEF SetupInv, CallAlone, Starts
    <2>7. ~Eager => HandedOK' BY <2>3 DEF SetupInv, HandedOK
    <2> QED BY <2>4, <2>5, <2>6, <2>7 DEF SetupInv
  <1> QED BY <1>1, <1>2

LEMMA StartSendSetup == ASSUME SetupInv, NEW c \in AppCalls, StartSend(c) PROVE SetupInv'
  <1> DEFINE where == IF SendInits THEN "config" ELSE "relay"
  <1>1. GoOn(c, where) /\ KindOf[c] = "send" /\ MayCall(c) BY DEF StartSend
  <1>2. where \in {"config", "relay"} /\ (where = "config" => ~initialized) BY DEF SendInits
  <1>3. /\ callAt'[c] = where
        /\ \A d \in AppCalls : d # c => callAt'[d] = callAt[d]
        /\ callAt' \in [AppCalls -> {"idle", "relay", "done", "thrown", "wallet"} \cup Starts]
    BY <1>1, <1>2, GoOnTo DEF SetupInv, Starts
  <1> HIDE DEF where
  <1>4. UNCHANGED <<initialized, config, resolved, deps, handed, initFailures>> BY DEF StartSend
  <1>5. SetupTypeOK' BY <1>3, <1>4 DEF SetupInv, SetupTypeOK
  <1>6. ASSUME NEW d \in AppCalls PROVE CallOK(d)'
    BY <1>1, <1>2, <1>3, <1>4 DEF SetupInv, CallOK, Starts
  <1>7. ASSUME ~Eager, NEW d \in AppCalls PROVE CallAlone(d)'
    <2>1. \A e \in AppCalls : callAt[e] \notin Starts BY <1>1, <1>7, NoneInitialises
    <2> QED BY <1>1, <1>2, <1>3, <1>4, <1>7, <2>1 DEF SetupInv, CallAlone, Starts
  <1>8. ~Eager => HandedOK' BY <1>4 DEF SetupInv, HandedOK
  <1> QED BY <1>5, <1>6, <1>7, <1>8 DEF SetupInv

LEMMA ConfigurationSetup ==
    ASSUME SetupInv, NEW c \in AppCalls, ResolveConfiguration(c) PROVE SetupInv'
  <1>1. GoOn(c, "deps") /\ callAt[c] = "config" BY DEF ResolveConfiguration
  <1>2. /\ callAt'[c] = "deps"
        /\ \A d \in AppCalls : d # c => callAt'[d] = callAt[d]
        /\ callAt' \in [AppCalls -> {"idle", "relay", "done", "thrown", "wallet"} \cup Starts]
    BY <1>1, GoOnTo DEF SetupInv, Starts
  <1>3. /\ config' \in {"plain", "token"} /\ (KindOf[c] = "tokenInit" => config' = "token")
        /\ resolved' = [resolved EXCEPT ![c] = config']
    BY DEF ResolveConfiguration
  <1>4. UNCHANGED <<initialized, deps, handed, initFailures>> BY DEF ResolveConfiguration
  <1>5. SetupTypeOK' BY <1>2, <1>3, <1>4 DEF SetupInv, SetupTypeOK, PaymasterKinds
  <1>6. resolved'[c] = config' /\ \A d \in AppCalls : d # c => resolved'[d] = resolved[d]
    BY <1>3 DEF SetupInv, SetupTypeOK
  <1>7. ASSUME NEW d \in AppCalls PROVE CallOK(d)'
    BY <1>1, <1>2, <1>3, <1>4, <1>6 DEF SetupInv, CallOK, Starts
  <1>8. ASSUME ~Eager, NEW d \in AppCalls PROVE CallAlone(d)'
    BY <1>1, <1>2, <1>4, <1>8 DEF SetupInv, CallAlone, Starts
  <1>9. ~Eager => HandedOK' BY <1>4 DEF SetupInv, HandedOK
  <1> QED BY <1>5, <1>7, <1>8, <1>9 DEF SetupInv

LEMMA DependenciesSetup ==
    ASSUME SetupInv, NEW c \in AppCalls, ResolveDependencies(c) PROVE SetupInv'
  <1>1. GoOn(c, "check") /\ callAt[c] = "deps" BY DEF ResolveDependencies
  <1>2. /\ callAt'[c] = "check"
        /\ \A d \in AppCalls : d # c => callAt'[d] = callAt[d]
        /\ callAt' \in [AppCalls -> {"idle", "relay", "done", "thrown", "wallet"} \cup Starts]
    BY <1>1, GoOnTo DEF SetupInv, Starts
  <1>3. UNCHANGED <<initialized, config, resolved, handed, initFailures>> BY DEF ResolveDependencies
  <1>4. /\ deps'.paymaster = resolved[c] /\ deps'.accounts = {}
        /\ deps' = [paymaster |-> resolved[c], accounts |-> {}]
    BY DEF ResolveDependencies
  <1>5. resolved[c] \in PaymasterKinds /\ resolved[c] # "none" /\ (KindOf[c] = "tokenInit" => resolved[c] = "token")
    BY <1>1 DEF SetupInv, SetupTypeOK, CallOK
  <1>6. SetupTypeOK' BY <1>2, <1>3, <1>4, <1>5 DEF SetupInv, SetupTypeOK
  <1>7. ASSUME NEW d \in AppCalls PROVE CallOK(d)'
    BY <1>1, <1>2, <1>3, <1>4, <1>5 DEF SetupInv, CallOK, Starts
  <1>8. ASSUME ~Eager, NEW d \in AppCalls PROVE CallAlone(d)'
    <2>1. ~initialized /\ \A e \in AppCalls : callAt[e] \in Starts => e = c
      BY <1>1, <1>8 DEF SetupInv, CallAlone, Starts
    <2>2. CallAlone(d) BY <1>8 DEF SetupInv
    <2> QED BY <1>1, <1>2, <1>3, <1>4, <1>5, <2>1, <2>2 DEF CallAlone, Starts
  <1>9. ASSUME ~Eager PROVE HandedOK'
    <2>1. ~initialized /\ handed = {} BY <1>1, <1>9 DEF SetupInv, CallAlone, HandedOK, Starts
    <2> QED BY <1>3, <2>1 DEF HandedOK
  <1> QED BY <1>6, <1>7, <1>8, <1>9 DEF SetupInv

LEMMA EndInitSetup == ASSUME SetupInv, NEW c \in AppCalls, EndInit(c) PROVE SetupInv'
  <1> DEFINE where == IF KindOf[c] = "send" THEN "relay" ELSE "done"
  <1>1. GoOn(c, where) /\ callAt[c] = "check" /\ initialized' = TRUE BY DEF EndInit
  <1>2. where \in {"relay", "done"} /\ (where = "relay" => KindOf[c] = "send") /\ (KindOf[c] = "tokenInit" => where = "done")
    OBVIOUS
  <1>3. /\ callAt'[c] = where
        /\ \A d \in AppCalls : d # c => callAt'[d] = callAt[d]
        /\ callAt' \in [AppCalls -> {"idle", "relay", "done", "thrown", "wallet"} \cup Starts]
    BY <1>1, <1>2, GoOnTo DEF SetupInv, Starts
  <1> HIDE DEF where
  <1>4. UNCHANGED <<config, resolved, deps, handed, initFailures>> BY DEF EndInit
  <1>5. deps.paymaster # "none" BY <1>1 DEF SetupInv, CallOK
  <1>6. SetupTypeOK' BY <1>1, <1>3, <1>4, <1>5 DEF SetupInv, SetupTypeOK
  <1>7. ASSUME NEW d \in AppCalls PROVE CallOK(d)'
    BY <1>1, <1>2, <1>3, <1>4 DEF SetupInv, CallOK, Starts
  <1>8. ASSUME ~Eager, NEW d \in AppCalls PROVE CallAlone(d)'
    <2>1. CallAlone(c) /\ CallAlone(d) BY <1>8 DEF SetupInv
    <2>2. d # c => callAt[d] \notin Starts BY <1>1, <2>1 DEF CallAlone, Starts
    <2> QED BY <1>1, <1>2, <1>3, <1>4, <2>1, <2>2 DEF CallAlone, Starts
  <1>9. ~Eager => HandedOK' BY <1>1, <1>4 DEF SetupInv, HandedOK
  <1> QED BY <1>6, <1>7, <1>8, <1>9 DEF SetupInv

LEMMA FailInitSetup == ASSUME SetupInv, NEW c \in AppCalls, FailInit(c) PROVE SetupInv'
  <1>1. GoOn(c, "thrown") /\ callAt[c] \in Starts BY DEF FailInit
  <1>2. /\ callAt'[c] = "thrown"
        /\ \A d \in AppCalls : d # c => callAt'[d] = callAt[d]
        /\ callAt' \in [AppCalls -> {"idle", "relay", "done", "thrown", "wallet"} \cup Starts]
    BY <1>1, GoOnTo DEF SetupInv, Starts
  <1>3. UNCHANGED <<initialized, config, resolved, deps, handed>> BY DEF FailInit
  <1>4. initFailures' \in 0..MaxInitFailures BY InitAssumption DEF FailInit, SetupInv, SetupTypeOK
  <1>5. SetupTypeOK' BY <1>2, <1>3, <1>4 DEF SetupInv, SetupTypeOK
  <1>6. ASSUME NEW d \in AppCalls PROVE CallOK(d)'
    BY <1>2, <1>3 DEF SetupInv, CallOK, Starts
  <1>7. ASSUME ~Eager, NEW d \in AppCalls PROVE CallAlone(d)'
    BY <1>1, <1>2, <1>3, <1>7 DEF SetupInv, CallAlone, Starts
  <1>8. ~Eager => HandedOK' BY <1>3 DEF SetupInv, HandedOK
  <1> QED BY <1>5, <1>6, <1>7, <1>8 DEF SetupInv

LEMMA NewAccountSetup == ASSUME SetupInv, NEW c \in AppCalls, NewAccount(c) PROVE SetupInv'
  <1>1. KindOf[c] = "account" /\ UNCHANGED <<initialized, config, resolved, initFailures>> BY DEF NewAccount
  <1>2. c \in Accounts BY <1>1 DEF Accounts
  <1>3. PICK where \in {"done", "thrown"} : GoOn(c, where) BY DEF NewAccount
  <1>4. /\ callAt'[c] = where
        /\ \A d \in AppCalls : d # c => callAt'[d] = callAt[d]
        /\ callAt' \in [AppCalls -> {"idle", "relay", "done", "thrown", "wallet"} \cup Starts]
    BY <1>3, GoOnTo DEF SetupInv, Starts
  <1>5. \/ initialized /\ deps' = [deps EXCEPT !.accounts = @ \cup {c}] /\ handed' = handed \cup {c}
        \/ ~initialized /\ UNCHANGED <<deps, handed>>
    BY DEF NewAccount
  <1>6. deps \in [paymaster : PaymasterKinds, accounts : SUBSET Accounts] BY DEF SetupInv, SetupTypeOK
  <1>7. /\ deps'.paymaster = deps.paymaster
        /\ deps' \in [paymaster : PaymasterKinds, accounts : SUBSET Accounts]
    BY <1>2, <1>5, <1>6
  <1>8. handed' \subseteq Accounts BY <1>2, <1>5 DEF SetupInv, SetupTypeOK
  <1>9. SetupTypeOK' BY <1>1, <1>4, <1>7, <1>8 DEF SetupInv, SetupTypeOK
  <1>10. ASSUME NEW d \in AppCalls PROVE CallOK(d)'
    BY <1>1, <1>4, <1>7 DEF SetupInv, CallOK, Starts
  <1>11. ASSUME ~Eager, NEW d \in AppCalls PROVE CallAlone(d)'
    BY <1>1, <1>4, <1>7, <1>11 DEF SetupInv, CallAlone, Starts
  <1>12. ASSUME ~Eager PROVE HandedOK'
    <2>1. HandedOK BY <1>12 DEF SetupInv
    <2> QED BY <1>1, <1>5, <1>6, <2>1 DEF HandedOK
  <1> QED BY <1>9, <1>10, <1>11, <1>12 DEF SetupInv

\* A signature is made here or by the wallet, or there is nothing to sign.
LEMMA SignedSetup ==
    ASSUME SetupInv, NEW c \in AppCalls, KindOf[c] \in {"sign", "send"},
           NEW where \in {"done", "wallet"}, GoOn(c, where), ~Eager => where = "done",
           UNCHANGED <<initialized, config, resolved, deps, handed, initFailures>>
    PROVE  SetupInv'
  <1>1. /\ callAt'[c] = where
        /\ \A d \in AppCalls : d # c => callAt'[d] = callAt[d]
        /\ callAt' \in [AppCalls -> {"idle", "relay", "done", "thrown", "wallet"} \cup Starts]
    BY GoOnTo DEF SetupInv, Starts
  <1>2. SetupTypeOK' BY <1>1 DEF SetupInv, SetupTypeOK
  <1>3. ASSUME NEW d \in AppCalls PROVE CallOK(d)'
    BY <1>1 DEF SetupInv, CallOK, Starts
  <1>4. ASSUME ~Eager, NEW d \in AppCalls PROVE CallAlone(d)'
    BY <1>1, <1>4 DEF SetupInv, CallAlone, Starts
  <1>5. ~Eager => HandedOK' BY DEF SetupInv, HandedOK
  <1> QED BY <1>2, <1>3, <1>4, <1>5 DEF SetupInv

LEMMA SignedHere ==
    ASSUME SetupInv, NEW account \in handed
    PROVE  Signed(account) \in {"done", "wallet"} /\ (~Eager => Signed(account) = "done")
  BY DEF Signed, SetupInv, HandedOK

LEMMA SignDataSetup == ASSUME SetupInv, NEW c \in AppCalls, SignData(c) PROVE SetupInv'
  <1>1. PICK account \in handed : GoOn(c, Signed(account)) BY DEF SignData
  <1> QED BY <1>1, SignedHere, SignedSetup DEF SignData

LEMMA SignRequestSetup == ASSUME SetupInv, NEW c \in AppCalls, SignRequest(c) PROVE SetupInv'
  <1>1. KindOf[c] = "send" BY DEF SignRequest, SetupInv, CallOK
  <1>2. PICK where \in {"done", "wallet"} : GoOn(c, where) /\ (~Eager => where = "done")
    BY SignedHere DEF SignRequest
  <1> QED BY <1>1, <1>2, SignedSetup DEF SignRequest

LEMMA SetupInvNext == SetupInv /\ [SetupNext]_setupVars => SetupInv'
  <1> SUFFICES ASSUME SetupInv, [SetupNext]_setupVars PROVE SetupInv' OBVIOUS
  <1>1. CASE UNCHANGED setupVars
    BY <1>1 DEF setupVars, SetupInv, SetupTypeOK, CallOK, CallAlone, HandedOK
  <1>2. CASE SetupNext
    <2>1. PICK c \in AppCalls : StartInit(c) \/ StartSend(c) \/ InitStep(c) \/ NewAccount(c) \/ SignData(c) \/ SignRequest(c)
      BY <1>2 DEF SetupNext
    <2> QED BY <2>1, StartInitSetup, StartSendSetup, ConfigurationSetup, DependenciesSetup, EndInitSetup,
               FailInitSetup, NewAccountSetup, SignDataSetup, SignRequestSetup DEF InitStep
  <1> QED BY <1>1, <1>2

LEMMA SetupInvKeeps == SetupInv => SetupTypeOK /\ (~Eager => KeysKept /\ TokenPaymasterKept)
  BY DEF SetupInv, CallAlone, KeysKept, TokenPaymasterKept

\* A client that initialises keeps the keys it handed out and the paymaster it was asked
\* for, for any calls of the application and any failures (init, _resolveDependencies).
THEOREM SetupInvariant == SetupSpec => []SetupInv
  BY SetupInvInit, SetupInvNext, PTL DEF SetupSpec

-----------------------------------------------------------------------------
(* Receipts                                                                *)

\* What was mined of a request is younger than the block read before its relays were asked.
EventOK(r, i) ==
    /\ submitted[r].block < hubEvents[r][i].block /\ hubEvents[r][i].block <= head
    /\ hubEvents[r][i].ok => hubEvents[r][i].name = "relayed"

RunOnce(r) == \A i, j \in Relayed(r) : i = j

\* What is remembered of a request is what was sent, and a success that was told is one.
AnswerOK(r) ==
    /\ Remembered(r) => submitted[r].at = "sent" /\ cache[r] = Details(r)
    /\ receipt[r] = "success" => submitted[r].at = "sent" /\ Succeeded(r)

MinedOK(r) ==
    /\ submitted[r].at = "idle" => hubEvents[r] = <<>>
    /\ submitted[r].at # "idle" => submitted[r].block >= 0
    /\ \A i \in DOMAIN hubEvents[r] : EventOK(r, i)
    /\ RunOnce(r)

ReceiptsInv == ReceiptsTypeOK /\ \A r \in AppRequests : MinedOK(r) /\ AnswerOK(r)

SubmittedRequest == [at : {"idle", "relaying", "sent"}, block : Int, validUntil : Int]

LEMMA ReceiptsInvInit == ReceiptsInit => ReceiptsInv
  <1> SUFFICES ASSUME ReceiptsInit PROVE ReceiptsInv OBVIOUS
  <1>1. MaxClock \in Nat /\ LastBlock \in Nat BY ReceiptsAssumption
  <1>2. ReceiptsTypeOK
    BY <1>1 DEF ReceiptsInit, ReceiptsTypeOK, SubmittedInfo, NotRemembered, Answers
  <1>3. ASSUME NEW r \in AppRequests PROVE MinedOK(r) /\ AnswerOK(r)
    <2>1. /\ hubEvents[r] = <<>> /\ submitted[r].at = "idle" /\ cache[r] = NotRemembered
          /\ receipt[r] = "unasked"
      BY DEF ReceiptsInit
    <2>2. DOMAIN hubEvents[r] = {} BY <2>1
    <2> QED BY <2>1, <2>2 DEF MinedOK, AnswerOK, RunOnce, Relayed, Remembered
  <1> QED BY <1>2, <1>3 DEF ReceiptsInv

\* What the type says of one request.
LEMMA RequestTypes ==
    ASSUME ReceiptsTypeOK, NEW r \in AppRequests
    PROVE  /\ submitted[r] \in SubmittedRequest /\ submitted[r].block <= head /\ submitted[r].block >= -1
           /\ cache[r] \in SubmittedInfo /\ hubEvents[r] \in Seq(Events) /\ receipt[r] \in Answers
           /\ head \in Nat /\ clock \in Nat
           /\ \A i \in DOMAIN hubEvents[r] : hubEvents[r][i] \in Events /\ i \in Nat
  <1>1. LastBlock \in Nat /\ MaxClock \in Nat BY ReceiptsAssumption
  <1>2. head \in Nat /\ clock \in Nat BY <1>1 DEF ReceiptsTypeOK
  <1>3. submitted[r] \in [at : {"idle", "relaying", "sent"}, block : -1..head, validUntil : Int]
    BY DEF ReceiptsTypeOK
  <1>4. submitted[r] \in SubmittedRequest /\ submitted[r].block <= head /\ submitted[r].block >= -1
    BY <1>2, <1>3 DEF SubmittedRequest
  <1>5. cache[r] \in SubmittedInfo /\ hubEvents[r] \in Seq(Events) /\ receipt[r] \in Answers
    BY DEF ReceiptsTypeOK
  <1>6. \A i \in DOMAIN hubEvents[r] : hubEvents[r][i] \in Events /\ i \in Nat BY <1>5
  <1> QED BY <1>2, <1>4, <1>5, <1>6

\* A step that mines nothing of a request, and keeps its first block, keeps what is known of
\* what was mined of it.
LEMMA MinedKept ==
    ASSUME NEW r \in AppRequests, ReceiptsTypeOK, MinedOK(r), hubEvents'[r] = hubEvents[r],
           submitted'[r].block = submitted[r].block, head' \in Nat, head' >= head,
           submitted'[r].at = "idle" <=> submitted[r].at = "idle"
    PROVE  MinedOK(r)'
  <1>1. Relayed(r)' = Relayed(r) BY DEF Relayed
  <1>2. ASSUME NEW i \in DOMAIN hubEvents[r] PROVE EventOK(r, i)'
    <2>1. EventOK(r, i) BY DEF MinedOK
    <2>2. hubEvents[r][i] \in Events /\ head \in Nat BY RequestTypes
    <2>3. hubEvents[r][i].block \in Nat BY <2>2 DEF Events
    <2> QED BY <2>1, <2>2, <2>3 DEF EventOK
  <1> QED BY <1>1, <1>2 DEF MinedOK, RunOnce

LEMMA AnswerKept ==
    ASSUME NEW r \in AppRequests, AnswerOK(r), submitted'[r] = submitted[r], cache'[r] = cache[r],
           hubEvents'[r] = hubEvents[r], receipt'[r] = receipt[r]
    PROVE  AnswerOK(r)'
  BY DEF AnswerOK, Remembered, Details, Succeeded

LEMMA SendRequestInv == ASSUME ReceiptsInv, NEW r \in AppRequests, SendRequest(r) PROVE ReceiptsInv'
  <1>1. /\ submitted[r].at = "idle"
        /\ submitted' = [submitted EXCEPT ![r] = [at |-> "relaying", block |-> head, validUntil |-> clock + Valid]]
        /\ UNCHANGED <<clock, head, cache, hubEvents, receipt>>
    BY DEF SendRequest
  <1>2. head \in Nat /\ clock \in Nat /\ Valid \in Nat BY RequestTypes, ReceiptsAssumption DEF ReceiptsInv
  <1>3. [at |-> "relaying", block |-> head, validUntil |-> clock + Valid]
          \in [at : {"idle", "relaying", "sent"}, block : -1..head, validUntil : Int]
    BY <1>2
  <1>4. submitted \in [AppRequests -> [at : {"idle", "relaying", "sent"}, block : -1..head, validUntil : Int]]
    BY DEF ReceiptsInv, ReceiptsTypeOK
  <1>5. submitted' \in [AppRequests -> [at : {"idle", "relaying", "sent"}, block : -1..head, validUntil : Int]]
    BY <1>1, <1>3, <1>4
  <1>6. ReceiptsTypeOK' BY <1>1, <1>5 DEF ReceiptsInv, ReceiptsTypeOK
  <1>7. ASSUME NEW s \in AppRequests PROVE MinedOK(s)' /\ AnswerOK(s)'
    <2>1. CASE s = r
      <3>1. submitted'[s].at = "relaying" /\ submitted'[s].block = head BY <1>1, <1>4, <2>1
      <3>2. hubEvents[s] = <<>> /\ MinedOK(s) /\ AnswerOK(s) BY <1>1, <2>1 DEF ReceiptsInv, MinedOK
      <3>3. DOMAIN hubEvents[s] = {} BY <3>2
      <3>4. MinedOK(s)' BY <1>1, <1>2, <3>1, <3>2, <3>3 DEF MinedOK, RunOnce, Relayed
      <3>5. ~Remembered(s) /\ receipt[s] # "success" BY <1>1, <2>1, <3>2 DEF AnswerOK
      <3>6. AnswerOK(s)' BY <1>1, <3>5 DEF AnswerOK, Remembered
      <3> QED BY <3>4, <3>6
    <2>2. CASE s # r
      <3>1. submitted'[s] = submitted[s] BY <1>1, <1>4, <2>2
      <3>2. head' \in Nat /\ head' >= head BY <1>1, <1>2
      <3>3. MinedOK(s)' BY <1>1, <3>1, <3>2, MinedKept DEF ReceiptsInv
      <3>4. AnswerOK(s)' BY <1>1, <3>1, AnswerKept DEF ReceiptsInv
      <3> QED BY <3>3, <3>4
    <2> QED BY <2>1, <2>2
  <1> QED BY <1>6, <1>7 DEF ReceiptsInv

LEMMA RequestSentInv == ASSUME ReceiptsInv, NEW r \in AppRequests, RequestSent(r) PROVE ReceiptsInv'
  <1>1. /\ submitted[r].at = "relaying"
        /\ submitted' = [submitted EXCEPT ![r].at = "sent"]
        /\ cache' = [cache EXCEPT ![r] = Details(r)]
        /\ UNCHANGED <<clock, head, hubEvents, receipt>>
    BY DEF RequestSent
  <1>2. head \in Nat BY RequestTypes DEF ReceiptsInv
  <1>3. /\ submitted \in [AppRequests -> [at : {"idle", "relaying", "sent"}, block : -1..head, validUntil : Int]]
        /\ cache \in [AppRequests -> SubmittedInfo]
    BY DEF ReceiptsInv, ReceiptsTypeOK
  <1>4. submitted' \in [AppRequests -> [at : {"idle", "relaying", "sent"}, block : -1..head, validUntil : Int]]
    BY <1>1, <1>3
  <1>5. Details(r) \in SubmittedInfo BY <1>2, <1>3 DEF Details, SubmittedInfo
  <1>6. cache' \in [AppRequests -> SubmittedInfo] BY <1>1, <1>3, <1>5
  <1>7. ReceiptsTypeOK' BY <1>1, <1>4, <1>6 DEF ReceiptsInv, ReceiptsTypeOK
  <1>8. head' \in Nat /\ head' >= head BY <1>1, <1>2
  <1>9. ASSUME NEW s \in AppRequests PROVE MinedOK(s)' /\ AnswerOK(s)'
    <2>1. CASE s = r
      <3>1. /\ submitted'[s].at = "sent" /\ submitted'[s].block = submitted[s].block
            /\ submitted'[s].validUntil = submitted[s].validUntil /\ cache'[s] = Details(s)
        BY <1>1, <1>3, <2>1
      <3>2. MinedOK(s)' BY <1>1, <1>8, <2>1, <3>1, MinedKept DEF ReceiptsInv
      <3>3. AnswerOK(s) BY DEF ReceiptsInv
      <3>4. Details(s)' = Details(s) BY <3>1 DEF Details
      <3>5. AnswerOK(s)' BY <1>1, <3>1, <3>3, <3>4 DEF AnswerOK, Succeeded
      <3> QED BY <3>2, <3>5
    <2>2. CASE s # r
      <3>1. submitted'[s] = submitted[s] /\ cache'[s] = cache[s] BY <1>1, <1>3, <2>2
      <3>2. MinedOK(s)' BY <1>1, <1>8, <3>1, MinedKept DEF ReceiptsInv
      <3>3. AnswerOK(s)' BY <1>1, <3>1, AnswerKept DEF ReceiptsInv
      <3> QED BY <3>2, <3>3
    <2> QED BY <2>1, <2>2
  <1> QED BY <1>7, <1>9 DEF ReceiptsInv

LEMMA AppRestartInv == ASSUME ReceiptsInv, AppRestart PROVE ReceiptsInv'
  <1>1. /\ cache' = [r \in AppRequests |-> NotRemembered]
        /\ UNCHANGED <<clock, head, submitted, hubEvents, receipt>>
    BY DEF AppRestart
  <1>2. NotRemembered \in SubmittedInfo BY DEF NotRemembered, SubmittedInfo
  <1>3. ReceiptsTypeOK' BY <1>1, <1>2 DEF ReceiptsInv, ReceiptsTypeOK
  <1>4. ASSUME NEW s \in AppRequests PROVE MinedOK(s)' /\ AnswerOK(s)'
    <2>1. head' \in Nat /\ head' >= head BY <1>1, RequestTypes DEF ReceiptsInv
    <2>2. MinedOK(s)' BY <1>1, <2>1, MinedKept DEF ReceiptsInv
    <2>3. ~Remembered(s)' BY <1>1 DEF Remembered
    <2>4. AnswerOK(s) BY DEF ReceiptsInv
    <2>5. AnswerOK(s)' BY <1>1, <2>3, <2>4 DEF AnswerOK, Succeeded
    <2> QED BY <2>2, <2>5
  <1> QED BY <1>3, <1>4 DEF ReceiptsInv

\* A block or a second passes.
LEMMA ChainTimeInv == ASSUME ReceiptsInv, BlockPasses \/ ClockTick PROVE ReceiptsInv'
  <1>1. UNCHANGED <<submitted, cache, hubEvents, receipt>> BY DEF BlockPasses, ClockTick
  <1>2. LastBlock \in Nat /\ MaxClock \in Nat BY ReceiptsAssumption
  <1>3. head \in 0..LastBlock /\ clock \in 0..MaxClock BY DEF ReceiptsInv, ReceiptsTypeOK
  <1>4. head' \in 0..LastBlock /\ clock' \in 0..MaxClock /\ head' >= head
    BY <1>2, <1>3 DEF BlockPasses, ClockTick
  <1>5. -1..head \subseteq -1..head' BY <1>2, <1>3, <1>4
  <1>6. submitted \in [AppRequests -> [at : {"idle", "relaying", "sent"}, block : -1..head, validUntil : Int]]
    BY DEF ReceiptsInv, ReceiptsTypeOK
  <1>7. submitted \in [AppRequests -> [at : {"idle", "relaying", "sent"}, block : -1..head', validUntil : Int]]
    BY <1>5, <1>6
  <1>8. ReceiptsTypeOK' BY <1>1, <1>4, <1>7 DEF ReceiptsInv, ReceiptsTypeOK
  <1>9. ASSUME NEW s \in AppRequests PROVE MinedOK(s)' /\ AnswerOK(s)'
    <2>1. head' \in Nat BY <1>2, <1>4
    <2>2. MinedOK(s)' BY <1>1, <1>4, <2>1, MinedKept DEF ReceiptsInv
    <2>3. AnswerOK(s)' BY <1>1, AnswerKept DEF ReceiptsInv
    <2> QED BY <2>2, <2>3
  <1> QED BY <1>8, <1>9 DEF ReceiptsInv

LEMMA MineRelayedInv == ASSUME ReceiptsInv, NEW r \in AppRequests, MineRelayed(r) PROVE ReceiptsInv'
  <1>1. /\ submitted[r].at # "idle" /\ head < LastBlock /\ head' = head + 1
        /\ UNCHANGED <<clock, submitted, cache, receipt>>
    BY DEF MineRelayed
  <1>2. PICK e \in {HubEvent("relayed", ok) : ok \in BOOLEAN} \union {HubEvent("rejected", FALSE)} :
          /\ e.name = "relayed" => Relayed(r) = {}
          /\ hubEvents' = [hubEvents EXCEPT ![r] = Append(@, e)]
    BY DEF MineRelayed
  <1>3. head \in Nat /\ LastBlock \in Nat BY RequestTypes, ReceiptsAssumption DEF ReceiptsInv
  <1>4. /\ e.block = head + 1 /\ (e.ok => e.name = "relayed") /\ e \in Events
    <2>1. \E ok \in BOOLEAN : e = HubEvent("relayed", ok) \/ (e = HubEvent("rejected", ok) /\ ok = FALSE)
      BY <1>2
    <2>2. PICK ok \in BOOLEAN : e = HubEvent("relayed", ok) \/ (e = HubEvent("rejected", ok) /\ ok = FALSE)
      BY <2>1
    <2>3. head + 1 \in Nat BY <1>3
    <2>4. CASE e = HubEvent("relayed", ok) BY <2>3, <2>4 DEF HubEvent, Events
    <2>5. CASE e = HubEvent("rejected", ok) /\ ok = FALSE BY <2>3, <2>5 DEF HubEvent, Events
    <2> QED BY <2>2, <2>4, <2>5
  <1>5. hubEvents \in [AppRequests -> Seq(Events)] BY DEF ReceiptsInv, ReceiptsTypeOK
  <1>6. hubEvents[r] \in Seq(Events) BY <1>5
  <1>7. Append(hubEvents[r], e) \in Seq(Events) BY <1>4, <1>6
  <1>8. hubEvents' \in [AppRequests -> Seq(Events)] BY <1>2, <1>5, <1>7
  <1>9. head' \in 0..LastBlock /\ -1..head \subseteq -1..head' BY <1>1, <1>3
  <1>10. submitted \in [AppRequests -> [at : {"idle", "relaying", "sent"}, block : -1..head, validUntil : Int]]
    BY DEF ReceiptsInv, ReceiptsTypeOK
  <1>11. submitted \in [AppRequests -> [at : {"idle", "relaying", "sent"}, block : -1..head', validUntil : Int]]
    BY <1>9, <1>10
  <1>12. ReceiptsTypeOK' BY <1>1, <1>8, <1>9, <1>11 DEF ReceiptsInv, ReceiptsTypeOK
  <1>13. ASSUME NEW s \in AppRequests PROVE MinedOK(s)' /\ AnswerOK(s)'
    <2>1. CASE s = r
      <3>1. hubEvents'[s] = Append(hubEvents[s], e) BY <1>2, <1>5, <2>1
      <3>2. PICK n \in Nat : n = Len(hubEvents[s]) BY <1>6, <2>1
      <3>3. /\ DOMAIN hubEvents[s] = 1..n /\ DOMAIN hubEvents'[s] = 1..(n + 1)
            /\ hubEvents'[s][n + 1] = e /\ \A i \in 1..n : hubEvents'[s][i] = hubEvents[s][i]
        BY <1>6, <1>7, <2>1, <3>1, <3>2
      <3>4. MinedOK(s) /\ AnswerOK(s) BY DEF ReceiptsInv
      <3>5. submitted[s].block \in Int /\ submitted[s].block <= head BY RequestTypes DEF ReceiptsInv, SubmittedRequest
      <3>6. ASSUME NEW i \in 1..(n + 1) PROVE EventOK(s, i)'
        <4>1. CASE i = n + 1 BY <1>1, <1>3, <1>4, <3>3, <3>5, <4>1 DEF EventOK
        <4>2. CASE i # n + 1
          <5>1. i \in 1..n BY <4>2
          <5>2. EventOK(s, i) BY <3>3, <3>4, <5>1 DEF MinedOK
          <5>3. hubEvents[s][i] \in Events BY <3>3, <5>1, RequestTypes DEF ReceiptsInv
          <5>4. hubEvents[s][i].block \in Nat BY <5>3 DEF Events
          <5> QED BY <1>1, <1>3, <3>3, <5>1, <5>2, <5>4 DEF EventOK
        <4> QED BY <4>1, <4>2
      <3>7. Relayed(s)' \subseteq Relayed(s) \cup {n + 1} BY <3>3 DEF Relayed
      <3>8. e.name # "relayed" => n + 1 \notin Relayed(s)' BY <3>3 DEF Relayed
      <3>9. RunOnce(s)'
        <4>1. RunOnce(s) BY <3>4 DEF MinedOK
        <4>2. CASE e.name = "relayed"
          <5>1. Relayed(s) = {} BY <1>2, <2>1, <4>2
          <5> QED BY <3>7, <5>1 DEF RunOnce
        <4>3. CASE e.name # "relayed" BY <3>7, <3>8, <4>1, <4>3 DEF RunOnce
        <4> QED BY <4>2, <4>3
      <3>10. submitted[s].at # "idle" /\ submitted[s].block >= 0 BY <1>1, <2>1, <3>4 DEF MinedOK
      <3>11. MinedOK(s)' BY <1>1, <3>3, <3>6, <3>9, <3>10 DEF MinedOK
      <3>12. Succeeded(s) => Succeeded(s)' BY <3>3 DEF Succeeded
      <3>13. AnswerOK(s)' BY <1>1, <3>4, <3>12 DEF AnswerOK, Remembered, Details
      <3> QED BY <3>11, <3>13
    <2>2. CASE s # r
      <3>1. hubEvents'[s] = hubEvents[s] BY <1>2, <1>5, <2>2
      <3>2. head' \in Nat /\ head' >= head BY <1>1, <1>3
      <3>3. MinedOK(s)' BY <1>1, <3>1, <3>2, MinedKept DEF ReceiptsInv
      <3>4. AnswerOK(s)' BY <1>1, <3>1, AnswerKept DEF ReceiptsInv
      <3> QED BY <3>3, <3>4
    <2> QED BY <2>1, <2>2
  <1> QED BY <1>12, <1>13 DEF ReceiptsInv

\* The last of some places of events is one of them.
LEMMA LastOfPlaces ==
    ASSUME NEW n \in Nat, NEW places \in SUBSET (1..n), places # {}
    PROVE  LastOf(places) \in places
  BY GreatestNumber DEF LastOf

\* Everything that was mined of a request in reach is found.
LEMMA FoundInReach ==
    ASSUME ReceiptsInv, NEW r \in AppRequests, submitted[r].at = "sent", InReach(r)
    PROVE  Found(r) = DOMAIN hubEvents[r]
  <1> SUFFICES ASSUME NEW i \in DOMAIN hubEvents[r]
               PROVE  hubEvents[r][i].block >= SubmissionDetails(r).block
    BY DEF Found
  <1>1. MinedOK(r) /\ AnswerOK(r) BY DEF ReceiptsInv
  <1>2. /\ submitted[r].block \in Int /\ submitted[r].block >= 0 /\ submitted[r].block <= head
        /\ head \in Nat /\ hubEvents[r][i] \in Events
    BY <1>1, RequestTypes DEF ReceiptsInv, SubmittedRequest, MinedOK
  <1>3. hubEvents[r][i].block \in Nat BY <1>2 DEF Events
  <1>4. submitted[r].block < hubEvents[r][i].block BY <1>1 DEF MinedOK, EventOK
  <1>5. CASE Remembered(r)
    <2>1. SubmissionDetails(r) = Details(r) BY <1>1, <1>5 DEF AnswerOK, SubmissionDetails, Remembered
    <2>2. SubmissionDetails(r).block = submitted[r].block BY <2>1 DEF Details
    <2> QED BY <1>2, <1>3, <1>4, <2>2
  <1>6. CASE ~Remembered(r)
    <2>1. hubEvents[r][i].block >= head - Lookup BY <1>6 DEF InReach
    <2>2. SubmissionDetails(r).block = IF head - Lookup > 1 THEN head - Lookup ELSE 1
      BY <1>6 DEF SubmissionDetails, Remembered
    <2>3. hubEvents[r][i].block >= 1 BY <1>2, <1>3, <1>4
    <2> QED BY <2>1, <2>2, <2>3
  <1> QED BY <1>5, <1>6

\* The event that is picked is one that is found, of an execution if there is one.
LEMMA PickedEvent ==
    ASSUME ReceiptsInv, NEW r \in AppRequests, Found(r) # {}
    PROVE  /\ PickSingleEvent(r) \in Found(r)
           /\ Found(r) \cap Relayed(r) # {} => PickSingleEvent(r) \in Relayed(r)
  <1>1. hubEvents[r] \in Seq(Events) BY RequestTypes DEF ReceiptsInv
  <1>2. PICK n \in Nat : DOMAIN hubEvents[r] = 1..n BY <1>1
  <1>3. Found(r) \subseteq 1..n BY <1>2 DEF Found
  <1>4. CASE Found(r) \cap Relayed(r) = {}
    <2>1. PickSingleEvent(r) = LastOf(Found(r)) BY <1>4 DEF PickSingleEvent
    <2> QED BY <1>3, <1>4, <2>1, LastOfPlaces
  <1>5. CASE Found(r) \cap Relayed(r) # {}
    <2>1. PickSingleEvent(r) = LastOf(Found(r) \cap Relayed(r)) BY <1>5 DEF PickSingleEvent
    <2>2. Found(r) \cap Relayed(r) \in SUBSET (1..n) BY <1>3
    <2>3. LastOf(Found(r) \cap Relayed(r)) \in Found(r) \cap Relayed(r) BY <1>5, <2>2, LastOfPlaces
    <2> QED BY <2>1, <2>3
  <1> QED BY <1>4, <1>5

\* What the provider answers for a request that was sent.
LEMMA AnswerNow ==
    ASSUME ReceiptsInv, NEW r \in AppRequests, submitted[r].at = "sent"
    PROVE  /\ ReceiptNow(r) # "error"
           /\ ReceiptNow(r) \in {"success", "failure"} <=> Found(r) # {}
           /\ ReceiptNow(r) = "success" => Succeeded(r)
           /\ InReach(r) /\ Succeeded(r) => ReceiptNow(r) = "success"
  <1>1. MinedOK(r) BY DEF ReceiptsInv
  <1>2. ~\E i, j \in Found(r) \cap Relayed(r) : i # j BY <1>1 DEF MinedOK, RunOnce
  <1>3. CASE Found(r) = {}
    <2>1. ReceiptNow(r) \in {"null", "reverted"} BY <1>3 DEF ReceiptNow
    <2>2. InReach(r) => ~Succeeded(r) BY <1>3, FoundInReach DEF Succeeded
    <2> QED BY <1>3, <2>1, <2>2
  <1>4. CASE Found(r) # {}
    <2>1. PICK p : p = PickSingleEvent(r) OBVIOUS
    <2>2. p \in Found(r) /\ (Found(r) \cap Relayed(r) # {} => p \in Relayed(r)) BY <1>4, <2>1, PickedEvent
    <2>3. p \in DOMAIN hubEvents[r] BY <2>2 DEF Found
    <2>4. ReceiptNow(r) = Translated(hubEvents[r][p]) BY <1>2, <1>4, <2>1 DEF ReceiptNow
    <2>5. hubEvents[r][p] \in Events BY <2>3, RequestTypes DEF ReceiptsInv
    <2>6. hubEvents[r][p].ok \in BOOLEAN BY <2>5 DEF Events
    <2>7. ReceiptNow(r) \in {"success", "failure"} BY <2>4 DEF Translated
    <2>8. ReceiptNow(r) = "success" => Succeeded(r) BY <2>3, <2>4, <2>6 DEF Translated, Succeeded
    <2>9. ASSUME InReach(r), Succeeded(r) PROVE ReceiptNow(r) = "success"
      <3>1. PICK i \in DOMAIN hubEvents[r] : hubEvents[r][i].ok BY <2>9 DEF Succeeded
      <3>2. i \in Found(r) BY <2>9, FoundInReach
      <3>3. hubEvents[r][i].name = "relayed" BY <1>1, <3>1 DEF MinedOK, EventOK
      <3>4. i \in Relayed(r) BY <3>3 DEF Relayed
      <3>5. p \in Relayed(r) BY <2>2, <3>2, <3>4
      <3>6. p = i BY <1>1, <3>4, <3>5 DEF MinedOK, RunOnce
      <3> QED BY <2>4, <3>1, <3>3, <3>6 DEF Translated
    <2> QED BY <1>4, <2>7, <2>8, <2>9
  <1> QED BY <1>3, <1>4

LEMMA GetReceiptInv == ASSUME ReceiptsInv, NEW r \in AppRequests, GetReceipt(r) PROVE ReceiptsInv'
  <1>1. /\ submitted[r].at = "sent" /\ receipt' = [receipt EXCEPT ![r] = ReceiptNow(r)]
        /\ UNCHANGED <<clock, head, submitted, cache, hubEvents>>
    BY DEF GetReceipt
  <1>2. receipt \in [AppRequests -> Answers] BY DEF ReceiptsInv, ReceiptsTypeOK
  <1>3. ReceiptNow(r) \in Answers BY DEF ReceiptNow, Translated, Answers
  <1>4. receipt' \in [AppRequests -> Answers] BY <1>1, <1>2, <1>3
  <1>5. ReceiptsTypeOK' BY <1>1, <1>4 DEF ReceiptsInv, ReceiptsTypeOK
  <1>6. ASSUME NEW s \in AppRequests PROVE MinedOK(s)' /\ AnswerOK(s)'
    <2>1. head' \in Nat /\ head' >= head BY <1>1, RequestTypes DEF ReceiptsInv
    <2>2. MinedOK(s)' BY <1>1, <2>1, MinedKept DEF ReceiptsInv
    <2>3. AnswerOK(s)'
      <3>1. CASE s = r
        <4>1. receipt'[s] = ReceiptNow(s) BY <1>1, <1>2, <3>1
        <4>2. ReceiptNow(s) = "success" => Succeeded(s) BY <1>1, <3>1, AnswerNow
        <4>3. AnswerOK(s) BY DEF ReceiptsInv
        <4> QED BY <1>1, <3>1, <4>1, <4>2, <4>3 DEF AnswerOK, Remembered, Details, Succeeded
      <3>2. CASE s # r
        <4>1. receipt'[s] = receipt[s] BY <1>1, <1>2, <3>2
        <4> QED BY <1>1, <4>1, AnswerKept DEF ReceiptsInv
      <3> QED BY <3>1, <3>2
    <2> QED BY <2>2, <2>3
  <1> QED BY <1>5, <1>6 DEF ReceiptsInv

LEMMA ReceiptsInvNext == ReceiptsInv /\ [ReceiptsNext]_receiptVars => ReceiptsInv'
  <1> SUFFICES ASSUME ReceiptsInv, [ReceiptsNext]_receiptVars PROVE ReceiptsInv' OBVIOUS
  <1>1. CASE UNCHANGED receiptVars
    BY <1>1 DEF receiptVars, ReceiptsInv, ReceiptsTypeOK, MinedOK, AnswerOK, EventOK, RunOnce, Relayed,
                Remembered, Details, Succeeded
  <1>2. CASE ReceiptsNext
    BY <1>2, AppRestartInv, ChainTimeInv, SendRequestInv, RequestSentInv, MineRelayedInv, GetReceiptInv
       DEF ReceiptsNext
  <1> QED BY <1>1, <1>2

LEMMA ReceiptsInvKeeps == ReceiptsInv => ReceiptsTypeOK /\ ReceiptIsTrue /\ MinedIsFound
  <1> SUFFICES ASSUME ReceiptsInv, NEW r \in AppRequests, submitted[r].at = "sent"
               PROVE  /\ ReceiptNow(r) # "error"
                      /\ ReceiptNow(r) = "success" => Succeeded(r)
                      /\ ReceiptNow(r) = "failure" => hubEvents[r] # <<>> /\ (InReach(r) => ~Succeeded(r))
                      /\ InReach(r) /\ hubEvents[r] # <<>> => ReceiptNow(r) \in {"success", "failure"}
    BY DEF ReceiptsInv, ReceiptIsTrue, MinedIsFound
  <1>1. hubEvents[r] \in Seq(Events) BY RequestTypes DEF ReceiptsInv
  <1>2. hubEvents[r] # <<>> <=> DOMAIN hubEvents[r] # {}
    <2>1. PICK n \in Nat : n = Len(hubEvents[r]) BY <1>1
    <2>2. DOMAIN hubEvents[r] = 1..n /\ (n = 0 <=> hubEvents[r] = <<>>) BY <1>1, <2>1
    <2>3. 1..n = {} <=> n = 0
      <3>1. n # 0 => 1 \in 1..n OBVIOUS
      <3>2. n = 0 => 1..n = {} OBVIOUS
      <3> QED BY <3>1, <3>2
    <2> QED BY <2>2, <2>3
  <1>3. Found(r) \subseteq DOMAIN hubEvents[r] BY DEF Found
  <1> QED BY <1>2, <1>3, AnswerNow, FoundInReach

LEMMA SuccessStands == ReceiptsInv /\ [ReceiptsNext]_receiptVars => [SuccessStandsStep]_receiptVars
  <1> SUFFICES ASSUME ReceiptsInv, ReceiptsNext, NEW r \in AppRequests, receipt[r] = "success", InReach(r)
               PROVE  receipt'[r] = "success"
    BY DEF SuccessStandsStep
  <1>1. AnswerOK(r) BY DEF ReceiptsInv
  <1>2. ReceiptNow(r) = "success" BY <1>1, AnswerNow DEF AnswerOK
  <1>3. receipt \in [AppRequests -> Answers] BY DEF ReceiptsInv, ReceiptsTypeOK
  <1>4. ASSUME NEW s \in AppRequests, GetReceipt(s) PROVE receipt'[r] = "success"
    BY <1>2, <1>3, <1>4 DEF GetReceipt
  <1>5. CASE AppRestart \/ BlockPasses \/ ClockTick BY <1>5 DEF AppRestart, BlockPasses, ClockTick
  <1>6. ASSUME NEW s \in AppRequests, SendRequest(s) \/ RequestSent(s) \/ MineRelayed(s)
        PROVE  receipt'[r] = "success"
    BY <1>6 DEF SendRequest, RequestSent, MineRelayed
  <1> QED BY <1>4, <1>5, <1>6 DEF ReceiptsNext

\* What was mined of a request is younger than what the provider remembers of it, and it
\* is executed once, for any requests, blocks and restarts (cacheSubmittedTransactionDetails).
THEOREM ReceiptsInvariant == ReceiptsSpec => []ReceiptsInv
  BY ReceiptsInvInit, ReceiptsInvNext, PTL DEF ReceiptsSpec

-----------------------------------------------------------------------------
(* Fees                                                                    *)

\* The minima a ready server asks for are made of what the node answered.
MinimaOf(f) ==
    /\ server.minMaxFee = f.base /\ server.minPriority = ServerPriority(f)
    /\ f.base <= MaxMaxFeePerGas /\ ServerPriority(f) <= MaxMaxFeePerGas

FeesOf(f) == client.maxFee = CalculateGasFees(f).maxFee /\ client.priority = CalculateGasFees(f).priority

\* The outcome of the filter would be the same now, if the server's fees did not change.
PingOK ==
    client.fresh /\ client.at \in {"pinged", "filtered"} =>
        server.ready /\ (PingFilter <=> client.at = "pinged")

FeesInv ==
    /\ FeesTypeOK
    /\ server.ready => MinimaOf(GasFees(server.from))
    /\ PingOK
    /\ client.given = "none" /\ client.at # "idle" => FeesOf(GasFees(client.from))
    /\ RefusedForAReason

ClientPlaces == {"idle", "fees", "pinged", "filtered", "refused", "unready", "answered", "done", "error"}
TxFees == [type : {"none", "legacy", "typeTwo"}, maxFee : Nat, priority : Nat]
ClientFees == [at : ClientPlaces, given : {"both", "gasPrice", "one", "none"}, maxFee : Nat, priority : Nat,
               from : NetworkFees, fresh : BOOLEAN, tx : TxFees]
ServerFees == [minMaxFee : Nat, minPriority : Nat, ready : BOOLEAN, from : NetworkFees]

LEMMA FeesTypes ==
    FeesTypeOK <=> /\ chainKind \in Chains /\ feeChanges \in 0..MaxChanges
                   /\ network \in [base : Prices, priority : Prices]
                   /\ server \in ServerFees /\ client \in ClientFees
  BY DEF FeesTypeOK, ServerFees, ClientFees, TxFees, ClientPlaces

LEMMA FeesTypesNext ==
    ASSUME FeesTypeOK, UNCHANGED <<chainKind, network, feeChanges>>, server' \in ServerFees,
           client' \in ClientFees
    PROVE  FeesTypeOK'
  BY DEF FeesTypeOK, ServerFees, ClientFees, TxFees, ClientPlaces

LEMMA FeeConstants ==
    /\ Prices \subseteq Nat /\ GasPriceFactorPercent \in Nat /\ MinMaxPriorityFeePerGas \in Nat
    /\ ServerFactorPercent \in Nat /\ DefaultPriorityFee \in Nat /\ MaxMaxFeePerGas \in Nat
    /\ EnvironmentFactor \in Nat /\ MaxChanges \in Nat
  BY GasFeesAssumption

LEMMA ProductNat == ASSUME NEW a \in Nat, NEW b \in Nat PROVE a * b \in Nat
  OBVIOUS

\* A fee that is raised by some percent is not lowered, and is no less than a smaller part of it.
LEMMA RaisedFee ==
    ASSUME NEW n \in Nat, NEW pct \in Nat
    PROVE  /\ Raised(n, pct) \in Nat /\ Raised(n, pct) >= n
           /\ \A s \in Nat : s <= 100 + pct => (n * s) \div 100 <= Raised(n, pct)
  <1>1. PICK m \in Nat : m = n * pct BY ProductNat
  <1>2. n * (pct + 100) = m + 100 * n BY <1>1
  <1>3. 2 * n * (pct + 100) = 2 * (n * (pct + 100)) OBVIOUS
  <1>4. Raised(n, pct) = (2 * m + 200 * n + 100) \div 200 BY <1>2, <1>3 DEF Raised
  <1>5. Raised(n, pct) \in Nat /\ Raised(n, pct) >= n BY <1>4
  <1>6. ASSUME NEW s \in Nat, s <= 100 + pct PROVE (n * s) \div 100 <= Raised(n, pct)
    <2>1. PICK k \in Nat : k = n * s BY ProductNat
    <2>2. PICK d \in Nat : 100 + pct = s + d BY <1>6
    <2>3. PICK e \in Nat : e = n * d BY ProductNat
    <2>4. n * (pct + 100) = n * (s + d) BY <2>2
    <2>5. n * (s + d) = k + e BY <2>1, <2>3
    <2>6. k <= m + 100 * n BY <1>2, <2>4, <2>5
    <2>7. k \div 100 <= (2 * m + 200 * n + 100) \div 200 BY <2>6
    <2> QED BY <1>4, <2>1, <2>7
  <1> QED BY <1>5, <1>6

LEMMA GasFeesType == ASSUME NEW f \in NetworkFees PROVE GasFees(f) \in NetworkFees
  <1>1. f.base \in Nat /\ f.priority \in Nat BY DEF NetworkFees
  <1>2. PICK p \in Nat : p = f.base * EnvironmentFactor BY <1>1, FeeConstants, ProductNat
  <1> QED BY <1>2 DEF GasFees, Fees, NetworkFees

LEMMA ServerPriorityType == ASSUME NEW f \in NetworkFees PROVE ServerPriority(f) \in Nat
  <1>1. f.priority \in Nat BY DEF NetworkFees
  <1>2. PICK p \in Nat : p = f.priority * ServerFactorPercent BY <1>1, FeeConstants, ProductNat
  <1>3. p \div 100 \in Nat BY <1>2
  <1> QED BY <1>2, <1>3, FeeConstants DEF ServerPriority

\* The fees the client computes cover the minima the server makes of the same answer.
LEMMA CalculatedFees ==
    ASSUME NEW f \in NetworkFees
    PROVE  /\ CalculateGasFees(f).maxFee \in Nat /\ CalculateGasFees(f).priority \in Nat
           /\ CalculateGasFees(f).maxFee >= f.base
           /\ FactorsFit => CalculateGasFees(f).priority >= ServerPriority(f)
  <1>1. f.base \in Nat /\ f.priority \in Nat BY DEF NetworkFees
  <1>2. PICK p \in Nat : p = Raised(f.priority, GasPriceFactorPercent) BY <1>1, FeeConstants, RaisedFee
  <1>3. PICK priority \in Nat : priority = IF p < MinMaxPriorityFeePerGas THEN MinMaxPriorityFeePerGas ELSE p
    BY <1>2, FeeConstants
  <1>4. PICK sum \in Nat : sum = f.base + priority BY <1>1, <1>3
  <1>5. PICK maxFee \in Nat : maxFee = Raised(sum, GasPriceFactorPercent) /\ maxFee >= sum
    BY <1>4, FeeConstants, RaisedFee
  <1>6. /\ CalculateGasFees(f).maxFee = IF maxFee = 0 THEN priority ELSE maxFee
        /\ CalculateGasFees(f).priority = priority
    BY <1>2, <1>3, <1>4, <1>5 DEF CalculateGasFees
  <1>7. CalculateGasFees(f).maxFee \in Nat /\ CalculateGasFees(f).priority \in Nat BY <1>3, <1>5, <1>6
  <1>8. CalculateGasFees(f).maxFee >= f.base BY <1>1, <1>3, <1>4, <1>5, <1>6
  <1>9. ASSUME FactorsFit PROVE CalculateGasFees(f).priority >= ServerPriority(f)
    <2>1. ServerFactorPercent <= 100 + GasPriceFactorPercent /\ DefaultPriorityFee <= MinMaxPriorityFeePerGas
      BY <1>9 DEF FactorsFit
    <2>2. (f.priority * ServerFactorPercent) \div 100 <= p BY <1>1, <1>2, <2>1, FeeConstants, RaisedFee
    <2>3. PICK q \in Nat : q = f.priority * ServerFactorPercent BY <1>1, FeeConstants, ProductNat
    <2>4. ServerPriority(f) = IF q \div 100 = 0 THEN DefaultPriorityFee ELSE q \div 100 BY <2>3 DEF ServerPriority
    <2>5. p <= priority /\ MinMaxPriorityFeePerGas <= priority BY <1>2, <1>3, FeeConstants
    <2>6. q \div 100 <= p BY <2>2, <2>3
    <2> QED BY <1>2, <1>3, <1>6, <2>1, <2>3, <2>4, <2>5, <2>6, FeeConstants
  <1> QED BY <1>7, <1>8, <1>9

LEMMA NetworkType == ASSUME FeesTypeOK PROVE network \in NetworkFees
  BY FeeConstants DEF FeesTypeOK, NetworkFees

LEMMA FeesInvInit == FeesInit => FeesInv
  <1> SUFFICES ASSUME FeesInit PROVE FeesInv OBVIOUS
  <1>1. Fees(0, 0) \in NetworkFees BY DEF Fees, NetworkFees
  <1>2. NoTx \in TxFees BY DEF NoTx, TxFees
  <1>3. server \in ServerFees /\ ~server.ready BY <1>1 DEF FeesInit, ServerFees
  <1>4. client \in ClientFees /\ client.at = "idle" BY <1>1, <1>2 DEF FeesInit, ClientFees, ClientPlaces
  <1>5. network \in [base : Prices, priority : Prices] BY DEF FeesInit, Fees
  <1>6. feeChanges \in 0..MaxChanges BY FeeConstants DEF FeesInit
  <1>7. FeesTypeOK BY <1>3, <1>4, <1>5, <1>6, FeesTypes DEF FeesInit
  <1> QED BY <1>3, <1>4, <1>7 DEF FeesInv, PingOK, RefusedForAReason

LEMMA FeesChangeInv == ASSUME FeesInv, NEW b \in Prices, NEW p \in Prices, FeesChange(b, p) PROVE FeesInv'
  <1>1. network' = Fees(b, p) /\ UNCHANGED <<chainKind, server, client>> BY DEF FeesChange
  <1>2. network' \in [base : Prices, priority : Prices] BY <1>1 DEF Fees
  <1>3. feeChanges' \in 0..MaxChanges BY FeeConstants DEF FeesChange, FeesInv, FeesTypeOK
  <1>4. FeesTypeOK' BY <1>1, <1>2, <1>3 DEF FeesInv, FeesTypeOK
  <1> QED BY <1>1, <1>4 DEF FeesInv, MinimaOf, PingOK, FeesOf, RefusedForAReason, PingFilter, GasFees

LEMMA RefreshInv == ASSUME FeesInv, RefreshGasFees PROVE FeesInv'
  <1> DEFINE f == GasFees(network)
             p == ServerPriority(f)
  <1>1. network \in NetworkFees /\ server \in ServerFees /\ client \in ClientFees
    BY NetworkType, FeesTypes DEF FeesInv
  <1>2. f \in NetworkFees /\ p \in Nat BY <1>1, GasFeesType, ServerPriorityType
  <1>3. f.base \in Nat BY <1>2 DEF NetworkFees
  <1>4. /\ server' = [minMaxFee |-> f.base, minPriority |-> p, from |-> network,
                      ready |-> p <= MaxMaxFeePerGas /\ f.base <= MaxMaxFeePerGas]
        /\ client' = [client EXCEPT !.fresh = @ /\ f = GasFees(server.from)]
        /\ UNCHANGED <<chainKind, network, feeChanges>>
    BY DEF RefreshGasFees
  <1> HIDE DEF f, p
  <1>5. server' \in ServerFees BY <1>1, <1>2, <1>3, <1>4 DEF ServerFees
  <1>6. client' \in ClientFees BY <1>1, <1>4 DEF ClientFees
  <1>7. FeesTypeOK' BY <1>4, <1>5, <1>6, FeesTypesNext DEF FeesInv
  <1>8. /\ client'.at = client.at /\ client'.given = client.given /\ client'.maxFee = client.maxFee
        /\ client'.priority = client.priority /\ client'.from = client.from
        /\ client'.fresh => client.fresh /\ f = GasFees(server.from)
    BY <1>1, <1>4 DEF ClientFees
  <1>9. GasFees(server.from)' = f BY <1>4 DEF f, GasFees
  <1>10. server'.ready => MinimaOf(GasFees(server.from))'
    BY <1>4, <1>9 DEF MinimaOf, p, ServerPriority
  <1>11. GasFees(client.from)' = GasFees(client.from) BY <1>4, <1>8 DEF GasFees
  <1>12. client'.given = "none" /\ client'.at # "idle" => FeesOf(GasFees(client.from))'
    BY <1>8, <1>11 DEF FeesInv, FeesOf, CalculateGasFees
  <1>13. RefusedForAReason' BY <1>4, <1>8 DEF FeesInv, RefusedForAReason
  <1>14. ASSUME client'.fresh, client'.at \in {"pinged", "filtered"}
         PROVE  server'.ready /\ (PingFilter' <=> client'.at = "pinged")
    <2>1. server.ready /\ (PingFilter <=> client.at = "pinged") BY <1>8, <1>14 DEF FeesInv, PingOK
    <2>2. MinimaOf(f) BY <1>8, <1>14, <2>1 DEF FeesInv
    <2>3. /\ server'.ready /\ server'.minMaxFee = server.minMaxFee
          /\ server'.minPriority = server.minPriority
      BY <1>4, <2>2 DEF MinimaOf, p
    <2>4. PingFilter' <=> PingFilter BY <1>8, <2>3 DEF PingFilter
    <2> QED BY <1>8, <2>1, <2>3, <2>4
  <1> QED BY <1>7, <1>10, <1>12, <1>13, <1>14 DEF FeesInv, PingOK

LEMMA FixInv == ASSUME FeesInv, FixGasFees PROVE FeesInv'
  <1>1. network \in NetworkFees /\ client \in ClientFees BY NetworkType, FeesTypes DEF FeesInv
  <1>2. UNCHANGED <<chainKind, network, server, feeChanges>> BY DEF FixGasFees
  <1>3. SUFFICES client' \in ClientFees /\ client'.at \in {"fees", "error"}
                  /\ (client'.given = "none" => FeesOf(GasFees(client.from))')
    <2>1. server' \in ServerFees BY <1>2, FeesTypes DEF FeesInv
    <2>2. FeesTypeOK' BY <1>2, <1>3, <2>1, FeesTypesNext DEF FeesInv
    <2>3. server'.ready => MinimaOf(GasFees(server.from))' BY <1>2 DEF FeesInv, MinimaOf, GasFees
    <2> QED BY <1>3, <2>2, <2>3 DEF FeesInv, PingOK, RefusedForAReason
  <1>4. CASE client' = [client EXCEPT !.at = "error", !.given = "one"]
    BY <1>1, <1>4 DEF ClientFees, ClientPlaces
  <1>5. CASE client' = [client EXCEPT !.at = "fees", !.given = "none", !.from = network,
                                      !.maxFee = CalculateGasFees(GasFees(network)).maxFee,
                                      !.priority = CalculateGasFees(GasFees(network)).priority]
    <2>1. PICK m \in Nat : m = CalculateGasFees(GasFees(network)).maxFee
      BY <1>1, GasFeesType, CalculatedFees
    <2>2. PICK q \in Nat : q = CalculateGasFees(GasFees(network)).priority
      BY <1>1, GasFeesType, CalculatedFees
    <2>3. client' = [client EXCEPT !.at = "fees", !.given = "none", !.from = network, !.maxFee = m, !.priority = q]
      BY <1>5, <2>1, <2>2
    <2>4. client' \in ClientFees BY <1>1, <2>3 DEF ClientFees, ClientPlaces
    <2>5. client'.at = "fees" /\ client'.from = network /\ client'.maxFee = m /\ client'.priority = q
      BY <1>1, <2>3 DEF ClientFees
    <2>6. GasFees(client.from)' = GasFees(network) BY <1>2, <2>5 DEF GasFees
    <2>7. CalculateGasFees(GasFees(client.from))' = CalculateGasFees(GasFees(network))
      BY <2>6 DEF CalculateGasFees
    <2>8. FeesOf(GasFees(client.from))' BY <2>1, <2>2, <2>5, <2>6 DEF FeesOf, CalculateGasFees
    <2> QED BY <2>4, <2>5, <2>8
  <1>6. ASSUME NEW g \in {"both", "gasPrice"}, NEW x \in Prices, NEW y \in Prices,
               client' = [client EXCEPT !.at = "fees", !.given = g, !.maxFee = x, !.priority = y]
        PROVE  client' \in ClientFees /\ client'.at = "fees" /\ client'.given # "none"
    <2>1. x \in Nat /\ y \in Nat BY FeeConstants
    <2> QED BY <1>1, <1>6, <2>1 DEF ClientFees, ClientPlaces
  <1> QED BY <1>4, <1>5, <1>6 DEF FixGasFees

LEMMA PingInv == ASSUME FeesInv, Ping PROVE FeesInv'
  <1> DEFINE where == IF ~server.ready THEN "unready" ELSE IF PingFilter THEN "pinged" ELSE "filtered"
  <1>1. client \in ClientFees BY FeesTypes DEF FeesInv
  <1>2. /\ client.at = "fees" /\ client' = [client EXCEPT !.fresh = TRUE, !.at = where]
        /\ UNCHANGED <<chainKind, network, server, feeChanges>>
    BY DEF Ping
  <1>3. /\ where \in {"unready", "pinged", "filtered"}
        /\ where # "unready" => server.ready /\ (PingFilter <=> where = "pinged")
    OBVIOUS
  <1> HIDE DEF where
  <1>4. client' \in ClientFees BY <1>1, <1>2, <1>3 DEF ClientFees, ClientPlaces
  <1>5. /\ client'.at = where /\ client'.given = client.given /\ client'.maxFee = client.maxFee
        /\ client'.priority = client.priority /\ client'.from = client.from
    BY <1>1, <1>2 DEF ClientFees
  <1>6. FeesTypeOK'
    <2>1. server' \in ServerFees BY <1>2, FeesTypes DEF FeesInv
    <2> QED BY <1>2, <1>4, <2>1, FeesTypesNext DEF FeesInv
  <1>7. server'.ready => MinimaOf(GasFees(server.from))' BY <1>2 DEF FeesInv, MinimaOf, GasFees
  <1>8. PingFilter' <=> PingFilter BY <1>2, <1>5 DEF PingFilter
  <1>9. PingOK' BY <1>2, <1>3, <1>5, <1>8 DEF PingOK
  <1>10. GasFees(client.from)' = GasFees(client.from) BY <1>2, <1>5 DEF GasFees
  <1>11. client'.given = "none" => FeesOf(GasFees(client.from))'
    BY <1>2, <1>5, <1>10 DEF FeesInv, FeesOf, CalculateGasFees
  <1>12. RefusedForAReason' BY <1>3, <1>5 DEF RefusedForAReason
  <1> QED BY <1>6, <1>7, <1>9, <1>11, <1>12 DEF FeesInv

\* A step of the client's that ends in a place where its fees are not looked at any more.
LEMMA ClientGoesOn ==
    ASSUME FeesInv, client.at # "idle", client' \in ClientFees,
           client'.at \in {"refused", "unready", "answered", "done", "error"},
           client'.given = client.given, client'.maxFee = client.maxFee,
           client'.priority = client.priority, client'.from = client.from, client'.fresh = client.fresh,
           UNCHANGED <<chainKind, network, server, feeChanges>>,
           client'.at = "refused" => RefusedForAReason'
    PROVE  FeesInv'
  <1>1. FeesTypeOK'
    <2>1. server' \in ServerFees BY FeesTypes DEF FeesInv
    <2> QED BY <2>1, FeesTypesNext DEF FeesInv
  <1>2. server'.ready => MinimaOf(GasFees(server.from))' BY DEF FeesInv, MinimaOf, GasFees
  <1>3. PingOK' BY DEF PingOK
  <1>4. GasFees(client.from)' = GasFees(client.from) BY DEF GasFees
  <1>5. client'.given = "none" => FeesOf(GasFees(client.from))'
    BY <1>4 DEF FeesInv, FeesOf, CalculateGasFees
  <1>6. RefusedForAReason' BY DEF RefusedForAReason
  <1> QED BY <1>1, <1>2, <1>3, <1>5, <1>6 DEF FeesInv

LEMMA RequestRelayInv == ASSUME FeesInv, RequestRelay PROVE FeesInv'
  <1>1. client \in ClientFees /\ server \in ServerFees /\ chainKind \in Chains BY FeesTypes DEF FeesInv
  <1>2. client.at = "pinged" /\ UNCHANGED <<chainKind, network, server, feeChanges>> BY DEF RequestRelay
  <1>3. client.maxFee \in Nat /\ client.priority \in Nat BY <1>1 DEF ClientFees
  <1>4. CASE client' = [client EXCEPT !.at = "unready"]
    <2>1. client' \in ClientFees BY <1>1, <1>4 DEF ClientFees, ClientPlaces
    <2>2. /\ client'.at = "unready" /\ client'.given = client.given /\ client'.maxFee = client.maxFee
          /\ client'.priority = client.priority /\ client'.from = client.from /\ client'.fresh = client.fresh
      BY <1>1, <1>4 DEF ClientFees
    <2> QED BY <1>2, <2>1, <2>2, ClientGoesOn
  <1>5. CASE ~(TypeFits /\ FeesFit) /\ client' = [client EXCEPT !.at = "refused"]
    <2>1. client' \in ClientFees BY <1>1, <1>5 DEF ClientFees, ClientPlaces
    <2>2. /\ client'.at = "refused" /\ client'.given = client.given /\ client'.maxFee = client.maxFee
          /\ client'.priority = client.priority /\ client'.from = client.from /\ client'.fresh = client.fresh
      BY <1>1, <1>5 DEF ClientFees
    <2>3. client.fresh => PingFilter BY <1>2 DEF FeesInv, PingOK
    <2>4. \/ ~client.fresh \/ client.maxFee < client.priority
          \/ chainKind = "legacy" /\ client.maxFee # client.priority
      <3>1. CASE ~TypeFits BY <3>1 DEF TypeFits
      <3>2. CASE ~FeesFit /\ client.fresh
        <4>1. client.priority >= server.minPriority /\ client.maxFee <= MaxMaxFeePerGas /\ client.maxFee >= server.minMaxFee
          BY <2>3, <3>2 DEF PingFilter
        <4>2. ~(client.maxFee >= client.priority) BY <3>2, <4>1 DEF FeesFit
        <4> QED BY <1>3, <4>2
      <3> QED BY <1>5, <3>1, <3>2
    <2>5. RefusedForAReason' BY <1>2, <2>2, <2>4 DEF RefusedForAReason
    <2> QED BY <1>2, <2>1, <2>2, <2>5, ClientGoesOn
  <1>6. CASE client' = [client EXCEPT !.at = "answered", !.tx = ServerTx]
    <2>1. ServerTx \in TxFees BY <1>1, <1>3, GasFeesAssumption DEF ServerTx, TxFees
    <2>2. client' \in ClientFees BY <1>1, <1>6, <2>1 DEF ClientFees, ClientPlaces
    <2>3. /\ client'.at = "answered" /\ client'.given = client.given /\ client'.maxFee = client.maxFee
          /\ client'.priority = client.priority /\ client'.from = client.from /\ client'.fresh = client.fresh
      BY <1>1, <1>6 DEF ClientFees
    <2> QED BY <1>2, <2>2, <2>3, ClientGoesOn
  <1> QED BY <1>4, <1>5, <1>6 DEF RequestRelay

LEMMA ValidateInv == ASSUME FeesInv, Validate PROVE FeesInv'
  <1>1. client \in ClientFees BY FeesTypes DEF FeesInv
  <1>2. PICK where \in {"done", "error"} : client' = [client EXCEPT !.at = where] BY DEF Validate
  <1>3. client.at = "answered" /\ UNCHANGED <<chainKind, network, server, feeChanges>> BY DEF Validate
  <1>4. client' \in ClientFees BY <1>1, <1>2 DEF ClientFees, ClientPlaces
  <1>5. /\ client'.at = where /\ client'.given = client.given /\ client'.maxFee = client.maxFee
        /\ client'.priority = client.priority /\ client'.from = client.from /\ client'.fresh = client.fresh
    BY <1>1, <1>2 DEF ClientFees
  <1> QED BY <1>3, <1>4, <1>5, ClientGoesOn

LEMMA FeesInvNext == FeesInv /\ [FeesNext]_feeVars => FeesInv'
  <1> SUFFICES ASSUME FeesInv, [FeesNext]_feeVars PROVE FeesInv' OBVIOUS
  <1>1. CASE UNCHANGED feeVars
    BY <1>1 DEF feeVars, FeesInv, FeesTypeOK, MinimaOf, PingOK, FeesOf, RefusedForAReason, PingFilter, GasFees
  <1>2. CASE FeesNext
    BY <1>2, FeesChangeInv, RefreshInv, FixInv, PingInv, RequestRelayInv, ValidateInv DEF FeesNext
  <1> QED BY <1>1, <1>2

LEMMA FeesInvKeeps == FeesInv => FeesTypeOK /\ RefusedForAReason /\ (FactorsFit => OwnFeesPass)
  <1> SUFFICES ASSUME FeesInv, FactorsFit, client.at = "filtered", client.given = "none",
                      client.from = server.from, client.fresh
               PROVE  client.maxFee > MaxMaxFeePerGas
    BY DEF FeesInv, OwnFeesPass
  <1>1. client \in ClientFees /\ server \in ServerFees BY FeesTypes DEF FeesInv
  <1>2. PICK f \in NetworkFees : f = GasFees(server.from) BY <1>1, GasFeesType DEF ServerFees
  <1>3. server.ready /\ ~PingFilter BY DEF FeesInv, PingOK
  <1>4. server.minMaxFee = f.base /\ server.minPriority = ServerPriority(f) BY <1>2, <1>3 DEF FeesInv, MinimaOf
  <1>5. client.maxFee = CalculateGasFees(f).maxFee /\ client.priority = CalculateGasFees(f).priority
    BY <1>2 DEF FeesInv, FeesOf
  <1>6. client.maxFee >= server.minMaxFee /\ client.priority >= server.minPriority
    BY <1>4, <1>5, CalculatedFees
  <1>7. ~(client.maxFee <= MaxMaxFeePerGas) BY <1>3, <1>6 DEF PingFilter
  <1>8. client.maxFee \in Nat BY <1>1 DEF ClientFees
  <1> QED BY <1>7, <1>8, FeeConstants

\* Server and client keep fees made of the answer they name, whatever the network's fees
\* and however they change between the steps (_refreshGasFees, calculateGasFees).
THEOREM FeesInvariant == FeesSpec => []FeesInv
  BY FeesInvInit, FeesInvNext, PTL DEF FeesSpec

-----------------------------------------------------------------------------
(* What an application may rely on                                         *)

\* Accounts keep signing, receipts are of what was mined, and fees that are offered pass or
\* fail for a reason, in every state and step of the three.
THEOREM ClientIsKept == SetupSpec /\ ReceiptsSpec /\ FeesSpec => ClientKeeps
  <1>1. SetupInv /\ ReceiptsInv /\ FeesInv =>
          /\ SetupTypeOK /\ (~Eager => KeysKept /\ TokenPaymasterKept)
          /\ ReceiptsTypeOK /\ ReceiptIsTrue /\ MinedIsFound
          /\ FeesTypeOK /\ RefusedForAReason /\ (FactorsFit => OwnFeesPass)
    BY SetupInvKeeps, ReceiptsInvKeeps, FeesInvKeeps
  <1>2. ReceiptsSpec => []ReceiptsInv /\ [][ReceiptsNext]_receiptVars
    BY ReceiptsInvariant, PTL DEF ReceiptsSpec
  <1> QED
    BY <1>1, <1>2, SetupInvariant, FeesInvariant, SuccessStands, PTL DEF ClientKeeps
=============================================================================
