------------------------- MODULE RepomapCacheProofs -------------------------
(***************************************************************************)
(* Theorems about RepomapCache: for any processes, texts, paths and        *)
(* capacities, and any number of requests.                                 *)
(***************************************************************************)
EXTENDS RepomapCache, TLAPS

\* Every store keeps under a key the map of the text the key is the digest of.
StoresMatchTheirKeys ==
  /\ \A p \in Process : \A i \in 1 .. Len(l1[p]) : l1[p][i].record.digest = l1[p][i].key
  /\ \A p \in Process : \A k \in Key : fallback[p][k] # None => fallback[p][k].digest = k
  /\ \A k \in Key : server[k] # None => server[k].digest = k

\* So does what is on its way to a process, and what it has just computed.
InFlightMatches ==
  \A p \in Process :
    /\ pc[p] = "reading" /\ reply[p] \in Record => reply[p].digest = ask[p].content
    /\ pc[p] = "got" /\ val[p] \in Record => val[p].digest = ask[p].content
    /\ pc[p] \in {"set", "acking"} => answer[p] # None

\* From the L1 lookup to _store_l1, the text asked for is not in L1.
Missing ==
  \A p \in Process : pc[p] \in {"get", "reading", "got", "compute"} =>
    \A i \in 1 .. Len(l1[p]) : l1[p][i].key # ask[p].content

\* A SET that was not refused has reached the server's table.
AcceptedSetsAreThere ==
  \A p \in Process : pc[p] = "acking" /\ reply[p] # Error =>
    server[ask[p].content] # None \/ ask[p].content \in gone

IInv ==
  /\ TypeOK
  /\ StoresMatchTheirKeys /\ InFlightMatches /\ AnswersMatchTheText
  /\ Missing /\ L1IsBounded
  /\ ValuesAreWhole
  /\ AcceptedSetsAreThere /\ StoredIsFindable
  /\ StatsAccount

\* Empty caches satisfy the invariant.
LEMMA InitSound == Init => IInv
  BY CacheAssumption, ValueAssumption DEF Init, IInv, TypeOK, StoresMatchTheirKeys,
     InFlightMatches, AnswersMatchTheText, Missing, L1IsBounded, ValuesAreWhole,
     AcceptedSetsAreThere, StoredIsFindable, StatsAccount

Entry == [key : Key, record : Record]

\* What _store_l1 makes of a table that does not hold the key: the entries it
\* keeps come from the table, the new one is last, and the bound holds.
LEMMA StoringKeepsTheBound ==
  ASSUME NEW entries \in Seq(Entry), Len(entries) <= l1_capacity,
         NEW e \in Entry
  PROVE  LET new == Append(Evicted(entries), e)
         IN /\ new \in Seq(Entry)
            /\ Len(new) \in 1 .. l1_capacity
            /\ new[Len(new)] = e
            /\ \E shift \in {0, 1} :
                 \A i \in 1 .. Len(new) - 1 :
                   i + shift \in 1 .. Len(entries) /\ new[i] = entries[i + shift]
<1> DEFINE kept == Evicted(entries)
<1> DEFINE new == Append(kept, e)
<1> USE CacheAssumption
<1>1. CASE Len(entries) >= l1_capacity
  <2>1. entries # <<>> /\ kept = Tail(entries)
    BY <1>1 DEF Evicted
  <2>2. /\ kept \in Seq(Entry) /\ Len(kept) = Len(entries) - 1
        /\ \A i \in 1 .. Len(kept) : kept[i] = entries[i + 1]
    BY <2>1
  <2>3. /\ new \in Seq(Entry) /\ Len(new) = Len(kept) + 1
        /\ new[Len(new)] = e /\ \A i \in 1 .. Len(kept) : new[i] = kept[i]
    BY <2>2
  <2>4. \A i \in 1 .. Len(new) - 1 : i + 1 \in 1 .. Len(entries) /\ new[i] = entries[i + 1]
    BY <2>2, <2>3
  <2> HIDE DEF new, kept
  <2> QED BY <2>2, <2>3, <2>4 DEF new, kept
<1>2. CASE ~(Len(entries) >= l1_capacity)
  <2>1. kept = entries
    BY <1>2 DEF Evicted
  <2>2. /\ new \in Seq(Entry) /\ Len(new) = Len(entries) + 1
        /\ new[Len(new)] = e /\ \A i \in 1 .. Len(entries) : new[i] = entries[i]
    BY <2>1
  <2>3. \A i \in 1 .. Len(new) - 1 : i + 0 \in 1 .. Len(entries) /\ new[i] = entries[i + 0]
    BY <2>2
  <2> HIDE DEF new, kept
  <2> QED BY <1>2, <2>2, <2>3 DEF new, kept
<1> QED BY <1>1, <1>2

\* A request names a text; the key it stores under is that text.
LEMMA AskedFor ==
  ASSUME TypeOK, NEW p \in Process, pc[p] # "idle"
  PROVE  /\ ask[p] \in [path : Path, content : Content]
         /\ KeyOf(p) = ask[p].content /\ ask[p].content \in Key
  BY DEF TypeOK, KeyOf, cache_key, Key

\* _store_l1 of a map of the text asked for.
LEMMA StoreL1Keeps ==
  ASSUME IInv, NEW p \in Process, pc[p] \in {"got", "compute"},
         NEW record \in Record, record.digest = ask[p].content,
         StoreL1(p, record)
  PROVE  /\ l1' \in [Process -> Seq(Entry)]
         /\ L1IsBounded'
         /\ \A q \in Process \ {p} : l1'[q] = l1[q]
         /\ \A q \in Process : \A i \in 1 .. Len(l1'[q]) : l1'[q][i].record.digest = l1'[q][i].key
<1> DEFINE e == [key |-> KeyOf(p), record |-> record]
<1> DEFINE new == Append(Evicted(l1[p]), e)
<1>1. e \in Entry /\ e.key = ask[p].content /\ e.record = record
  BY AskedFor DEF IInv, Entry
<1>2. l1 \in [Process -> Seq(Entry)]
  BY DEF IInv, TypeOK, Entry
<1>3. /\ new \in Seq(Entry) /\ Len(new) \in 1 .. l1_capacity /\ new[Len(new)] = e
      /\ \E shift \in {0, 1} : \A i \in 1 .. Len(new) - 1 :
           i + shift \in 1 .. Len(l1[p]) /\ new[i] = l1[p][i + shift]
  <2>1. l1[p] \in Seq(Entry) /\ Len(l1[p]) <= l1_capacity
    BY <1>2 DEF IInv, L1IsBounded
  <2> HIDE DEF e
  <2> QED BY <1>1, <2>1, StoringKeepsTheBound
<1>4. l1' = [l1 EXCEPT ![p] = new]
  BY DEF StoreL1
<1> PICK shift \in {0, 1} : \A i \in 1 .. Len(new) - 1 :
           i + shift \in 1 .. Len(l1[p]) /\ new[i] = l1[p][i + shift]
  BY <1>3
<1> HIDE DEF new, e
<1>5. l1'[p] = new /\ \A q \in Process \ {p} : l1'[q] = l1[q]
  BY <1>2, <1>4
<1>6. l1' \in [Process -> Seq(Entry)]
  BY <1>2, <1>3, <1>4
<1>7. \A i \in 1 .. Len(new) : new[i].record.digest = new[i].key
  <2> TAKE i \in 1 .. Len(new)
  <2>1. CASE i = Len(new)
    BY <1>1, <1>3, <2>1
  <2>2. CASE i # Len(new)
    <3>1. i \in 1 .. Len(new) - 1
      BY <1>3, <2>2
    <3> QED BY <3>1 DEF IInv, StoresMatchTheirKeys
  <2> QED BY <2>1, <2>2
<1>8. \A i, j \in 1 .. Len(new) : new[i].key = new[j].key => i = j
  <2>1. \A i \in 1 .. Len(new) - 1 : new[i].key # e.key
    BY <1>1 DEF IInv, Missing
  <2>2. \A i, j \in 1 .. Len(new) - 1 : new[i].key = new[j].key => i = j
    <3> TAKE i, j \in 1 .. Len(new) - 1
    <3>1. /\ i + shift \in 1 .. Len(l1[p]) /\ new[i] = l1[p][i + shift]
          /\ j + shift \in 1 .. Len(l1[p]) /\ new[j] = l1[p][j + shift]
      OBVIOUS
    <3>2. l1[p][i + shift].key = l1[p][j + shift].key => i + shift = j + shift
      BY <3>1 DEF IInv, L1IsBounded
    <3> QED BY <3>1, <3>2
  <2> QED BY <1>3, <2>1, <2>2
<1>9. L1IsBounded'
  BY <1>3, <1>5, <1>8 DEF IInv, L1IsBounded
<1>10. ASSUME NEW q \in Process, NEW i \in 1 .. Len(l1'[q])
      PROVE  l1'[q][i].record.digest = l1'[q][i].key
  <2>1. CASE q = p BY <1>5, <1>7, <2>1
  <2>2. CASE q # p BY <1>5, <2>2 DEF IInv, StoresMatchTheirKeys
  <2> QED BY <2>1, <2>2
<1> QED BY <1>5, <1>6, <1>9, <1>10

\* Between the segments of a reply, and for every step that touches only one
\* process's place in a command, the stores are as they were.
LEMMA RecvKeeps ==
  ASSUME IInv, NEW p \in Process, Recv(p)
  PROVE  IInv'
<1> USE CacheAssumption, ValueAssumption
<1>1. /\ TypeOK /\ pc[p] = "reading" /\ arrived[p] < ReplySize
      /\ UNCHANGED <<ask, l1, stats, is_connected, fallback, answer, requests, server, stored, gone>>
  BY DEF Recv, IInv, client, cache, history
<1>2. ask[p].content \in Key /\ KeyOf(p) = ask[p].content
  BY <1>1, AskedFor
<1>3. CASE Whole(reply[p], arrived[p] + 1)
  <2>1. reply[p] \in Record \cup {None, Error} /\ arrived[p] \in 0 .. ReplySize
    BY <1>1 DEF TypeOK
  <2>2. /\ pc' = [pc EXCEPT ![p] = "got"]
        /\ reply' = [reply EXCEPT ![p] = None] /\ arrived' = [arrived EXCEPT ![p] = 0]
        /\ val' = [val EXCEPT ![p] = IF reply[p] = None THEN fallback[p][KeyOf(p)] ELSE reply[p]]
    BY <1>3, <2>1 DEF Recv, Whole
  <2>3. fallback[p][KeyOf(p)] \in Record \cup {None}
    BY <1>1, <1>2 DEF TypeOK
  <2>4. val' \in [Process -> Record \cup {None, Error, Clipped}]
    BY <1>1, <2>1, <2>2, <2>3 DEF TypeOK
  <2>5. /\ pc' \in [Process -> {"idle", "get", "reading", "got", "compute", "set", "acking"}]
        /\ reply' \in [Process -> Record \cup {None, Error}]
        /\ arrived' \in [Process -> 0 .. ReplySize]
    BY <1>1, <2>2 DEF TypeOK
  <2>6. TypeOK'
    BY <1>1, <2>2, <2>4, <2>5 DEF TypeOK
  <2>7. val'[p] # Clipped /\ (val'[p] \in Record => val'[p].digest = ask[p].content)
    BY <1>1, <1>2, <2>1, <2>2, <2>3 DEF IInv, TypeOK, StoresMatchTheirKeys, InFlightMatches
  <2>8. InFlightMatches' /\ ValuesAreWhole'
    BY <1>1, <2>2, <2>7 DEF IInv, TypeOK, InFlightMatches, ValuesAreWhole
  <2>9. Missing' /\ AcceptedSetsAreThere' /\ StatsAccount'
    BY <1>1, <2>2 DEF IInv, TypeOK, Missing, AcceptedSetsAreThere, StatsAccount
  <2> QED BY <1>1, <2>6, <2>8, <2>9 DEF IInv, StoresMatchTheirKeys, AnswersMatchTheText,
             L1IsBounded, StoredIsFindable
<1>4. CASE ~Whole(reply[p], arrived[p] + 1)
  <2>1. arrived' = [arrived EXCEPT ![p] = arrived[p] + 1] /\ UNCHANGED <<pc, val, reply>>
    BY <1>4 DEF Recv
  <2>2. arrived' \in [Process -> 0 .. ReplySize]
    BY <1>1, <2>1 DEF TypeOK
  <2>3. TypeOK'
    BY <1>1, <2>1, <2>2 DEF TypeOK
  <2> QED BY <1>1, <2>1, <2>3 DEF IInv, StoresMatchTheirKeys, InFlightMatches,
             AnswersMatchTheText, Missing, L1IsBounded, ValuesAreWhole, AcceptedSetsAreThere,
             StoredIsFindable, StatsAccount
<1> QED BY <1>3, <1>4

\* An element of a sequence over a set.
LEMMA ElementOfSeq ==
  ASSUME NEW S, NEW s \in Seq(S), NEW i \in 1 .. Len(s)
  PROVE  s[i] \in S
  OBVIOUS

\* The counters are numbers.
Counts == [l1_hits : Nat, l2_hits : Nat, misses : Nat]

\* The counters of a process are naturals.
LEMMA CountersAreNumbers ==
  ASSUME TypeOK
  PROVE  \A q \in Process : stats[q] \in Counts /\ requests[q] \in Nat
  BY CacheAssumption DEF TypeOK, Counts

\* A request under the bound is counted.
LEMMA RequestCounts ==
  ASSUME TypeOK, NEW p \in Process, NEW path \in Path, NEW content \in Content,
         Request(p, path, content)
  PROVE  /\ requests' \in [Process -> 0 .. MaxRequests]
         /\ ask' \in [Process -> [path : Path, content : Content] \cup {None}]
         /\ requests' = [requests EXCEPT ![p] = requests[p] + 1]
         /\ ask' = [ask EXCEPT ![p] = [path |-> path, content |-> content]]
         /\ ask'[p] # None /\ ask'[p].content = content
         /\ pc[p] = "idle"
<1>1. requests[p] \in 0 .. MaxRequests /\ requests[p] < MaxRequests /\ MaxRequests \in Nat
  BY CacheAssumption DEF TypeOK, Request
<1>2. requests[p] + 1 \in 0 .. MaxRequests
  BY <1>1
<1>3. [path |-> path, content |-> content] \in [path : Path, content : Content]
  OBVIOUS
<1> QED BY <1>2, <1>3, ValueAssumption DEF TypeOK, Request

\* A hit in the process's own cache keeps the invariant.
LEMMA L1HitKeeps ==
  ASSUME IInv, NEW p \in Process, NEW path \in Path, NEW content \in Content,
         L1Hit(p, path, content)
  PROVE  IInv'
<1>1. TypeOK
  BY DEF IInv
<1>2. /\ requests' \in [Process -> 0 .. MaxRequests]
      /\ ask' \in [Process -> [path : Path, content : Content] \cup {None}]
      /\ requests' = [requests EXCEPT ![p] = requests[p] + 1]
      /\ ask' = [ask EXCEPT ![p] = [path |-> path, content |-> content]]
      /\ ask'[p] # None /\ ask'[p].content = content /\ pc[p] = "idle"
  BY <1>1, RequestCounts DEF L1Hit
<1>3. /\ stats' = [stats EXCEPT ![p].l1_hits = @ + 1]
      /\ UNCHANGED <<pc, l1, is_connected, fallback, reply, arrived, val, server, stored, gone>>
  BY DEF L1Hit, client, wire, history
<1>4. PICK i \in 1 .. Len(l1[p]) :
        l1[p][i].key = content /\ answer' = [answer EXCEPT ![p] = l1[p][i].record]
  BY DEF L1Hit, cache_key
<1>5. l1[p][i].record \in Record /\ l1[p][i].record.digest = content
  <2>1. l1[p] \in Seq([key : Key, record : Record])
    BY <1>1 DEF TypeOK
  <2>2. l1[p][i] \in [key : Key, record : Record]
    BY <2>1, <1>4, ElementOfSeq
  <2> QED BY <2>2, <1>4 DEF IInv, StoresMatchTheirKeys
<1>6. answer' \in [Process -> Record \cup {None}] /\ answer'[p].digest = content
  BY <1>1, <1>4, <1>5 DEF TypeOK
<1>7. stats' \in [Process -> Counts]
  <2>1. stats[p] \in Counts /\ stats \in [Process -> Counts]
    BY <1>1 DEF TypeOK, Counts
  <2>2. [stats[p] EXCEPT !.l1_hits = @ + 1] \in Counts
    BY <2>1 DEF Counts
  <2> QED BY <1>3, <2>1, <2>2
<1>8. TypeOK'
  BY <1>1, <1>2, <1>3, <1>6, <1>7 DEF TypeOK, Counts
<1>9. AnswersMatchTheText' /\ InFlightMatches'
  BY <1>1, <1>2, <1>3, <1>4, <1>6 DEF IInv, TypeOK, AnswersMatchTheText, InFlightMatches
<1>10. Missing' /\ AcceptedSetsAreThere'
  BY <1>1, <1>2, <1>3 DEF IInv, TypeOK, Missing, AcceptedSetsAreThere
<1>11. StatsAccount'
  <2>1. \A q \in Process : stats[q] \in Counts /\ requests[q] \in Nat
    BY <1>1, CountersAreNumbers
  <2>2. /\ stats'[p].l1_hits = stats[p].l1_hits + 1
        /\ stats'[p].l2_hits = stats[p].l2_hits /\ stats'[p].misses = stats[p].misses
        /\ requests'[p] = requests[p] + 1
        /\ \A q \in Process \ {p} : stats'[q] = stats[q] /\ requests'[q] = requests[q]
    BY <1>1, <1>2, <1>3 DEF TypeOK
  <2>3. \A q \in Process \ {p} :
          stats'[q].l1_hits + stats'[q].l2_hits + stats'[q].misses
            = requests'[q] - (IF pc'[q] \in {"get", "reading", "got"} THEN 1 ELSE 0)
    BY <1>3, <2>2 DEF IInv, StatsAccount
  <2>4. stats[p].l1_hits + stats[p].l2_hits + stats[p].misses = requests[p] - 0
    BY <1>2 DEF IInv, StatsAccount
  <2>5. stats'[p].l1_hits + stats'[p].l2_hits + stats'[p].misses = requests'[p] - 0
    BY <2>1, <2>2, <2>4 DEF Counts
  <2> QED BY <1>2, <1>3, <2>3, <2>5 DEF StatsAccount
<1> QED BY <1>3, <1>8, <1>9, <1>10, <1>11 DEF IInv, StoresMatchTheirKeys, L1IsBounded,
           ValuesAreWhole, StoredIsFindable

\* A miss in the process's own cache keeps the invariant.
LEMMA L1MissKeeps ==
  ASSUME IInv, NEW p \in Process, NEW path \in Path, NEW content \in Content,
         L1Miss(p, path, content)
  PROVE  IInv'
<1>1. TypeOK
  BY DEF IInv
<1>2. /\ requests' \in [Process -> 0 .. MaxRequests]
      /\ ask' \in [Process -> [path : Path, content : Content] \cup {None}]
      /\ requests' = [requests EXCEPT ![p] = requests[p] + 1]
      /\ ask' = [ask EXCEPT ![p] = [path |-> path, content |-> content]]
      /\ ask'[p] # None /\ ask'[p].content = content /\ pc[p] = "idle"
  BY <1>1, RequestCounts DEF L1Miss
<1>3. /\ pc' = [pc EXCEPT ![p] = "get"] /\ answer' = [answer EXCEPT ![p] = None]
      /\ \A i \in 1 .. Len(l1[p]) : l1[p][i].key # content
      /\ UNCHANGED <<l1, stats, is_connected, fallback, reply, arrived, val, server, stored, gone>>
  BY DEF L1Miss, client, wire, history, cache, cache_key
<1>4. /\ pc' \in [Process -> {"idle", "get", "reading", "got", "compute", "set", "acking"}]
      /\ answer' \in [Process -> Record \cup {None}]
  BY <1>1, <1>3 DEF TypeOK
<1>5. TypeOK'
  BY <1>1, <1>2, <1>3, <1>4 DEF TypeOK
<1>6. AnswersMatchTheText' /\ InFlightMatches'
  BY <1>1, <1>2, <1>3 DEF IInv, TypeOK, AnswersMatchTheText, InFlightMatches
<1>7. Missing' /\ AcceptedSetsAreThere'
  BY <1>1, <1>2, <1>3 DEF IInv, TypeOK, Missing, AcceptedSetsAreThere
<1>8. StatsAccount'
  <2>1. \A q \in Process : stats[q] \in Counts /\ requests[q] \in Nat
    BY <1>1, CountersAreNumbers
  <2>2. /\ requests'[p] = requests[p] + 1 /\ pc'[p] = "get"
        /\ \A q \in Process \ {p} : pc'[q] = pc[q] /\ requests'[q] = requests[q]
    BY <1>1, <1>2, <1>3 DEF TypeOK
  <2> QED BY <1>2, <1>3, <2>1, <2>2 DEF IInv, StatsAccount, Counts
<1> QED BY <1>3, <1>5, <1>6, <1>7, <1>8 DEF IInv, StoresMatchTheirKeys, L1IsBounded,
           ValuesAreWhole, StoredIsFindable

\* What the fallback store yields for the text asked for is its map or nothing.
LEMMA FallbackYields ==
  ASSUME IInv, NEW p \in Process, pc[p] # "idle"
  PROVE  /\ fallback[p][KeyOf(p)] \in Record \cup {None}
         /\ fallback[p][KeyOf(p)] # None => fallback[p][KeyOf(p)].digest = ask[p].content
<1>1. TypeOK /\ KeyOf(p) \in Key /\ KeyOf(p) = ask[p].content
  BY AskedFor DEF IInv
<1> QED BY <1>1 DEF IInv, TypeOK, StoresMatchTheirKeys

\* A get answered without Valkey keeps the invariant.
LEMMA GetLocallyKeeps ==
  ASSUME IInv, NEW p \in Process, GetLocally(p)
  PROVE  IInv'
<1>1. /\ TypeOK /\ pc[p] = "get" /\ pc' = [pc EXCEPT ![p] = "got"]
      /\ val' = [val EXCEPT ![p] = fallback[p][KeyOf(p)]]
      /\ UNCHANGED <<ask, l1, stats, is_connected, fallback, reply, arrived, answer,
                     requests, server, stored, gone>>
  BY DEF GetLocally, IInv, client, wire, cache, history
<1>2. /\ fallback[p][KeyOf(p)] \in Record \cup {None}
      /\ fallback[p][KeyOf(p)] # None => fallback[p][KeyOf(p)].digest = ask[p].content
  BY <1>1, FallbackYields
<1>3. /\ pc' \in [Process -> {"idle", "get", "reading", "got", "compute", "set", "acking"}]
      /\ val' \in [Process -> Record \cup {None, Error, Clipped}]
  BY <1>1, <1>2 DEF TypeOK
<1>4. TypeOK'
  BY <1>1, <1>3 DEF TypeOK
<1>5. InFlightMatches' /\ ValuesAreWhole'
  BY <1>1, <1>2, ValueAssumption DEF IInv, TypeOK, InFlightMatches, ValuesAreWhole
<1>6. Missing' /\ AcceptedSetsAreThere' /\ StatsAccount'
  BY <1>1 DEF IInv, TypeOK, Missing, AcceptedSetsAreThere, StatsAccount
<1> QED BY <1>1, <1>4, <1>5, <1>6 DEF IInv, StoresMatchTheirKeys, AnswersMatchTheText,
           L1IsBounded, StoredIsFindable

\* A get whose answer is lost keeps the invariant.
LEMMA RecvFailsKeeps ==
  ASSUME IInv, NEW p \in Process, RecvFails(p)
  PROVE  IInv'
<1>1. /\ TypeOK /\ pc[p] = "reading" /\ pc' = [pc EXCEPT ![p] = "got"]
      /\ val' = [val EXCEPT ![p] = fallback[p][KeyOf(p)]]
      /\ arrived' = [arrived EXCEPT ![p] = 0] /\ reply' = [reply EXCEPT ![p] = None]
      /\ UNCHANGED <<ask, l1, stats, is_connected, fallback, answer,
                     requests, server, stored, gone>>
  BY DEF RecvFails, IInv, client, cache, history
<1>2. /\ fallback[p][KeyOf(p)] \in Record \cup {None}
      /\ fallback[p][KeyOf(p)] # None => fallback[p][KeyOf(p)].digest = ask[p].content
  BY <1>1, FallbackYields
<1>3. /\ pc' \in [Process -> {"idle", "get", "reading", "got", "compute", "set", "acking"}]
      /\ val' \in [Process -> Record \cup {None, Error, Clipped}]
      /\ reply' \in [Process -> Record \cup {None, Error}]
      /\ arrived' \in [Process -> 0 .. ReplySize]
  BY <1>1, <1>2, CacheAssumption DEF TypeOK
<1>4. TypeOK'
  BY <1>1, <1>3 DEF TypeOK
<1>5. InFlightMatches' /\ ValuesAreWhole'
  BY <1>1, <1>2, ValueAssumption DEF IInv, TypeOK, InFlightMatches, ValuesAreWhole
<1>6. Missing' /\ AcceptedSetsAreThere' /\ StatsAccount'
  BY <1>1 DEF IInv, TypeOK, Missing, AcceptedSetsAreThere, StatsAccount
<1> QED BY <1>1, <1>4, <1>5, <1>6 DEF IInv, StoresMatchTheirKeys, AnswersMatchTheText,
           L1IsBounded, StoredIsFindable

\* Sending a get keeps the invariant.
LEMMA GetSendKeeps ==
  ASSUME IInv, NEW p \in Process, GetSend(p)
  PROVE  IInv'
<1>1. /\ TypeOK /\ pc[p] = "get" /\ pc' = [pc EXCEPT ![p] = "reading"]
      /\ arrived' = [arrived EXCEPT ![p] = 0]
      /\ UNCHANGED <<ask, l1, stats, is_connected, fallback, val, answer,
                     requests, server, stored, gone>>
  BY DEF GetSend, IInv, client, cache, history
<1>2. PICK r \in {server[KeyOf(p)], Error} : reply' = [reply EXCEPT ![p] = r]
  BY DEF GetSend
<1>3. /\ r \in Record \cup {None, Error}
      /\ r \in Record => r.digest = ask[p].content
  <2>1. KeyOf(p) \in Key /\ KeyOf(p) = ask[p].content
    BY <1>1, AskedFor
  <2> QED BY <1>1, <1>2, <2>1, ValueAssumption DEF IInv, TypeOK, StoresMatchTheirKeys
<1>4. /\ pc' \in [Process -> {"idle", "get", "reading", "got", "compute", "set", "acking"}]
      /\ reply' \in [Process -> Record \cup {None, Error}]
      /\ arrived' \in [Process -> 0 .. ReplySize]
  BY <1>1, <1>2, <1>3, CacheAssumption DEF TypeOK
<1>5. TypeOK'
  BY <1>1, <1>4 DEF TypeOK
<1>6. InFlightMatches'
  BY <1>1, <1>2, <1>3 DEF IInv, TypeOK, InFlightMatches
<1>7. Missing' /\ AcceptedSetsAreThere' /\ StatsAccount'
  BY <1>1, <1>2 DEF IInv, TypeOK, Missing, AcceptedSetsAreThere, StatsAccount
<1> QED BY <1>1, <1>5, <1>6, <1>7 DEF IInv, StoresMatchTheirKeys, AnswersMatchTheText,
           L1IsBounded, StoredIsFindable, ValuesAreWhole

\* A value found in Valkey keeps the invariant.
LEMMA L2HitKeeps ==
  ASSUME IInv, NEW p \in Process, L2Hit(p)
  PROVE  IInv'
<1>1. /\ TypeOK /\ pc[p] = "got" /\ val[p] \in Record /\ pc' = [pc EXCEPT ![p] = "idle"]
      /\ StoreL1(p, val[p])
      /\ stats' = [stats EXCEPT ![p].l2_hits = @ + 1]
      /\ answer' = [answer EXCEPT ![p] = val[p]] /\ val' = [val EXCEPT ![p] = None]
      /\ UNCHANGED <<ask, is_connected, fallback, reply, arrived, requests, server, stored, gone>>
  BY DEF L2Hit, IInv, client, wire, history
<1>2. val[p].digest = ask[p].content
  BY <1>1 DEF IInv, InFlightMatches
<1>3. /\ l1' \in [Process -> Seq(Entry)] /\ L1IsBounded'
      /\ \A q \in Process \ {p} : l1'[q] = l1[q]
      /\ \A q \in Process : \A i \in 1 .. Len(l1'[q]) : l1'[q][i].record.digest = l1'[q][i].key
  BY <1>1, <1>2, StoreL1Keeps
<1>4. stats' \in [Process -> Counts]
  <2>1. stats[p] \in Counts /\ stats \in [Process -> Counts]
    BY <1>1 DEF TypeOK, Counts
  <2>2. [stats[p] EXCEPT !.l2_hits = @ + 1] \in Counts
    BY <2>1 DEF Counts
  <2> QED BY <1>1, <2>1, <2>2
<1>5. /\ pc' \in [Process -> {"idle", "get", "reading", "got", "compute", "set", "acking"}]
      /\ val' \in [Process -> Record \cup {None, Error, Clipped}]
      /\ answer' \in [Process -> Record \cup {None}]
  BY <1>1 DEF TypeOK
<1>6. TypeOK'
  BY <1>1, <1>3, <1>4, <1>5 DEF TypeOK, Counts, Entry
<1>7. StoresMatchTheirKeys'
  BY <1>1, <1>3 DEF IInv, StoresMatchTheirKeys
<1>8. AnswersMatchTheText' /\ InFlightMatches' /\ ValuesAreWhole'
  BY <1>1, <1>2, ValueAssumption DEF IInv, TypeOK, AnswersMatchTheText, InFlightMatches, ValuesAreWhole
<1>9. Missing' /\ AcceptedSetsAreThere'
  <2>1. pc'[p] = "idle" /\ \A q \in Process \ {p} : pc'[q] = pc[q] /\ l1'[q] = l1[q]
    BY <1>1, <1>3 DEF TypeOK
  <2>2. Missing'
    BY <1>1, <2>1 DEF IInv, Missing
  <2>3. AcceptedSetsAreThere'
    BY <1>1, <2>1 DEF IInv, AcceptedSetsAreThere
  <2> QED BY <2>2, <2>3
<1>10. StatsAccount'
  <2>1. \A q \in Process : stats[q] \in Counts /\ requests[q] \in Nat
    BY <1>1, CountersAreNumbers
  <2>2. /\ stats'[p].l2_hits = stats[p].l2_hits + 1
        /\ stats'[p].l1_hits = stats[p].l1_hits /\ stats'[p].misses = stats[p].misses
        /\ \A q \in Process \ {p} : stats'[q] = stats[q] /\ pc'[q] = pc[q]
        /\ pc'[p] = "idle"
    BY <1>1 DEF TypeOK
  <2> QED BY <1>1, <2>1, <2>2 DEF IInv, StatsAccount, Counts
<1> QED BY <1>1, <1>3, <1>6, <1>7, <1>8, <1>9, <1>10 DEF IInv, StoredIsFindable

\* A value not found in Valkey keeps the invariant.
LEMMA L2MissKeeps ==
  ASSUME IInv, NEW p \in Process, L2Miss(p)
  PROVE  IInv'
<1>1. /\ TypeOK /\ pc[p] = "got" /\ pc' = [pc EXCEPT ![p] = "compute"]
      /\ stats' = [stats EXCEPT ![p].misses = @ + 1] /\ val' = [val EXCEPT ![p] = None]
      /\ UNCHANGED <<ask, l1, is_connected, fallback, reply, arrived, answer,
                     requests, server, stored, gone>>
  BY DEF L2Miss, IInv, client, wire, history
<1>2. stats' \in [Process -> Counts]
  <2>1. stats[p] \in Counts /\ stats \in [Process -> Counts]
    BY <1>1 DEF TypeOK, Counts
  <2>2. [stats[p] EXCEPT !.misses = @ + 1] \in Counts
    BY <2>1 DEF Counts
  <2> QED BY <1>1, <2>1, <2>2
<1>3. /\ pc' \in [Process -> {"idle", "get", "reading", "got", "compute", "set", "acking"}]
      /\ val' \in [Process -> Record \cup {None, Error, Clipped}]
  BY <1>1 DEF TypeOK
<1>4. TypeOK'
  BY <1>1, <1>2, <1>3 DEF TypeOK, Counts
<1>5. InFlightMatches' /\ ValuesAreWhole'
  BY <1>1, ValueAssumption DEF IInv, TypeOK, InFlightMatches, ValuesAreWhole
<1>6. Missing' /\ AcceptedSetsAreThere'
  BY <1>1 DEF IInv, TypeOK, Missing, AcceptedSetsAreThere
<1>7. StatsAccount'
  <2>1. \A q \in Process : stats[q] \in Counts /\ requests[q] \in Nat
    BY <1>1, CountersAreNumbers
  <2>2. /\ stats'[p].misses = stats[p].misses + 1
        /\ stats'[p].l1_hits = stats[p].l1_hits /\ stats'[p].l2_hits = stats[p].l2_hits
        /\ \A q \in Process \ {p} : stats'[q] = stats[q] /\ pc'[q] = pc[q]
        /\ pc'[p] = "compute"
    BY <1>1 DEF TypeOK
  <2> QED BY <1>1, <2>1, <2>2 DEF IInv, StatsAccount, Counts
<1> QED BY <1>1, <1>4, <1>5, <1>6, <1>7 DEF IInv, StoresMatchTheirKeys, AnswersMatchTheText,
           L1IsBounded, StoredIsFindable

\* A computation that raises keeps the invariant.
LEMMA ComputeFailsKeeps ==
  ASSUME IInv, NEW p \in Process, ComputeFails(p)
  PROVE  IInv'
<1>1. /\ TypeOK /\ pc[p] = "compute" /\ pc' = [pc EXCEPT ![p] = "idle"]
      /\ UNCHANGED <<ask, l1, stats, is_connected, fallback, reply, arrived, val, answer,
                     requests, server, stored, gone>>
  BY DEF ComputeFails, IInv, client, wire, cache, history
<1>2. TypeOK'
  BY <1>1 DEF TypeOK
<1>3. InFlightMatches' /\ Missing' /\ AcceptedSetsAreThere' /\ StatsAccount'
  BY <1>1 DEF IInv, TypeOK, InFlightMatches, Missing, AcceptedSetsAreThere, StatsAccount
<1> QED BY <1>1, <1>2, <1>3 DEF IInv, StoresMatchTheirKeys, AnswersMatchTheText,
           L1IsBounded, StoredIsFindable, ValuesAreWhole

\* A computation that returns keeps the invariant.
LEMMA ComputeKeeps ==
  ASSUME IInv, NEW p \in Process, Compute(p)
  PROVE  IInv'
<1>1. /\ TypeOK /\ pc[p] = "compute" /\ pc' = [pc EXCEPT ![p] = "set"]
      /\ StoreL1(p, Computed(p))
      /\ answer' = [answer EXCEPT ![p] = Computed(p)]
      /\ UNCHANGED <<ask, is_connected, fallback, reply, arrived, val, stats, requests,
                     server, stored, gone>>
  BY DEF Compute, IInv, client, wire, history
<1>2. Computed(p) \in Record /\ Computed(p).digest = ask[p].content /\ Computed(p) # None
  BY <1>1, AskedFor, ValueAssumption DEF Computed, Record
<1>3. /\ l1' \in [Process -> Seq(Entry)] /\ L1IsBounded'
      /\ \A q \in Process \ {p} : l1'[q] = l1[q]
      /\ \A q \in Process : \A i \in 1 .. Len(l1'[q]) : l1'[q][i].record.digest = l1'[q][i].key
  BY <1>1, <1>2, StoreL1Keeps
<1>4. /\ pc' \in [Process -> {"idle", "get", "reading", "got", "compute", "set", "acking"}]
      /\ answer' \in [Process -> Record \cup {None}]
  BY <1>1, <1>2 DEF TypeOK
<1>5. TypeOK'
  BY <1>1, <1>3, <1>4 DEF TypeOK, Entry
<1>6. StoresMatchTheirKeys'
  BY <1>1, <1>3 DEF IInv, StoresMatchTheirKeys
<1>7. AnswersMatchTheText' /\ InFlightMatches'
  BY <1>1, <1>2 DEF IInv, TypeOK, AnswersMatchTheText, InFlightMatches
<1>8. pc'[p] = "set" /\ \A q \in Process \ {p} : pc'[q] = pc[q] /\ l1'[q] = l1[q]
  BY <1>1, <1>3 DEF TypeOK
<1>9. Missing'
  BY <1>1, <1>8 DEF IInv, Missing
<1>10. AcceptedSetsAreThere' /\ StatsAccount'
  BY <1>1, <1>8 DEF IInv, AcceptedSetsAreThere, StatsAccount
<1> QED BY <1>1, <1>3, <1>5, <1>6, <1>7, <1>9, <1>10 DEF IInv, StoredIsFindable, ValuesAreWhole

\* KeepLocally puts the map just computed under its text's digest.
LEMMA KeptLocally ==
  ASSUME IInv, NEW p \in Process, pc[p] \in {"set", "acking"}, KeepLocally(p),
         UNCHANGED <<ask, l1, server, gone>>
  PROVE  /\ fallback' \in [Process -> [Key -> Record \cup {None}]]
         /\ stored' \in [Process -> SUBSET Key]
         /\ StoresMatchTheirKeys' /\ StoredIsFindable'
<1>1. /\ KeyOf(p) \in Key /\ KeyOf(p) = ask[p].content
      /\ answer[p] \in Record /\ answer[p] # None /\ answer[p].digest = ask[p].content
  BY AskedFor DEF IInv, TypeOK, InFlightMatches, AnswersMatchTheText
<1>2. /\ fallback' = [fallback EXCEPT ![p] = [fallback[p] EXCEPT ![KeyOf(p)] = answer[p]]]
      /\ stored' = [stored EXCEPT ![p] = stored[p] \cup {KeyOf(p)}]
  BY DEF KeepLocally
<1>3. fallback \in [Process -> [Key -> Record \cup {None}]] /\ stored \in [Process -> SUBSET Key]
  BY DEF IInv, TypeOK
<1>4. [fallback[p] EXCEPT ![KeyOf(p)] = answer[p]] \in [Key -> Record \cup {None}]
  BY <1>1, <1>3
<1>5. fallback' \in [Process -> [Key -> Record \cup {None}]] /\ stored' \in [Process -> SUBSET Key]
  BY <1>1, <1>2, <1>3, <1>4
<1>6. \A q \in Process, k \in Key :
        fallback'[q][k] = IF q = p /\ k = KeyOf(p) THEN answer[p] ELSE fallback[q][k]
  BY <1>1, <1>2, <1>3, <1>4
<1>7. StoresMatchTheirKeys'
  BY <1>1, <1>6 DEF IInv, StoresMatchTheirKeys
<1>8. \A q \in Process : stored'[q] = IF q = p THEN stored[p] \cup {KeyOf(p)} ELSE stored[q]
  BY <1>2, <1>3
<1>9. StoredIsFindable'
  BY <1>1, <1>3, <1>6, <1>8 DEF IInv, StoredIsFindable
<1> QED BY <1>5, <1>7, <1>9

\* A set that does not reach Valkey keeps the invariant.
LEMMA SetLocallyKeeps ==
  ASSUME IInv, NEW p \in Process, SetLocally(p)
  PROVE  IInv'
<1>1. /\ TypeOK /\ pc[p] = "set" /\ pc' = [pc EXCEPT ![p] = "idle"] /\ KeepLocally(p)
      /\ UNCHANGED <<ask, l1, stats, is_connected, reply, arrived, val, answer, requests,
                     server, gone>>
  BY DEF SetLocally, IInv, wire, cache
<1>2. /\ fallback' \in [Process -> [Key -> Record \cup {None}]]
      /\ stored' \in [Process -> SUBSET Key]
      /\ StoresMatchTheirKeys' /\ StoredIsFindable'
  BY <1>1, KeptLocally
<1>3. TypeOK'
  BY <1>1, <1>2 DEF TypeOK
<1>4. InFlightMatches' /\ Missing' /\ AcceptedSetsAreThere' /\ StatsAccount'
  BY <1>1 DEF IInv, TypeOK, InFlightMatches, Missing, AcceptedSetsAreThere, StatsAccount
<1> QED BY <1>1, <1>2, <1>3, <1>4 DEF IInv, AnswersMatchTheText, L1IsBounded, ValuesAreWhole

\* A set whose acknowledgement is lost keeps the invariant.
LEMMA SetUnackedKeeps ==
  ASSUME IInv, NEW p \in Process, SetUnacked(p)
  PROVE  IInv'
<1>1. /\ TypeOK /\ pc[p] = "acking" /\ pc' = [pc EXCEPT ![p] = "idle"] /\ KeepLocally(p)
      /\ reply' = [reply EXCEPT ![p] = None]
      /\ UNCHANGED <<ask, l1, stats, is_connected, arrived, val, answer, requests,
                     server, gone>>
  BY DEF SetUnacked, IInv, cache
<1>2. /\ fallback' \in [Process -> [Key -> Record \cup {None}]]
      /\ stored' \in [Process -> SUBSET Key]
      /\ StoresMatchTheirKeys' /\ StoredIsFindable'
  BY <1>1, KeptLocally
<1>3. TypeOK'
  BY <1>1, <1>2 DEF TypeOK
<1>4. InFlightMatches' /\ Missing' /\ AcceptedSetsAreThere' /\ StatsAccount'
  BY <1>1 DEF IInv, TypeOK, InFlightMatches, Missing, AcceptedSetsAreThere, StatsAccount
<1> QED BY <1>1, <1>2, <1>3, <1>4 DEF IInv, AnswersMatchTheText, L1IsBounded, ValuesAreWhole

\* Sending a set keeps the invariant.
LEMMA SetSendKeeps ==
  ASSUME IInv, NEW p \in Process, SetSend(p)
  PROVE  IInv'
<1>1. /\ TypeOK /\ pc[p] = "set" /\ pc' = [pc EXCEPT ![p] = "acking"]
      /\ UNCHANGED <<ask, l1, stats, is_connected, fallback, arrived, val, answer, requests,
                     stored>>
  BY DEF SetSend, IInv, client, cache
<1>2. /\ KeyOf(p) \in Key /\ KeyOf(p) = ask[p].content
      /\ answer[p] \in Record /\ answer[p] # None /\ answer[p].digest = ask[p].content
  BY <1>1, AskedFor DEF IInv, TypeOK, InFlightMatches, AnswersMatchTheText
<1>3. pc' \in [Process -> {"idle", "get", "reading", "got", "compute", "set", "acking"}]
  BY <1>1 DEF TypeOK
<1>4. Missing' /\ StatsAccount'
  BY <1>1 DEF IInv, TypeOK, Missing, StatsAccount
<1>5. CASE /\ server' = [server EXCEPT ![KeyOf(p)] = answer[p]]
           /\ gone' = gone \ {KeyOf(p)} /\ UNCHANGED reply
  <2>1. server' \in [Key -> Record \cup {None}] /\ gone' \subseteq Key
    BY <1>1, <1>2, <1>5 DEF TypeOK
  <2>2. TypeOK'
    BY <1>1, <1>3, <1>5, <2>1 DEF TypeOK
  <2>3. \A k \in Key : server'[k] = IF k = KeyOf(p) THEN answer[p] ELSE server[k]
    BY <1>1, <1>2, <1>5 DEF TypeOK
  <2>4. StoresMatchTheirKeys'
    BY <1>1, <1>2, <2>3 DEF IInv, StoresMatchTheirKeys
  <2>5. InFlightMatches'
    BY <1>1, <1>2, <1>5 DEF IInv, TypeOK, InFlightMatches
  <2>6. AcceptedSetsAreThere'
    <3> SUFFICES ASSUME NEW q \in Process, pc'[q] = "acking", reply'[q] # Error
                 PROVE  server'[ask[q].content] # None \/ ask[q].content \in gone'
      BY <1>1 DEF AcceptedSetsAreThere
    <3>1. ask'[q] # None /\ ask[q].content \in Key
      BY <1>1, <2>2, AskedFor DEF TypeOK, Key
    <3>2. CASE q = p
      BY <1>2, <2>3, <3>2
    <3>3. CASE q # p
      <4>1. pc[q] = "acking" /\ reply[q] # Error
        BY <1>1, <1>5, <3>3 DEF TypeOK
      <4> QED BY <1>2, <1>5, <2>3, <3>1, <4>1 DEF IInv, AcceptedSetsAreThere
    <3> QED BY <3>2, <3>3
  <2>7. StoredIsFindable'
    BY <1>1, <1>2, <1>5, <2>3 DEF IInv, TypeOK, StoredIsFindable
  <2> QED BY <1>1, <1>4, <2>2, <2>4, <2>5, <2>6, <2>7
           DEF IInv, AnswersMatchTheText, L1IsBounded, ValuesAreWhole
<1>6. CASE reply' = [reply EXCEPT ![p] = Error] /\ UNCHANGED <<server, gone>>
  <2>1. reply' \in [Process -> Record \cup {None, Error}]
    BY <1>1, <1>6 DEF TypeOK
  <2>2. TypeOK'
    BY <1>1, <1>3, <1>6, <2>1 DEF TypeOK
  <2>3. InFlightMatches' /\ AcceptedSetsAreThere'
    BY <1>1, <1>2, <1>6 DEF IInv, TypeOK, InFlightMatches, AcceptedSetsAreThere
  <2> QED BY <1>1, <1>4, <1>6, <2>2, <2>3 DEF IInv, StoresMatchTheirKeys,
             AnswersMatchTheText, L1IsBounded, ValuesAreWhole, StoredIsFindable
<1> QED BY <1>5, <1>6 DEF SetSend

\* An acknowledged set keeps the invariant.
LEMMA SetAckedKeeps ==
  ASSUME IInv, NEW p \in Process, SetAcked(p)
  PROVE  IInv'
<1>1. /\ TypeOK /\ pc[p] = "acking" /\ pc' = [pc EXCEPT ![p] = "idle"]
      /\ stored' = IF reply[p] = Error THEN stored
                   ELSE [stored EXCEPT ![p] = @ \cup {KeyOf(p)}]
      /\ reply' = [reply EXCEPT ![p] = None]
      /\ UNCHANGED <<ask, l1, stats, is_connected, fallback, arrived, val, answer, requests,
                     server, gone>>
  BY DEF SetAcked, IInv, client, cache
<1>2. KeyOf(p) \in Key /\ KeyOf(p) = ask[p].content
  BY <1>1, AskedFor
<1>3. /\ stored' \in [Process -> SUBSET Key]
      /\ \A q \in Process : \A k \in stored'[q] :
           k \in stored[q] \/ (q = p /\ k = KeyOf(p) /\ reply[p] # Error)
  BY <1>1, <1>2 DEF TypeOK
<1>4. TypeOK'
  BY <1>1, <1>3 DEF TypeOK
<1>5. InFlightMatches' /\ Missing' /\ AcceptedSetsAreThere' /\ StatsAccount'
  BY <1>1 DEF IInv, TypeOK, InFlightMatches, Missing, AcceptedSetsAreThere, StatsAccount
<1>6. StoredIsFindable'
  BY <1>1, <1>2, <1>3 DEF IInv, StoredIsFindable, AcceptedSetsAreThere
<1> QED BY <1>1, <1>4, <1>5, <1>6 DEF IInv, StoresMatchTheirKeys, AnswersMatchTheText,
           L1IsBounded, ValuesAreWhole

\* The server's loss of an entry, by a DEL or on its own.
LEMMA ServerLoses ==
  ASSUME IInv, NEW k \in Key,
         server' = [server EXCEPT ![k] = None], gone' = gone \cup {k},
         UNCHANGED <<pc, ask, reply>>
  PROVE  /\ server' \in [Key -> Record \cup {None}] /\ gone' \subseteq Key
         /\ \A j \in Key : server'[j] # None => server'[j] = server[j]
         /\ \A j \in Key : server[j] # None \/ j \in gone => server'[j] # None \/ j \in gone'
         /\ AcceptedSetsAreThere'
<1>1. TypeOK
  BY DEF IInv
<1>2. /\ server' \in [Key -> Record \cup {None}] /\ gone' \subseteq Key
      /\ \A j \in Key : server'[j] = IF j = k THEN None ELSE server[j]
  BY <1>1 DEF TypeOK
<1>3. \A q \in Process : pc[q] = "acking" => ask[q].content \in Key
  BY <1>1, AskedFor
<1> QED BY <1>2, <1>3 DEF IInv, AcceptedSetsAreThere

\* Deleting a key keeps the invariant.
LEMMA DeleteKeeps ==
  ASSUME IInv, NEW p \in Process, NEW k \in Key, Delete(p, k)
  PROVE  IInv'
<1>1. /\ TypeOK
      /\ fallback' = [fallback EXCEPT ![p] = [fallback[p] EXCEPT ![k] = None]]
      /\ stored' = [stored EXCEPT ![p] = stored[p] \ {k}]
      /\ UNCHANGED <<pc, ask, l1, stats, is_connected, reply, arrived, val, answer, requests>>
  BY DEF Delete, IInv, wire, cache
<1>2. fallback \in [Process -> [Key -> Record \cup {None}]] /\ stored \in [Process -> SUBSET Key]
  BY <1>1 DEF TypeOK
<1>3. [fallback[p] EXCEPT ![k] = None] \in [Key -> Record \cup {None}]
  BY <1>2
<1>4. /\ fallback' \in [Process -> [Key -> Record \cup {None}]]
      /\ stored' \in [Process -> SUBSET Key]
  BY <1>1, <1>2, <1>3
<1>5. \A q \in Process, j \in Key :
        fallback'[q][j] = IF q = p /\ j = k THEN None ELSE fallback[q][j]
  BY <1>1, <1>2, <1>3
<1>6. /\ server' \in [Key -> Record \cup {None}] /\ gone' \subseteq Key
      /\ \A j \in Key : server'[j] # None => server'[j] = server[j]
      /\ \A j \in Key : server[j] # None \/ j \in gone => server'[j] # None \/ j \in gone'
      /\ AcceptedSetsAreThere'
  <2>1. CASE server' = [server EXCEPT ![k] = None] /\ gone' = gone \cup {k}
    BY <1>1, <2>1, ServerLoses
  <2>2. CASE UNCHANGED <<server, gone>>
    BY <1>1, <2>2 DEF IInv, TypeOK, AcceptedSetsAreThere
  <2> QED BY <2>1, <2>2 DEF Delete
<1>7. TypeOK'
  BY <1>1, <1>4, <1>6 DEF TypeOK
<1>8. StoresMatchTheirKeys'
  BY <1>1, <1>5, <1>6 DEF IInv, StoresMatchTheirKeys
<1>9. \A q \in Process : \A j \in stored'[q] : j \in stored[q] /\ j \in Key /\ ~(q = p /\ j = k)
  BY <1>1, <1>2
<1>10. StoredIsFindable'
  BY <1>5, <1>6, <1>9 DEF IInv, StoredIsFindable
<1> QED BY <1>1, <1>6, <1>7, <1>8, <1>10 DEF IInv, InFlightMatches, AnswersMatchTheText,
           Missing, L1IsBounded, ValuesAreWhole, StatsAccount

\* The expiry of a key in Valkey keeps the invariant.
LEMMA ExpireKeeps ==
  ASSUME IInv, NEW k \in Key, Expire(k)
  PROVE  IInv'
<1>1. /\ TypeOK /\ server' = [server EXCEPT ![k] = None] /\ gone' = gone \cup {k}
      /\ UNCHANGED <<pc, ask, l1, stats, is_connected, fallback, reply, arrived, val,
                     answer, requests, stored>>
  BY DEF Expire, IInv, client, wire, cache
<1>2. /\ server' \in [Key -> Record \cup {None}] /\ gone' \subseteq Key
      /\ \A j \in Key : server'[j] # None => server'[j] = server[j]
      /\ \A j \in Key : server[j] # None \/ j \in gone => server'[j] # None \/ j \in gone'
      /\ AcceptedSetsAreThere'
  BY <1>1, ServerLoses
<1>3. TypeOK'
  BY <1>1, <1>2 DEF TypeOK
<1>4. StoresMatchTheirKeys'
  BY <1>1, <1>2 DEF IInv, StoresMatchTheirKeys
<1>5. StoredIsFindable'
  BY <1>1, <1>2 DEF IInv, TypeOK, StoredIsFindable
<1> QED BY <1>1, <1>2, <1>3, <1>4, <1>5 DEF IInv, InFlightMatches, AnswersMatchTheText,
           Missing, L1IsBounded, ValuesAreWhole, StatsAccount

\* IInv is inductive.
LEMMA StepSound == IInv /\ [Next]_vars => IInv'
<1> SUFFICES ASSUME IInv, [Next]_vars PROVE IInv'
  OBVIOUS
<1>1. CASE UNCHANGED vars
  <2>1. UNCHANGED <<pc, ask, l1, stats, is_connected, fallback, reply, arrived, val, answer,
                    requests, server, stored, gone>>
    BY <1>1 DEF vars, client, wire, cache, history
  <2>2. TypeOK'
    BY <2>1 DEF IInv, TypeOK
  <2> QED BY <2>1, <2>2 DEF IInv, StoresMatchTheirKeys, InFlightMatches, AnswersMatchTheText,
             Missing, L1IsBounded, ValuesAreWhole, AcceptedSetsAreThere, StoredIsFindable,
             StatsAccount
<1>2. ASSUME NEW p \in Process, NEW path \in Path, NEW content \in Content,
             L1Hit(p, path, content) \/ L1Miss(p, path, content)
      PROVE  IInv'
  BY <1>2, L1HitKeeps, L1MissKeeps
<1>3. ASSUME NEW p \in Process, Step(p)
      PROVE  IInv'
  BY <1>3, GetLocallyKeeps, GetSendKeeps, RecvKeeps, RecvFailsKeeps, L2HitKeeps, L2MissKeeps,
     ComputeFailsKeeps, ComputeKeeps, SetLocallyKeeps, SetSendKeeps, SetAckedKeeps,
     SetUnackedKeeps DEF Step
<1>4. ASSUME NEW p \in Process, NEW k \in Key, Delete(p, k)
      PROVE  IInv'
  BY <1>4, DeleteKeeps
<1>5. ASSUME NEW k \in Key, Expire(k)
      PROVE  IInv'
  BY <1>5, ExpireKeeps
<1> QED BY <1>1, <1>2, <1>3, <1>4, <1>5 DEF Next

\* IInv holds in every reachable state.
LEMMA Invariance == Spec => []IInv
  BY InitSound, StepSound, PTL DEF Spec
-----------------------------------------------------------------------------
\* Every variable of the cache, its client and the server keeps its type.
THEOREM TypeCorrect == Spec => []TypeOK
<1>1. IInv => TypeOK BY DEF IInv
<1> QED BY <1>1, Invariance, PTL

\* get_repomap never returns the map of another text, whichever of the three
\* stores it comes from and whoever wrote it there.
THEOREM MapsAreOfTheText == Spec => []AnswersMatchTheText
<1>1. IInv => AnswersMatchTheText BY DEF IInv
<1> QED BY <1>1, Invariance, PTL

\* L1 keeps to its capacity and never holds a key twice, though _store_l1
\* appends without a look: the text was missing when it was asked for.
THEOREM L1KeepsToItsBound == Spec => []L1IsBounded
<1>1. IInv => L1IsBounded BY DEF IInv
<1> QED BY <1>1, Invariance, PTL

\* read_resp_reply never hands on a part of a value.
THEOREM NoPartialValue == Spec => []ValuesAreWhole
<1>1. IInv => ValuesAreWhole BY DEF IInv
<1> QED BY <1>1, Invariance, PTL

\* What set returned True for, get can find, until the server loses it.
THEOREM SetIsKept == Spec => []StoredIsFindable
<1>1. IInv => StoredIsFindable BY DEF IInv
<1> QED BY <1>1, Invariance, PTL

\* Every decided lookup is counted exactly once.
THEOREM StatsAddUp == Spec => []StatsAccount
<1>1. IInv => StatsAccount BY DEF IInv
<1> QED BY <1>1, Invariance, PTL

\* The stores and the counters of the cache are in order at every moment, whatever
\* the server answers.
THEOREM CacheIsSafe == Spec => []StoresAreInOrder
  BY TypeCorrect, L1KeepsToItsBound, NoPartialValue, StatsAddUp, PTL DEF StoresAreInOrder
=============================================================================
