---------------------------- MODULE RepomapCache ----------------------------
(***************************************************************************)
(* examples/valkey-l2-repomap-cache/repomap_cache.py: each process keeps   *)
(* the syntax maps of source texts in a small L1 table and, behind it, in  *)
(* a Valkey server all processes share.  ValkeyL2Client talks RESP over a  *)
(* connection per command; when a command brings no answer it works on a   *)
(* private fallback store.  A source text stands for its SHA-256 digest;   *)
(* a record is what is cached of it: its digest and the path it was read   *)
(* from.  The server, its evictions and the network are the environment.   *)
(***************************************************************************)
EXTENDS Integers, Sequences

CONSTANTS
  Process,     \* processes, each with a TwoTierRepomapCache and its client
  Path,        \* file paths
  Content,     \* source texts, as digests
  Unparsable,  \* the texts ast.parse rejects
  l1_capacity,
  ReplySize,   \* segments in which the server sends a value
  MaxRequests, \* bound on the requests of a process
  None,        \* no value: Python's None, RESP's nil
  Error,       \* an error reply, which the client takes for a value
  Clipped      \* the front part of a value

ASSUME CacheAssumption ==
  /\ Unparsable \subseteq Content
  /\ l1_capacity \in Nat \ {0} /\ ReplySize \in Nat \ {0} /\ MaxRequests \in Nat

Key == Content \cup Path
Record == [path : Path, digest : Content]

ASSUME ValueAssumption ==
  /\ None \notin Record \cup {Error, Clipped} \cup [path : Path, content : Content]
  /\ Error \notin Record \cup {Clipped} /\ Clipped \notin Record
  /\ Content \cap Path = {}

VARIABLES
  pc,           \* where a process is in get_repomap
  ask,          \* get_repomap's arguments: the path and the text
  l1,           \* _l1_cache: entries in insertion order
  is_connected, \* ValkeyL2Client.is_connected
  fallback,     \* ValkeyL2Client._fallback_store
  reply,        \* what the server answered the command in flight
  arrived,      \* segments of it read so far
  val,          \* what valkey.get returned
  answer,       \* the record get_repomap last returned
  stats,        \* TwoTierRepomapCache.stats
  requests,     \* get_repomap calls so far
  server,       \* the Valkey server's table
  stored,       \* history: keys for which a process's set returned True
  gone          \* history: keys the server dropped or was told to delete

client == <<is_connected, fallback>>
wire == <<reply, arrived>>
history == <<stored, gone>>
cache == <<l1, stats>>
vars == <<pc, ask, client, wire, val, answer, cache, requests, server, history>>

\* __init__: _check_connection's PING succeeds or not; it is never repeated.
Init ==
  /\ pc = [p \in Process |-> "idle"]
  /\ ask = [p \in Process |-> None] /\ answer = [p \in Process |-> None]
  /\ l1 = [p \in Process |-> <<>>]
  /\ is_connected \in [Process -> BOOLEAN]
  /\ fallback = [p \in Process |-> [k \in Key |-> None]]
  /\ reply = [p \in Process |-> None] /\ arrived = [p \in Process |-> 0]
  /\ val = [p \in Process |-> None]
  /\ stats = [p \in Process |-> [l1_hits |-> 0, l2_hits |-> 0, misses |-> 0]]
  /\ requests = [p \in Process |-> 0]
  /\ server = [k \in Key |-> None]
  /\ stored = [p \in Process |-> {}] /\ gone = {}

\* Mutant of cache_key: entries are found by the file's path.
cache_key_by_path(path, content) == path

cache_key(path, content) == content

KeyOf(p) == cache_key(ask[p].path, ask[p].content)

\* get_repomap, up to the L1 lookup.
Request(p, path, content) ==
  /\ pc[p] = "idle" /\ requests[p] < MaxRequests
  /\ requests' = [requests EXCEPT ![p] = @ + 1]
  /\ ask' = [ask EXCEPT ![p] = [path |-> path, content |-> content]]

L1Hit(p, path, content) ==
  /\ Request(p, path, content)
  /\ \E i \in 1 .. Len(l1[p]) :
       /\ l1[p][i].key = cache_key(path, content)
       /\ answer' = [answer EXCEPT ![p] = l1[p][i].record]
  /\ stats' = [stats EXCEPT ![p].l1_hits = @ + 1]
  /\ UNCHANGED <<pc, l1, client, wire, val, server, history>>

L1Miss(p, path, content) ==
  /\ Request(p, path, content)
  /\ \A i \in 1 .. Len(l1[p]) : l1[p][i].key # cache_key(path, content)
  /\ pc' = [pc EXCEPT ![p] = "get"]
  /\ answer' = [answer EXCEPT ![p] = None]
  /\ UNCHANGED <<client, wire, val, cache, server, history>>

\* ValkeyL2Client.get without an answer: not connected, or _execute_command's OSError.
GetLocally(p) ==
  /\ pc[p] = "get" /\ pc' = [pc EXCEPT ![p] = "got"]
  /\ val' = [val EXCEPT ![p] = fallback[p][KeyOf(p)]]
  /\ UNCHANGED <<ask, client, wire, answer, cache, requests, server, history>>

\* GET is sent and the server answers: with the value, nil, or an error.
GetSend(p) ==
  /\ pc[p] = "get" /\ is_connected[p] /\ pc' = [pc EXCEPT ![p] = "reading"]
  /\ \E r \in {server[KeyOf(p)], Error} : reply' = [reply EXCEPT ![p] = r]
  /\ arrived' = [arrived EXCEPT ![p] = 0]
  /\ UNCHANGED <<ask, client, val, answer, cache, requests, server, history>>

\* Mutant of Whole: the declared length is not compared with what has arrived.
WholeUnchecked(r, n) == n > 0

\* decode_resp_response consumes: n segments are the whole reply.
Whole(r, n) == n = (IF r \in Record THEN ReplySize ELSE 1)

\* One turn of read_resp_reply's loop.
Recv(p) ==
  /\ pc[p] = "reading" /\ arrived[p] < ReplySize
  /\ LET n == arrived[p] + 1
         r == reply[p]
     IN IF Whole(r, n)
          THEN /\ pc' = [pc EXCEPT ![p] = "got"]
               /\ val' = [val EXCEPT ![p] =
                    IF r = None THEN fallback[p][KeyOf(p)]
                    ELSE IF r \in Record /\ n < ReplySize THEN Clipped ELSE r]
               /\ arrived' = [arrived EXCEPT ![p] = 0]
               /\ reply' = [reply EXCEPT ![p] = None]
          ELSE /\ arrived' = [arrived EXCEPT ![p] = n]
               /\ UNCHANGED <<pc, val, reply>>
  /\ UNCHANGED <<ask, client, answer, cache, requests, server, history>>

\* The peer closes, or recv times out, before the reply is whole.
RecvFails(p) ==
  /\ pc[p] = "reading" /\ pc' = [pc EXCEPT ![p] = "got"]
  /\ val' = [val EXCEPT ![p] = fallback[p][KeyOf(p)]]
  /\ arrived' = [arrived EXCEPT ![p] = 0] /\ reply' = [reply EXCEPT ![p] = None]
  /\ UNCHANGED <<ask, client, answer, cache, requests, server, history>>

Evicted(entries) == IF Len(entries) >= l1_capacity THEN Tail(entries) ELSE entries

\* _store_l1
StoreL1(p, record) ==
  /\ l1' = [l1 EXCEPT ![p] = Append(Evicted(@), [key |-> KeyOf(p), record |-> record])]

\* _try_get_l2 hydrates a record; what is no JSON of a record counts as a miss.
L2Hit(p) ==
  /\ pc[p] = "got" /\ val[p] \in Record /\ pc' = [pc EXCEPT ![p] = "idle"]
  /\ StoreL1(p, val[p])
  /\ stats' = [stats EXCEPT ![p].l2_hits = @ + 1]
  /\ answer' = [answer EXCEPT ![p] = val[p]]
  /\ val' = [val EXCEPT ![p] = None]
  /\ UNCHANGED <<ask, client, wire, requests, server, history>>

L2Miss(p) ==
  /\ pc[p] = "got" /\ val[p] \notin Record /\ pc' = [pc EXCEPT ![p] = "compute"]
  /\ stats' = [stats EXCEPT ![p].misses = @ + 1]
  /\ val' = [val EXCEPT ![p] = None]
  /\ UNCHANGED <<ask, client, wire, answer, l1, requests, server, history>>

\* ast.parse raises: nothing is cached and get_repomap does not return.
ComputeFails(p) ==
  /\ pc[p] = "compute" /\ ask[p].content \in Unparsable
  /\ pc' = [pc EXCEPT ![p] = "idle"]
  /\ UNCHANGED <<ask, client, wire, val, answer, cache, requests, server, history>>

Computed(p) == [path |-> ask[p].path, digest |-> ask[p].content]

\* _compute_record and _store_l1.
Compute(p) ==
  /\ pc[p] = "compute" /\ ask[p].content \notin Unparsable
  /\ pc' = [pc EXCEPT ![p] = "set"]
  /\ StoreL1(p, Computed(p))
  /\ answer' = [answer EXCEPT ![p] = Computed(p)]
  /\ UNCHANGED <<ask, client, wire, val, stats, requests, server, history>>

\* Mutant of KeepLocally: True is returned all the same.
KeepLocallyLost(p) ==
  /\ stored' = [stored EXCEPT ![p] = @ \cup {KeyOf(p)}]
  /\ UNCHANGED fallback

KeepLocally(p) ==
  /\ fallback' = [fallback EXCEPT ![p][KeyOf(p)] = answer[p]]
  /\ stored' = [stored EXCEPT ![p] = @ \cup {KeyOf(p)}]

\* ValkeyL2Client.set without an answer, and get_repomap's return.
SetLocally(p) ==
  /\ pc[p] = "set" /\ pc' = [pc EXCEPT ![p] = "idle"]
  /\ KeepLocally(p)
  /\ UNCHANGED <<ask, is_connected, wire, val, answer, cache, requests, server, gone>>

\* SET is sent and the server carries it out, or refuses it with an error.
SetSend(p) ==
  /\ pc[p] = "set" /\ is_connected[p] /\ pc' = [pc EXCEPT ![p] = "acking"]
  /\ \/ /\ server' = [server EXCEPT ![KeyOf(p)] = answer[p]]
        /\ gone' = gone \ {KeyOf(p)}
        /\ UNCHANGED reply
     \/ /\ reply' = [reply EXCEPT ![p] = Error]
        /\ UNCHANGED <<server, gone>>
  /\ UNCHANGED <<ask, client, arrived, val, answer, cache, requests, stored>>

\* The acknowledgement arrives: True for OK, False for an error.
SetAcked(p) ==
  /\ pc[p] = "acking" /\ pc' = [pc EXCEPT ![p] = "idle"]
  /\ stored' = IF reply[p] = Error THEN stored
               ELSE [stored EXCEPT ![p] = @ \cup {KeyOf(p)}]
  /\ reply' = [reply EXCEPT ![p] = None]
  /\ UNCHANGED <<ask, client, arrived, val, answer, cache, requests, server, gone>>

\* It does not arrive, whatever the server did.
SetUnacked(p) ==
  /\ pc[p] = "acking" /\ pc' = [pc EXCEPT ![p] = "idle"]
  /\ KeepLocally(p)
  /\ reply' = [reply EXCEPT ![p] = None]
  /\ UNCHANGED <<ask, is_connected, arrived, val, answer, cache, requests, server, gone>>

\* ValkeyL2Client.delete: DEL reaches the server or not, and it returns True.
Delete(p, k) ==
  /\ pc[p] = "idle"
  /\ fallback' = [fallback EXCEPT ![p][k] = None]
  /\ \/ is_connected[p] /\ server' = [server EXCEPT ![k] = None] /\ gone' = gone \cup {k}
     \/ UNCHANGED <<server, gone>>
  /\ stored' = [stored EXCEPT ![p] = @ \ {k}]
  /\ UNCHANGED <<pc, ask, is_connected, wire, val, answer, cache, requests>>

\* The server drops an entry: its TTL, an eviction, a restart.
Expire(k) ==
  /\ server[k] # None
  /\ server' = [server EXCEPT ![k] = None]
  /\ gone' = gone \cup {k}
  /\ UNCHANGED <<pc, ask, client, wire, val, answer, cache, requests, stored>>

Step(p) ==
  \/ GetLocally(p) \/ GetSend(p) \/ Recv(p) \/ RecvFails(p)
  \/ L2Hit(p) \/ L2Miss(p) \/ ComputeFails(p) \/ Compute(p)
  \/ SetLocally(p) \/ SetSend(p) \/ SetAcked(p) \/ SetUnacked(p)

Next ==
  \/ \E p \in Process, path \in Path, content \in Content :
       L1Hit(p, path, content) \/ L1Miss(p, path, content)
  \/ \E p \in Process : Step(p)
  \/ \E p \in Process, k \in Key : Delete(p, k)
  \/ \E k \in Key : Expire(k)

Spec == Init /\ [][Next]_vars
-----------------------------------------------------------------------------
\* Every variable keeps its type, and a process that is past the lookup has
\* arguments to work on.
TypeOK ==
  /\ pc \in [Process -> {"idle", "get", "reading", "got", "compute", "set", "acking"}]
  /\ ask \in [Process -> [path : Path, content : Content] \cup {None}]
  /\ l1 \in [Process -> Seq([key : Key, record : Record])]
  /\ is_connected \in [Process -> BOOLEAN]
  /\ fallback \in [Process -> [Key -> Record \cup {None}]]
  /\ reply \in [Process -> Record \cup {None, Error}]
  /\ arrived \in [Process -> 0 .. ReplySize]
  /\ val \in [Process -> Record \cup {None, Error, Clipped}]
  /\ answer \in [Process -> Record \cup {None}]
  /\ stats \in [Process -> [l1_hits : Nat, l2_hits : Nat, misses : Nat]]
  /\ requests \in [Process -> 0 .. MaxRequests]
  /\ server \in [Key -> Record \cup {None}]
  /\ stored \in [Process -> SUBSET Key]
  /\ gone \subseteq Key
  /\ \A p \in Process : pc[p] # "idle" => ask[p] # None

\* get_repomap never returns the map of another text: not from L1, not from the
\* server, where other processes write, and not from the fallback store.
AnswersMatchTheText ==
  \A p \in Process : answer[p] # None => answer[p].digest = ask[p].content

\* _store_l1 keeps L1 within its capacity and never holds a key twice.
L1IsBounded ==
  \A p \in Process :
    /\ Len(l1[p]) <= l1_capacity
    /\ \A i, j \in 1 .. Len(l1[p]) : l1[p][i].key = l1[p][j].key => i = j

\* read_resp_reply: "a partial answer is not an answer".  A value that arrives
\* in pieces is never taken for a shorter one.
ValuesAreWhole ==
  \A p \in Process : val[p] # Clipped

\* When set has returned True, the value is where this client's get looks, on
\* the server or in its fallback store, unless the server has since lost it;
\* whether the command or its acknowledgement got lost makes no difference.
StoredIsFindable ==
  \A p \in Process : \A k \in stored[p] :
    fallback[p][k] # None \/ server[k] # None \/ k \in gone

\* Every lookup that is decided is counted once, whatever happens after it.
StatsAccount ==
  \A p \in Process :
    stats[p].l1_hits + stats[p].l2_hits + stats[p].misses
      = requests[p] - (IF pc[p] \in {"get", "reading", "got"} THEN 1 ELSE 0)

\* What is true of the cache's stores and counters at every moment.
StoresAreInOrder == TypeOK /\ L1IsBounded /\ ValuesAreWhole /\ StatsAccount
=============================================================================
