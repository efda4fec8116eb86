------------------------------ MODULE Manifest ------------------------------
(***************************************************************************)
(* How weapons get their names: MapToDBWeapons of internal/mapper asks     *)
(* RedisCache.Get (internal/cache) three times for each weapon, Get asks   *)
(* Redis and, through the proxy, Bungie, and saveWeapons inserts the row.  *)
(* The processors share Redis, the table and the proxy, which also serves  *)
(* the crawlers.  (Redis itself is external.)                              *)
(*                                                                         *)
(* A key of Redis is a hash alone, without the kind of definition.         *)
(***************************************************************************)
EXTENDS Proxy, Sequences, TLC

CONSTANTS
  Writer,            \* processors
  Weapon, Key,       \* hashes of weapons; all hashes
  DamageOf, SlotOf,  \* the hashes that a weapon's definition refers to
  ZeroKey,           \* the hash 0 of an empty definition
  Exists,            \* the <<kind, key>> that Bungie has a definition of
  None

ASSUME ManifestAssumption ==
  /\ Writer \subseteq Client
  /\ Weapon # {} /\ Weapon \subseteq Key \ {ZeroKey} /\ ZeroKey \in Key
  /\ DamageOf \in [Weapon -> Key] /\ SlotOf \in [Weapon -> Key]

\* Nothing has the hash 0, and a weapon without a definition refers to nothing.
ASSUME ZeroAssumption ==
  /\ \A e \in Exists : e[2] # ZeroKey
  /\ \A w \in Weapon : <<"item", w>> \notin Exists => DamageOf[w] = ZeroKey /\ SlotOf[w] = ZeroKey

VARIABLES
  redis,     \* each key's value: a definition, Blank or None
  rows,      \* the table weapon
  pc,        \* where each writer is
  weapon,    \* the weapon it writes
  store,     \* will Get put into Redis what it fetches?
  columns,   \* the row so far, a column for each kind
  failed     \* history: weapons for which some Get has gone wrong

manifestVars == <<redis, rows, pc, weapon, store, columns, failed>>
vars == <<proxyVars, manifestVars>>

\* The kinds of definition in the order in which they are asked for.
Kinds == <<"item", "damage", "slot">>
Kind  == {"item", "damage", "slot"}

Definition == Kind \X Key
Blank == <<>>
Value == Definition \union {Blank}

\* The value of the kind for the weapon, as Bungie has it.
KeyIn(w, kind) ==
  CASE kind = "item"   -> w
    [] kind = "damage" -> DamageOf[w]
    [] kind = "slot"   -> SlotOf[w]
True(w, kind) ==
  IF <<kind, KeyIn(w, kind)>> \in Exists THEN <<kind, KeyIn(w, kind)>> ELSE Blank

Init ==
  /\ ProxyInit
  /\ redis = [k \in Key |-> None]
  /\ rows = [w \in Weapon |-> None]
  /\ pc = [p \in Writer |-> "idle"]
  /\ weapon = [p \in Writer |-> CHOOSE w \in Weapon : TRUE]
  /\ store = [p \in Writer |-> FALSE]
  /\ columns = [p \in Writer |-> <<>>]
  /\ failed = {}

-----------------------------------------------------------------------------
\* What p asks for.  An item that was not found leaves the hash 0 for the other two.
Asked(p) == Kinds[Len(columns[p]) + 1]
AskedKey(p) ==
  IF Asked(p) # "item" /\ columns[p][1] = Blank THEN ZeroKey
  ELSE KeyIn(weapon[p], Asked(p))

\* Get returns value to MapToDBWeapons, which goes on to the next kind.
Returns(p, value) ==
  /\ columns' = [columns EXCEPT ![p] = Append(@, value)]
  /\ pc' = [pc EXCEPT ![p] = IF Len(columns[p]) + 1 = Len(Kinds) THEN "insert" ELSE "get"]
  /\ store' = [store EXCEPT ![p] = FALSE]

Goes(p, stage, keep) ==
  /\ pc' = [pc EXCEPT ![p] = stage]
  /\ store' = [store EXCEPT ![p] = keep]

\* A report with the weapon reaches the writer.  Bound: not when the weapon has its row,
\* which stays as it is.
Begin(p, w) ==
  /\ pc[p] = "idle" /\ rows[w] = None
  /\ weapon' = [weapon EXCEPT ![p] = w]
  /\ columns' = [columns EXCEPT ![p] = <<>>]
  /\ Goes(p, "get", FALSE)
  /\ UNCHANGED <<redis, rows, failed, proxyVars>>

\* Mutant: the hit is returned, decoded as the Response that was stored.
BugHit(p) ==
  /\ pc[p] = "get"
  /\ redis[AskedKey(p)] \in Value
  /\ Returns(p, redis[AskedKey(p)])
  /\ UNCHANGED <<redis, rows, weapon, failed, proxyVars>>

\* A hit is decoded into a variable of the switch and forgotten: Get goes on to fetch.
Hit(p) ==
  /\ pc[p] = "get"
  /\ redis[AskedKey(p)] \in Value
  /\ Goes(p, "fetch", TRUE)
  /\ UNCHANGED <<redis, rows, weapon, columns, failed, proxyVars>>

\* A value that another client of Redis has spoilt is no JSON: Get ends with the error.
HitUndecoded(p) ==
  /\ pc[p] = "get"
  /\ redis[AskedKey(p)] \in Value
  /\ Returns(p, Blank)
  /\ failed' = failed \union {weapon[p]}
  /\ UNCHANGED <<redis, rows, weapon, proxyVars>>

Miss(p) ==
  /\ pc[p] = "get"
  /\ redis[AskedKey(p)] = None
  /\ Goes(p, "fetch", TRUE)
  /\ UNCHANGED <<redis, rows, weapon, columns, failed, proxyVars>>

\* Redis cannot be asked: Get fetches, and does not store.
RedisFails(p) ==
  /\ pc[p] = "get"
  /\ Goes(p, "fetch", FALSE)
  /\ UNCHANGED <<redis, rows, weapon, columns, failed, proxyVars>>

\* BungieManifestFetcher, without a time limit.
Fetch(p) ==
  /\ pc[p] = "fetch"
  /\ Request(p, "base")
  /\ Goes(p, "fetching", store[p])
  /\ UNCHANGED <<redis, rows, weapon, columns, failed>>

\* What the fetcher returns: an answer other than 200 is a zero value without an error.
Fetched(p) ==
  IF req[p] = "ok" /\ <<Asked(p), AskedKey(p)>> \in Exists THEN <<Asked(p), AskedKey(p)>>
  ELSE Blank

\* Mutant: a fetch that failed is tried again, without a limit.
BugFetchReturns(p) ==
  /\ pc[p] = "fetching" /\ req[p] \in Answers
  /\ Taken(p)
  /\ IF req[p] = "error" THEN Goes(p, "fetch", store[p]) /\ UNCHANGED columns
     ELSE Returns(p, Fetched(p))
  /\ failed' = IF req[p] # "ok" THEN failed \union {weapon[p]} ELSE failed
  /\ UNCHANGED <<redis, rows, weapon>>

\* The answer is stored, an empty one too, unless there was none, Redis was not reached
\* before, or Set fails; only the first of these is an error.
FetchReturns(p) ==
  /\ pc[p] = "fetching" /\ req[p] \in Answers
  /\ Taken(p)
  /\ Returns(p, Fetched(p))
  /\ \/ req[p] # "error" /\ store[p] /\ redis' = [redis EXCEPT ![AskedKey(p)] = Fetched(p)]
     \/ UNCHANGED redis
  /\ failed' = IF req[p] # "ok" THEN failed \union {weapon[p]} ELSE failed
  /\ UNCHANGED <<rows, weapon>>

\* INSERT ... ON CONFLICT DO NOTHING; or the statement fails, and nothing is written.
Insert(p) ==
  /\ pc[p] = "insert"
  /\ \/ rows' = [rows EXCEPT ![weapon[p]] = IF @ = None THEN columns[p] ELSE @]
     \/ UNCHANGED rows
  /\ Goes(p, "idle", FALSE)
  /\ columns' = [columns EXCEPT ![p] = <<>>]
  /\ UNCHANGED <<redis, weapon, failed, proxyVars>>

WriterNext(p) ==
  \/ Hit(p) \/ HitUndecoded(p) \/ Miss(p) \/ RedisFails(p)
  \/ Fetch(p) \/ FetchReturns(p) \/ Insert(p)

\* A crawler: asks for reports, and gives up after its ten seconds.
Crawl(c) ==
  /\ Request(c, "stats") \/ HangUp(c) \/ Taken(c)
  /\ UNCHANGED manifestVars

\* The entry's twelve hours are over, or Redis evicts it.
Expire(k) ==
  /\ redis[k] # None
  /\ redis' = [redis EXCEPT ![k] = None]
  /\ UNCHANGED <<rows, pc, weapon, store, columns, failed, proxyVars>>

Next ==
  \/ \E p \in Writer : WriterNext(p) \/ (\E w \in Weapon : Begin(p, w))
  \/ \E c \in Client \ Writer : Crawl(c)
  \/ ProxyNext /\ UNCHANGED manifestVars
  \/ \E k \in Key : Expire(k)

Spec == Init /\ [][Next]_vars

\* Writers run, the proxy is started again when it has died, its handlers run, the
\* limiters refill.  A limiter serves those who wait for it in their order, so nobody is
\* passed over for ever.  Bungie owes nobody an answer: no part of the way has a limit on
\* the time that a response takes.
FairSpec ==
  /\ Spec
  /\ \A p \in Writer : WF_vars(WriterNext(p))
  /\ WF_vars(Restart /\ UNCHANGED manifestVars)
  /\ \A d \in Domain, i \in Address : WF_vars(Refill(d, i) /\ UNCHANGED manifestVars)
  /\ \A c \in Client :
       /\ WF_vars(Count(c) /\ UNCHANGED manifestVars)
       /\ SF_vars(Granted(c) /\ UNCHANGED manifestVars)

-----------------------------------------------------------------------------
(***************************************************************************)
(* Properties.                                                             *)
(***************************************************************************)
\* Every variable has its type.
TypeOK ==
  /\ ProxyTypeOK
  /\ redis \in [Key -> Value \union {None}]
  /\ \A w \in Weapon : rows[w] = None \/ (Len(rows[w]) = 3 /\ \A k \in 1 .. 3 : rows[w][k] \in Value)
  /\ pc \in [Writer -> {"idle", "get", "fetch", "fetching", "insert"}]
  /\ weapon \in [Writer -> Weapon]
  /\ store \in [Writer -> BOOLEAN]
  /\ \A p \in Writer : Len(columns[p]) <= 3 /\ \A k \in DOMAIN columns[p] : columns[p][k] \in Value
  /\ failed \subseteq Weapon

\* A weapon's columns are the weapon's own, even where an item, a damage type and a slot
\* share their hash and so their key in Redis.  A column is blank instead only if a
\* request, the proxy or a value in Redis failed for this weapon: a Redis that is down,
\* slow to expire or full of blanks from earlier failures blanks nothing.
RowsTruthful ==
  \A w \in Weapon : rows[w] # None =>
    \A k \in 1 .. 3 : \/ rows[w][k] = True(w, Kinds[k])
                      \/ rows[w][k] = Blank /\ w \in failed

\* A weapon that is begun is done with, whatever Redis, the proxy and the requests of
\* other clients do, unless Bungie leaves a request for it unanswered for ever: a writer
\* hangs nowhere else.
WeaponWritesEnd ==
  \A p \in Writer : []<>(pc[p] = "idle") \/ <>[](req[p] = "sending")
=============================================================================
