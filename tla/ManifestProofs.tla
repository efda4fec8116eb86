---------------------------- MODULE ManifestProofs ----------------------------
(***************************************************************************)
(* Proofs about Proxy and Manifest: for every number of addresses and of   *)
(* clients, and for all weapons and hashes.                                *)
(***************************************************************************)
EXTENDS Manifest, TLAPS

-----------------------------------------------------------------------------
(***************************************************************************)
(* The proxy: the addresses that are one request ahead are those from 1 to *)
(* the counter.                                                            *)
(***************************************************************************)
InTurn ==
  \A d \in Domain : \A i \in Address :
    ahead[d][i] = IF 1 <= i /\ i <= count[d] THEN 1 ELSE 0

ProxyInv == ProxyTypeOK /\ InTurn

\* The step of a counter, for a domain with the counter k.
LEMMA NextInTurn ==
  ASSUME NEW k \in Address, NEW used \in [Address -> Nat],
         \A i \in Address : used[i] = IF 1 <= i /\ i <= k THEN 1 ELSE 0
  PROVE  LET n == (k + 1) % N
         IN  /\ n \in Address
             /\ Used(used, n) \in [Address -> Nat]
             /\ \A i \in Address : Used(used, n)[i] = IF 1 <= i /\ i <= n THEN 1 ELSE 0
<1> USE ProxyAssumption DEF Address
<1> DEFINE n == (k + 1) % N
           more == [used EXCEPT ![n] = @ + 1]
<1>1. CASE k + 1 < N
  <2>1. n = k + 1
    BY <1>1
  <2> HIDE DEF n
  <2>2. n \in Address /\ 0 \in Address /\ n # 0
    BY <1>1, <2>1
  <2>3. more \in [Address -> Nat] /\ more[0] = 0
    BY <2>2
  <2>4. Used(used, n) = more
    BY <2>2, <2>3 DEF Used
  <2>5. \A i \in Address : more[i] = IF 1 <= i /\ i <= n THEN 1 ELSE 0
    BY <2>1, <2>2
  <2> HIDE DEF more
  <2>6. /\ n \in Address /\ Used(used, n) \in [Address -> Nat]
        /\ \A i \in Address : Used(used, n)[i] = IF 1 <= i /\ i <= n THEN 1 ELSE 0
    BY <2>2, <2>3, <2>4, <2>5
  <2> QED
    BY <2>6 DEF n
<1>2. CASE k + 1 = N
  <2>1. n = 0
    BY <1>2
  <2> HIDE DEF n
  <2>2. n \in Address
    BY <2>1
  <2>3. more \in [Address -> Nat] /\ \A i \in Address : more[i] = 1
    BY <1>2, <2>1, <2>2
  <2>6. \A j \in Address : more[j] > 0
    BY <2>3
  <2>4. Used(used, n) = [j \in Address |-> more[j] - 1]
    BY <2>6 DEF Used
  <2> HIDE DEF more
  <2>5. /\ n \in Address /\ Used(used, n) \in [Address -> Nat]
        /\ \A i \in Address : Used(used, n)[i] = 0
    BY <2>2, <2>3, <2>4
  <2> QED
    BY <2>1, <2>5 DEF n
<1> QED
  BY <1>1, <1>2

LEMMA CountedInTurn ==
  ASSUME ProxyInv, NEW c \in Client, Counted(c)
  PROVE  /\ count' \in [Domain -> Address]
         /\ address' \in [Client -> Address]
         /\ ahead' \in [Domain -> [Address -> Nat]]
         /\ InTurn'
<1> DEFINE d == domain[c]
           n == (count[d] + 1) % N
<1>1. /\ d \in Domain /\ count[d] \in Address /\ ahead[d] \in [Address -> Nat]
      /\ \A i \in Address : ahead[d][i] = IF 1 <= i /\ i <= count[d] THEN 1 ELSE 0
  BY DEF ProxyInv, ProxyTypeOK, InTurn
<1>2. /\ n \in Address /\ Used(ahead[d], n) \in [Address -> Nat]
      /\ \A i \in Address : Used(ahead[d], n)[i] = IF 1 <= i /\ i <= n THEN 1 ELSE 0
  BY <1>1, NextInTurn
<1>3. /\ count' = [count EXCEPT ![d] = n]
      /\ address' = [address EXCEPT ![c] = n]
      /\ ahead' = [ahead EXCEPT ![d] = Used(ahead[d], n)]
  BY DEF Counted
<1> HIDE DEF d, n
<1>4. /\ count' \in [Domain -> Address] /\ address' \in [Client -> Address]
      /\ ahead' \in [Domain -> [Address -> Nat]]
  BY <1>1, <1>2, <1>3 DEF ProxyInv, ProxyTypeOK
<1>5. ASSUME NEW e \in Domain, NEW i \in Address
      PROVE  ahead'[e][i] = IF 1 <= i /\ i <= count'[e] THEN 1 ELSE 0
  <2>1. CASE e = d
    <3>1. ahead'[e] = Used(ahead[d], n) /\ count'[e] = n
      BY <1>1, <1>3, <2>1 DEF ProxyInv, ProxyTypeOK
    <3> QED
      BY <1>2, <3>1
  <2>2. CASE e # d
    <3>1. ahead'[e] = ahead[e] /\ count'[e] = count[e]
      BY <1>3, <2>2 DEF ProxyInv, ProxyTypeOK
    <3> QED
      BY <3>1 DEF ProxyInv, InTurn
  <2> QED
    BY <2>1, <2>2
<1> QED
  BY <1>4, <1>5 DEF InTurn

LEMMA ProxyStarts == ProxyInit => ProxyInv
<1> SUFFICES ASSUME ProxyInit PROVE ProxyInv
  OBVIOUS
<1>1. 0 \in Address /\ Burst \in 0 .. Burst
  BY ProxyAssumption DEF Address
<1>2. /\ count = NoRequests /\ tokens = Full /\ ahead = Even
      /\ NoRequests \in [Domain -> Address] /\ Full \in [Domain -> [Address -> 0 .. Burst]]
      /\ Even \in [Domain -> [Address -> Nat]]
  BY <1>1 DEF ProxyInit, NoRequests, Full, Even
<1>3. InTurn
  BY <1>2, ProxyAssumption DEF InTurn, NoRequests, Even, Address
<1>4. up \in BOOLEAN /\ req \in [Client -> {"none"} \union InFlight \union Answers]
  BY DEF ProxyInit
<1>5. domain \in [Client -> Domain] /\ address \in [Client -> Address]
  BY <1>1 DEF ProxyInit, Domain
<1> QED
  BY <1>2, <1>3, <1>4, <1>5 DEF ProxyInv, ProxyTypeOK

\* The steps of the proxy and of its clients.
ProxyStep(c) ==
  \/ (\E d \in Domain : Request(c, d)) \/ Serve(c) \/ HangUp(c) \/ Taken(c)

LEMMA ProxyKept ==
  ASSUME ProxyInv,
         \/ \E c \in Client : ProxyStep(c)
         \/ Restart
         \/ \E d \in Domain, i \in Address : Refill(d, i)
         \/ UNCHANGED proxyVars
  PROVE  ProxyInv'
<1> USE DEF ProxyInv, ProxyTypeOK
<1>0. 0 \in Address /\ Burst \in 0 .. Burst /\ Burst \in Nat
  BY ProxyAssumption DEF Address
<1>1. ASSUME NEW c \in Client, NEW d \in Domain, Request(c, d) PROVE ProxyInv'
  BY <1>1 DEF Request, InTurn, InFlight, Answers
<1>2. ASSUME NEW c \in Client, Count(c) PROVE ProxyInv'
  <2>1. Counted(c)
    BY <1>2 DEF Count
  <2>2. /\ count' \in [Domain -> Address] /\ address' \in [Client -> Address]
        /\ ahead' \in [Domain -> [Address -> Nat]] /\ InTurn'
    BY <2>1, CountedInTurn
  <2> QED
    BY <1>2, <2>2 DEF Count, InFlight
<1>3. ASSUME NEW c \in Client, Granted(c) PROVE ProxyInv'
  <2> DEFINE d == domain[c]
             i == address[c]
  <2>1. d \in Domain /\ i \in Address /\ tokens[d][i] \in 0 .. Burst /\ tokens[d][i] > 0
    BY <1>3 DEF Granted
  <2>2. tokens[d][i] - 1 \in 0 .. Burst
    BY <2>1, <1>0
  <2>3. tokens' = [tokens EXCEPT ![d][i] = tokens[d][i] - 1]
    BY <1>3 DEF Granted
  <2> HIDE DEF d, i
  <2>4. tokens' \in [Domain -> [Address -> 0 .. Burst]]
    BY <2>1, <2>2, <2>3
  <2> QED
    BY <1>3, <2>4 DEF Granted, InTurn, InFlight
<1>4. ASSUME NEW c \in Client, Answer(c) PROVE ProxyInv'
  BY <1>4 DEF Answer, InTurn, Answers
<1>5. CASE Dies
  <2>1. count' \in [Domain -> Address] /\ tokens' \in [Domain -> [Address -> 0 .. Burst]]
    BY <1>0, <1>5 DEF Dies, NoRequests, Full
  <2>2. ahead' \in [Domain -> [Address -> Nat]] /\ InTurn'
    BY <1>5 DEF Dies, NoRequests, Even, InTurn, Address
  <2> QED
    BY <1>5, <2>1, <2>2 DEF Dies, Answers
<1>6. CASE Restart
  BY <1>6 DEF Restart, InTurn
<1>7. ASSUME NEW d \in Domain, NEW i \in Address, Refill(d, i) PROVE ProxyInv'
  <2>1. tokens[d][i] + 1 \in 0 .. Burst
    BY <1>0, <1>7 DEF Refill
  <2>2. tokens' = [tokens EXCEPT ![d][i] = tokens[d][i] + 1]
    BY <1>7 DEF Refill
  <2>3. tokens' \in [Domain -> [Address -> 0 .. Burst]]
    BY <2>1, <2>2
  <2> QED
    BY <1>7, <2>3 DEF Refill, InTurn
<1>8. ASSUME NEW c \in Client, HangUp(c) PROVE ProxyInv'
  <2>1. req' \in [Client -> {"none"} \union InFlight \union Answers]
    BY <1>8 DEF HangUp, Answers
  <2>2. CASE req[c] = "accepted"
    <3>1. Counted(c)
      BY <1>8, <2>2 DEF HangUp
    <3>2. /\ count' \in [Domain -> Address] /\ address' \in [Client -> Address]
          /\ ahead' \in [Domain -> [Address -> Nat]] /\ InTurn'
      BY <3>1, CountedInTurn
    <3> QED
      BY <1>8, <2>1, <3>2 DEF HangUp
  <2>3. CASE req[c] # "accepted"
    BY <1>8, <2>1, <2>3 DEF HangUp, InTurn
  <2> QED
    BY <2>2, <2>3
<1>9. ASSUME NEW c \in Client, Taken(c) PROVE ProxyInv'
  BY <1>0, <1>9 DEF Taken, InTurn
<1>10. CASE UNCHANGED proxyVars
  BY <1>10 DEF proxyVars, InTurn
<1> QED
  BY <1>1, <1>2, <1>3, <1>4, <1>5, <1>6, <1>7, <1>8, <1>9, <1>10 DEF ProxyStep, Serve, DialFails

-----------------------------------------------------------------------------
(***************************************************************************)
(* The rows: what a writer has gathered so far, and what the table has, is *)
(* right column by column.                                                 *)
(***************************************************************************)
\* The columns so far of weapon w, when the weapons in F are those that had a failure.
Right(F, w, row) ==
  \A k \in 1 .. Len(row) : row[k] = True(w, Kinds[k]) \/ (row[k] = Blank /\ w \in F)

\* The columns that a writer can have at a stage.
Fits(stage, row) ==
  /\ stage = "idle" => row = <<>>
  /\ stage \in {"get", "fetch", "fetching"} => Len(row) < 3
  /\ stage = "insert" => Len(row) = 3

WriterType ==
  /\ redis \in [Key -> Value \union {None}]
  /\ rows \in [Weapon -> Seq(Value) \union {None}]
  /\ pc \in [Writer -> {"idle", "get", "fetch", "fetching", "insert"}]
  /\ weapon \in [Writer -> Weapon]
  /\ store \in [Writer -> BOOLEAN]
  /\ columns \in [Writer -> Seq(Value)]
  /\ failed \subseteq Weapon

Gathered ==
  \A p \in Writer : Fits(pc[p], columns[p]) /\ Right(failed, weapon[p], columns[p])

RowsRight ==
  \A w \in Weapon : rows[w] # None => Len(rows[w]) = 3 /\ Right(failed, w, rows[w])

ManifestInv == ProxyInv /\ WriterType /\ Gathered /\ RowsRight

LEMMA KindsRange == Len(Kinds) = 3 /\ Kinds[1] = "item" /\ Kinds[2] = "damage" /\ Kinds[3] = "slot"
BY DEF Kinds

LEMMA RightGrows ==
  ASSUME NEW F, NEW G, F \subseteq G, NEW w, NEW row, Right(F, w, row)
  PROVE  Right(G, w, row)
BY DEF Right

LEMMA RightEmpty == ASSUME NEW F, NEW w PROVE Right(F, w, <<>>)
BY DEF Right

LEMMA RightAppends ==
  ASSUME NEW F, NEW w, NEW row \in Seq(Value), Right(F, w, row), NEW v \in Value,
         v = True(w, Kinds[Len(row) + 1]) \/ (v = Blank /\ w \in F)
  PROVE  Right(F, w, Append(row, v))
<1>1. /\ Len(row) \in Nat /\ Len(Append(row, v)) = Len(row) + 1
      /\ \A k \in 1 .. Len(row) : Append(row, v)[k] = row[k]
      /\ Append(row, v)[Len(row) + 1] = v
  OBVIOUS
<1>2. ASSUME NEW k \in 1 .. Len(row) + 1
      PROVE  \/ Append(row, v)[k] = True(w, Kinds[k])
             \/ Append(row, v)[k] = Blank /\ w \in F
  <2>1. CASE k \in 1 .. Len(row)
    BY <1>1, <2>1 DEF Right
  <2>2. CASE k = Len(row) + 1
    BY <1>1, <2>2
  <2> QED
    BY <1>1, <2>1, <2>2
<1> QED
  BY <1>1, <1>2 DEF Right

\* A step of p alone keeps what is gathered when p's own columns still fit and are right.
LEMMA GatheredKept ==
  ASSUME ManifestInv, NEW p \in Writer, failed \subseteq failed',
         Fits(pc'[p], columns'[p]), Right(failed', weapon'[p], columns'[p]),
         \A q \in Writer : q # p =>
           pc'[q] = pc[q] /\ columns'[q] = columns[q] /\ weapon'[q] = weapon[q]
  PROVE  Gathered'
<1>1. ASSUME NEW q \in Writer
      PROVE  Fits(pc'[q], columns'[q]) /\ Right(failed', weapon'[q], columns'[q])
  <2>1. CASE q = p
    BY <2>1
  <2>2. CASE q # p
    <3>1. pc'[q] = pc[q] /\ columns'[q] = columns[q] /\ weapon'[q] = weapon[q]
      BY <2>2
    <3>2. Fits(pc[q], columns[q]) /\ Right(failed, weapon[q], columns[q])
      BY DEF ManifestInv, Gathered
    <3>3. Right(failed', weapon[q], columns[q])
      BY <3>2, RightGrows
    <3> QED
      BY <3>1, <3>2, <3>3
  <2> QED
    BY <2>1, <2>2
<1> QED
  BY <1>1 DEF Gathered

LEMMA RowsKept ==
  ASSUME ManifestInv, failed \subseteq failed', UNCHANGED rows
  PROVE  RowsRight'
<1>1. ASSUME NEW w \in Weapon, rows[w] # None
      PROVE  Len(rows[w]) = 3 /\ Right(failed', w, rows[w])
  <2>1. Len(rows[w]) = 3 /\ Right(failed, w, rows[w])
    BY <1>1 DEF ManifestInv, RowsRight
  <2> QED
    BY <2>1, RightGrows
<1> QED
  BY <1>1 DEF RowsRight

LEMMA AskedType ==
  ASSUME ManifestInv, NEW p \in Writer, pc[p] \in {"get", "fetch", "fetching"}
  PROVE  /\ Len(columns[p]) \in 0 .. 2
         /\ Asked(p) \in Kind /\ AskedKey(p) \in Key
         /\ Fetched(p) \in Value
<1>1. columns[p] \in Seq(Value) /\ Len(columns[p]) \in 0 .. 2 /\ weapon[p] \in Weapon
  <2> DEFINE n == Len(columns[p])
  <2>1. columns[p] \in Seq(Value) /\ weapon[p] \in Weapon /\ n < 3
    BY DEF ManifestInv, WriterType, Gathered, Fits
  <2>2. n \in Nat
    BY <2>1
  <2> HIDE DEF n
  <2>3. n \in 0 .. 2
    BY <2>1, <2>2
  <2> QED
    BY <2>1, <2>3 DEF n
<1>2. Asked(p) \in Kind
  <2> DEFINE n == Len(columns[p])
  <2>1. n = 0 \/ n = 1 \/ n = 2
    BY <1>1
  <2> HIDE DEF n
  <2>2. Kinds[n + 1] \in Kind
    BY <2>1, KindsRange DEF Kind
  <2> QED
    BY <2>2 DEF Asked, n
<1>3. AskedKey(p) \in Key
  BY <1>1, <1>2, ManifestAssumption DEF AskedKey, KeyIn, Kind
<1>4. Fetched(p) \in Value
  BY <1>2, <1>3 DEF Fetched, Value, Definition
<1> QED
  BY <1>1, <1>2, <1>3, <1>4

\* An answer that is no failure is the weapon's own value: an item that was found leads
\* to the two keys of the weapon, and one that does not exist leads to nothing.
LEMMA FetchedRight ==
  ASSUME ManifestInv, NEW p \in Writer, pc[p] = "fetching"
  PROVE  \/ Fetched(p) = True(weapon[p], Asked(p))
         \/ Fetched(p) = Blank /\ (req[p] # "ok" \/ weapon[p] \in failed)
<1> DEFINE w == weapon[p]
           n == Len(columns[p])
<1>1. columns[p] \in Seq(Value) /\ n \in 0 .. 2 /\ w \in Weapon /\ Asked(p) = Kinds[n + 1]
  BY AskedType DEF ManifestInv, WriterType, Asked
<1>2. CASE req[p] # "ok"
  BY <1>2 DEF Fetched
<1>3. CASE req[p] = "ok" /\ AskedKey(p) = KeyIn(w, Asked(p))
  BY <1>3 DEF Fetched, True
<1>4. CASE req[p] = "ok" /\ AskedKey(p) # KeyIn(w, Asked(p))
  <2>1. Asked(p) # "item" /\ columns[p][1] = Blank /\ AskedKey(p) = ZeroKey
    BY <1>4 DEF AskedKey
  <2>2. n >= 1
    BY <1>1, <2>1, KindsRange
  <2>3. <<Asked(p), ZeroKey>> \notin Exists
    BY ZeroAssumption
  <2>4. Fetched(p) = Blank
    BY <2>1, <2>3 DEF Fetched
  <2>5. columns[p][1] = True(w, Kinds[1]) \/ w \in failed
    BY <1>1, <2>2 DEF ManifestInv, Gathered, Right
  <2>6. CASE w \in failed
    BY <2>4, <2>6
  <2>7. CASE w \notin failed
    <3>1. True(w, "item") = Blank
      BY <2>1, <2>5, <2>7, KindsRange
    <3>2. <<"item", w>> \notin Exists
      BY <3>1 DEF True, KeyIn, Blank
    <3>3. DamageOf[w] = ZeroKey /\ SlotOf[w] = ZeroKey
      BY <1>1, <3>2, ZeroAssumption
    <3>4. Asked(p) \in {"damage", "slot"}
      BY <2>1, AskedType DEF Kind
    <3>5. KeyIn(w, Asked(p)) = ZeroKey
      BY <3>3, <3>4 DEF KeyIn
    <3> QED
      BY <1>4, <2>1, <3>5
  <2> QED
    BY <2>6, <2>7
<1> QED
  BY <1>2, <1>3, <1>4

\* Get returns v for the kind that was asked for.
LEMMA ReturnsKeeps ==
  ASSUME ManifestInv, NEW p \in Writer, NEW v \in Value,
         pc[p] \in {"get", "fetch", "fetching"}, Returns(p, v),
         failed \subseteq failed', failed' \subseteq Weapon,
         UNCHANGED <<weapon, rows>>,
         redis' \in [Key -> Value \union {None}],
         v = True(weapon[p], Asked(p)) \/ (v = Blank /\ weapon[p] \in failed')
  PROVE  WriterType' /\ Gathered' /\ RowsRight'
<1> DEFINE n == Len(columns[p])
<1>1. columns[p] \in Seq(Value) /\ n \in 0 .. 2 /\ Asked(p) = Kinds[n + 1]
  BY AskedType DEF ManifestInv, WriterType, Asked
<1>2. /\ Append(columns[p], v) \in Seq(Value)
      /\ Len(Append(columns[p], v)) = n + 1
      /\ \A k \in 1 .. n : Append(columns[p], v)[k] = columns[p][k]
      /\ Append(columns[p], v)[n + 1] = v
  BY <1>1
<1>3. /\ columns' = [columns EXCEPT ![p] = Append(columns[p], v)]
      /\ pc' = [pc EXCEPT ![p] = IF n + 1 = 3 THEN "insert" ELSE "get"]
      /\ store' = [store EXCEPT ![p] = FALSE]
  BY KindsRange DEF Returns
<1>4. WriterType'
  BY <1>2, <1>3 DEF ManifestInv, WriterType
<1>5. columns'[p] = Append(columns[p], v) /\ pc'[p] = IF n + 1 = 3 THEN "insert" ELSE "get"
  BY <1>3 DEF ManifestInv, WriterType
<1>6. Fits(pc'[p], columns'[p])
  BY <1>1, <1>2, <1>5 DEF Fits
<1>7. Right(failed', weapon[p], columns[p])
  BY RightGrows DEF ManifestInv, Gathered
<1>8. Right(failed', weapon[p], columns'[p])
  BY <1>1, <1>5, <1>7, RightAppends
<1>9. \A q \in Writer : q # p =>
        pc'[q] = pc[q] /\ columns'[q] = columns[q] /\ weapon'[q] = weapon[q]
  BY <1>3 DEF ManifestInv, WriterType
<1>10. Gathered'
  BY <1>6, <1>8, <1>9, GatheredKept
<1> QED
  BY <1>4, <1>10, RowsKept

\* A step to another stage of Get.
LEMMA GoesKeeps ==
  ASSUME ManifestInv, NEW p \in Writer, NEW stage \in {"get", "fetch", "fetching"},
         NEW keep \in BOOLEAN, pc[p] \in {"get", "fetch", "fetching"}, Goes(p, stage, keep),
         UNCHANGED <<redis, rows, weapon, columns, failed>>
  PROVE  WriterType' /\ Gathered' /\ RowsRight'
<1>1. WriterType'
  BY DEF ManifestInv, WriterType, Goes
<1>2. \A q \in Writer : pc'[q] = IF q = p THEN stage ELSE pc[q]
  BY DEF ManifestInv, WriterType, Goes
<1>3. Fits(stage, columns[p]) /\ Right(failed, weapon[p], columns[p])
  BY DEF ManifestInv, Gathered, Fits
<1>4. Gathered'
  BY <1>2, <1>3, GatheredKept
<1> QED
  BY <1>1, <1>4, RowsKept

LEMMA ManifestStarts == Init => ManifestInv
<1> SUFFICES ASSUME Init PROVE ManifestInv
  OBVIOUS
<1>1. ProxyInv
  BY ProxyStarts DEF Init
<1>2. (CHOOSE w \in Weapon : TRUE) \in Weapon
  BY ManifestAssumption
<1>3. WriterType
  BY <1>2 DEF Init, WriterType
<1>4. Gathered
  BY RightEmpty DEF Init, Gathered, Fits
<1>5. RowsRight
  BY DEF Init, RowsRight
<1> QED
  BY <1>1, <1>3, <1>4, <1>5 DEF ManifestInv

LEMMA WriterKept ==
  ASSUME ManifestInv, NEW p \in Writer, WriterNext(p)
  PROVE  ManifestInv'
<1>0. p \in Client
  BY ManifestAssumption
<1>1. CASE Hit(p) \/ Miss(p) \/ RedisFails(p)
  <2>1. ProxyInv'
    BY <1>1, ProxyKept DEF Hit, Miss, RedisFails, ManifestInv
  <2>2. WriterType' /\ Gathered' /\ RowsRight'
    BY <1>1, GoesKeeps DEF Hit, Miss, RedisFails
  <2> QED
    BY <2>1, <2>2 DEF ManifestInv
<1>2. CASE HitUndecoded(p)
  <2>1. ProxyInv'
    BY <1>2, ProxyKept DEF HitUndecoded, ManifestInv
  <2>2. weapon[p] \in Weapon /\ redis \in [Key -> Value \union {None}] /\ failed \subseteq Weapon
    BY DEF ManifestInv, WriterType
  <2>3. Blank \in Value
    BY DEF Value
  <2>4. WriterType' /\ Gathered' /\ RowsRight'
    BY <1>2, <2>2, <2>3, ReturnsKeeps DEF HitUndecoded
  <2> QED
    BY <2>1, <2>4 DEF ManifestInv
<1>3. CASE Fetch(p)
  <2>1. ProxyInv'
    BY <1>0, <1>3, ProxyKept DEF Fetch, ManifestInv, ProxyStep, Domain
  <2>2. store[p] \in BOOLEAN
    BY DEF ManifestInv, WriterType
  <2>3. WriterType' /\ Gathered' /\ RowsRight'
    BY <1>3, <2>2, GoesKeeps DEF Fetch
  <2> QED
    BY <2>1, <2>3 DEF ManifestInv
<1>4. CASE FetchReturns(p)
  <2>1. ProxyInv'
    BY <1>0, <1>4, ProxyKept DEF FetchReturns, ManifestInv, ProxyStep
  <2>2. /\ Fetched(p) \in Value /\ AskedKey(p) \in Key /\ weapon[p] \in Weapon
        /\ redis \in [Key -> Value \union {None}] /\ failed \subseteq Weapon
    BY <1>4, AskedType DEF FetchReturns, ManifestInv, WriterType
  <2>3. redis' \in [Key -> Value \union {None}]
    BY <1>4, <2>2 DEF FetchReturns
  <2>4. /\ failed \subseteq failed' /\ failed' \subseteq Weapon
        /\ req[p] # "ok" => weapon[p] \in failed'
    BY <1>4, <2>2 DEF FetchReturns
  <2>5. \/ Fetched(p) = True(weapon[p], Asked(p))
        \/ Fetched(p) = Blank /\ weapon[p] \in failed'
    BY <1>4, <2>4, FetchedRight DEF FetchReturns
  <2>6. WriterType' /\ Gathered' /\ RowsRight'
    BY <1>4, <2>2, <2>3, <2>4, <2>5, ReturnsKeeps DEF FetchReturns
  <2> QED
    BY <2>1, <2>6 DEF ManifestInv
<1>5. CASE Insert(p)
  <2>1. ProxyInv'
    BY <1>5, ProxyKept DEF Insert, ManifestInv
  <2>2. /\ pc[p] = "insert" /\ weapon[p] \in Weapon /\ columns[p] \in Seq(Value)
        /\ Len(columns[p]) = 3 /\ Right(failed, weapon[p], columns[p])
    BY <1>5 DEF Insert, ManifestInv, WriterType, Gathered, Fits
  <2>3. /\ pc' = [pc EXCEPT ![p] = "idle"] /\ store' = [store EXCEPT ![p] = FALSE]
        /\ columns' = [columns EXCEPT ![p] = <<>>]
        /\ UNCHANGED <<redis, weapon, failed>>
    BY <1>5 DEF Insert, Goes
  <2>4. \A w \in Weapon : rows'[w] = rows[w] \/ (w = weapon[p] /\ rows'[w] = columns[p])
    BY <1>5, <2>2 DEF Insert, ManifestInv, WriterType
  <2>5. rows' \in [Weapon -> Seq(Value) \union {None}]
    BY <1>5, <2>2 DEF Insert, ManifestInv, WriterType
  <2>6. <<>> \in Seq(Value)
    OBVIOUS
  <2>7. WriterType'
    BY <2>3, <2>5, <2>6 DEF ManifestInv, WriterType
  <2>8. \A q \in Writer : /\ pc'[q] = IF q = p THEN "idle" ELSE pc[q]
                          /\ columns'[q] = IF q = p THEN <<>> ELSE columns[q]
    BY <2>3 DEF ManifestInv, WriterType
  <2>9. Gathered'
    BY <2>3, <2>8, RightEmpty, GatheredKept DEF Fits
  <2>10. RowsRight'
    BY <2>2, <2>3, <2>4 DEF ManifestInv, RowsRight
  <2> QED
    BY <2>1, <2>7, <2>9, <2>10 DEF ManifestInv
<1> QED
  BY <1>1, <1>2, <1>3, <1>4, <1>5 DEF WriterNext

LEMMA ManifestKept == ManifestInv /\ [Next]_vars => ManifestInv'
<1> SUFFICES ASSUME ManifestInv, [Next]_vars PROVE ManifestInv'
  OBVIOUS
<1>1. ASSUME NEW p \in Writer, WriterNext(p) PROVE ManifestInv'
  BY <1>1, WriterKept
<1>2. ASSUME NEW p \in Writer, NEW w \in Weapon, Begin(p, w) PROVE ManifestInv'
  <2>1. ProxyInv'
    BY <1>2, ProxyKept DEF Begin, ManifestInv
  <2>2. /\ pc' = [pc EXCEPT ![p] = "get"] /\ store' = [store EXCEPT ![p] = FALSE]
        /\ columns' = [columns EXCEPT ![p] = <<>>] /\ weapon' = [weapon EXCEPT ![p] = w]
        /\ UNCHANGED <<redis, rows, failed>>
    BY <1>2 DEF Begin, Goes
  <2>3. <<>> \in Seq(Value) /\ Len(<<>>) = 0
    OBVIOUS
  <2>4. WriterType'
    BY <2>2, <2>3 DEF ManifestInv, WriterType
  <2>5. \A q \in Writer : /\ pc'[q] = IF q = p THEN "get" ELSE pc[q]
                          /\ columns'[q] = IF q = p THEN <<>> ELSE columns[q]
                          /\ weapon'[q] = IF q = p THEN w ELSE weapon[q]
    BY <2>2 DEF ManifestInv, WriterType
  <2>6. Gathered'
    BY <2>2, <2>3, <2>5, RightEmpty, GatheredKept DEF Fits
  <2>7. RowsRight'
    BY <2>2, RowsKept
  <2> QED
    BY <2>1, <2>4, <2>6, <2>7 DEF ManifestInv
<1>3. ASSUME ProxyInv', UNCHANGED manifestVars PROVE ManifestInv'
  BY <1>3 DEF manifestVars, ManifestInv, WriterType, Gathered, RowsRight
<1>4. ASSUME NEW c \in Client \ Writer, Crawl(c) PROVE ManifestInv'
  <2>1. ProxyInv'
    BY <1>4, ProxyKept DEF Crawl, ProxyStep, Domain, ManifestInv
  <2> QED
    BY <1>3, <1>4, <2>1 DEF Crawl
<1>5. CASE ProxyNext /\ UNCHANGED manifestVars
  <2>1. ProxyInv'
    BY <1>5, ProxyKept DEF ProxyNext, ProxyStep, ManifestInv
  <2> QED
    BY <1>3, <1>5, <2>1
<1>6. ASSUME NEW k \in Key, Expire(k) PROVE ManifestInv'
  <2>1. ProxyInv'
    BY <1>6, ProxyKept DEF Expire, ManifestInv
  <2>2. redis' \in [Key -> Value \union {None}]
    BY <1>6 DEF Expire, ManifestInv, WriterType
  <2> QED
    BY <1>6, <2>1, <2>2 DEF Expire, ManifestInv, WriterType, Gathered, RowsRight
<1>7. CASE UNCHANGED vars
  <2>1. ProxyInv'
    BY <1>7, ProxyKept DEF vars, ManifestInv
  <2> QED
    BY <1>3, <1>7, <2>1 DEF vars
<1> QED
  BY <1>1, <1>2, <1>4, <1>5, <1>6, <1>7 DEF Next

-----------------------------------------------------------------------------
(***************************************************************************)
(* Theorems.                                                               *)
(***************************************************************************)
\* Types of proxy, Redis, table and writers; no limiter gives what it does not have.
THEOREM ManifestTypeSafety == Spec => []TypeOK
<1>1. ManifestInv => TypeOK
  <2> SUFFICES ASSUME ManifestInv PROVE TypeOK
    OBVIOUS
  <2>1. \A p \in Writer : /\ Len(columns[p]) <= 3
                          /\ \A k \in DOMAIN columns[p] : columns[p][k] \in Value
    <3> SUFFICES ASSUME NEW p \in Writer
                 PROVE  /\ Len(columns[p]) <= 3
                        /\ \A k \in DOMAIN columns[p] : columns[p][k] \in Value
      OBVIOUS
    <3>1. columns[p] \in Seq(Value)
      BY DEF ManifestInv, WriterType
    <3>2. pc[p] \in {"idle", "get", "fetch", "fetching", "insert"}
      BY DEF ManifestInv, WriterType
    <3>3. Len(columns[p]) <= 3
      <4> DEFINE n == Len(columns[p])
      <4>1. Fits(pc[p], columns[p])
        BY DEF ManifestInv, Gathered
      <4>2. n = 0 \/ n < 3 \/ n = 3
        BY <3>2, <4>1 DEF Fits
      <4>3. n \in Nat
        BY <3>1
      <4> HIDE DEF n
      <4>4. n <= 3
        BY <4>2, <4>3
      <4> QED
        BY <4>4 DEF n
    <3> QED
      BY <3>1, <3>3
  <2>2. \A w \in Weapon : \/ rows[w] = None
                          \/ Len(rows[w]) = 3 /\ \A k \in 1 .. 3 : rows[w][k] \in Value
    BY DEF ManifestInv, WriterType, RowsRight
  <2> QED
    BY <2>1, <2>2 DEF ManifestInv, ProxyInv, WriterType, TypeOK
<1> QED
  BY <1>1, ManifestStarts, ManifestKept, PTL DEF Spec

\* For any number of addresses and clients, the requests of either domain are spread
\* over the addresses evenly since the proxy was started.
THEOREM ProxyBalances == Spec => []BalancedPerDomain
<1>1. ManifestInv => BalancedPerDomain
  BY DEF ManifestInv, ProxyInv, ProxyTypeOK, InTurn, BalancedPerDomain
<1> QED
  BY <1>1, ManifestStarts, ManifestKept, PTL DEF Spec

\* Whatever writers, Redis and the proxy do, every column of a weapon is its own, or it is
\* blank and something went wrong for this weapon.
THEOREM RowsAreTruthful == Spec => []RowsTruthful
<1>1. ManifestInv => RowsTruthful
  BY DEF ManifestInv, RowsRight, Right, RowsTruthful
<1> QED
  BY <1>1, ManifestStarts, ManifestKept, PTL DEF Spec
=============================================================================
