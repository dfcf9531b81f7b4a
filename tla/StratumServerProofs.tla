------------------------- MODULE StratumServerProofs -------------------------
(***************************************************************************)
(* For every number of workers, miners and bans: no connection stays open  *)
(* whose counts call for a ban, and a ban reaches every worker.            *)
(***************************************************************************)
EXTENDS StratumServer, SequenceTheorems, FiniteSetTheorems, TLAPS

\* The clients with a connection, before what ServerTypeOK says of them.
Connections ==
  [socket : {"open", "destroyed"}, fork : Forks, auth : {"no", "asked", "yes"},
   valid : Nat, invalid : Nat]

\* Ages up to n of the bans of some addresses.
Ages(n) == UNION {[S -> 0 .. n] : S \in SUBSET Addresses}

\* Counts that call for no ban.
Tolerated(k) ==
  \/ k.valid + k.invalid < Threshold
  \/ k.invalid * 100 < InvalidPercent * (k.valid + k.invalid)

\* What an entry of client satisfies.
ClientOK(k) ==
  k # Away =>
    /\ k \in Connections
    /\ worker[k.fork] = "serving"
    /\ k.valid + k.invalid <= MaxShares
    /\ k.socket = "open" => Tolerated(k)

\* The types of what the servers keep.
ServerInv ==
  /\ worker \in [Forks -> {"down", "starting", "serving"}]
  /\ bannedIPs \in [Forks -> Ages(BanTime)]
  /\ client \in [Clients -> Connections \union {Away}]
  /\ \A c \in Clients : ClientOK(client[c])
  /\ toMaster \in [Forks -> Seq(Addresses)]
  /\ toFork \in [Forks -> Seq(Addresses)]
  /\ bans \in 0 .. MaxBans /\ crashes \in 0 .. MaxCrashes
  /\ inForce \in Ages(BanTime - 1)
  /\ excused \in [Addresses -> SUBSET Forks]

\* The ban of address a is known to worker f, as young as it is or younger; or
\* its news is on the way to f.
Informed(f, a) ==
  \/ a \in DOMAIN bannedIPs[f] /\ bannedIPs[f][a] <= inForce[a]
  \/ \E g \in Forks : a \in Range(toMaster[g])
  \/ a \in Range(toFork[f])

\* The inductive form of BanKnown: it speaks of workers that do not serve yet
\* too, and of the age a worker takes the ban to have.
KnownInv == \A a \in DOMAIN inForce, f \in Forks : f \notin excused[a] => Informed(f, a)

----------------------------------------------------------------------------
(* Counts and ages.                                                        *)

\* Away is no connection.
LEMMA AwayApart == Away \notin Connections
BY DEF Away, Connections

\* The counts after i messages of a chunk.
LEMMA CountedFacts ==
  ASSUME NEW k \in Connections, NEW size \in Nat, NEW chunk \in [1 .. size -> BOOLEAN],
         NEW i \in 1 .. size
  PROVE  /\ Counted(k, chunk, i) \in Connections
         /\ Counted(k, chunk, i).valid + Counted(k, chunk, i).invalid
              = k.valid + k.invalid + i
         /\ Counted(k, chunk, i).fork = k.fork
         /\ Counted(k, chunk, i).socket = k.socket
<1> DEFINE good == Cardinality({j \in 1 .. i : chunk[j]})
<1>1. IsFiniteSet(1 .. i) /\ Cardinality(1 .. i) = i
  BY FS_Interval
<1>2. good \in 0 .. i
  BY <1>1, FS_Subset, FS_CardinalityType
<1>3. Counted(k, chunk, i) = [k EXCEPT !.valid = @ + good, !.invalid = @ + (i - good)]
  BY DEF Counted
<1>4. k.valid + good \in Nat /\ k.invalid + (i - good) \in Nat
  BY <1>2 DEF Connections
<1>5. k.valid + good + (k.invalid + (i - good)) = k.valid + k.invalid + i
  BY <1>2 DEF Connections
<1> HIDE DEF good
<1> QED BY <1>3, <1>4, <1>5 DEF Connections

\* How many messages of a chunk bring a ban.
LEMMA BringingFacts ==
  ASSUME NEW k, NEW size \in Nat \ {0}, NEW chunk
  PROVE  LET n == Cardinality({i \in 1 .. size : Rogue(Counted(k, chunk, i))})
         IN n \in Nat /\ (n = 0 => ~Rogue(Counted(k, chunk, size)))
<1> DEFINE bringing == {i \in 1 .. size : Rogue(Counted(k, chunk, i))}
<1>1. IsFiniteSet(bringing)
  <2>1. IsFiniteSet(1 .. size) /\ bringing \in SUBSET (1 .. size)
    BY FS_Interval
  <2> QED BY <2>1, FS_Subset
<1>2. Cardinality(bringing) \in Nat /\ (Cardinality(bringing) = 0 => bringing = {})
  BY <1>1, FS_CardinalityType, FS_EmptySet
<1> QED BY <1>2

\* Whoever is not banned for its counts is tolerated.
LEMMA ToleratedUnlessRogue ==
  ASSUME NEW k \in Connections, ~Rogue(k)
  PROVE  Tolerated(k)
<1>1. k.valid + k.invalid \in Nat /\ k.invalid * 100 \in Nat
  BY DEF Connections
<1>2. InvalidPercent * (k.valid + k.invalid) \in Int
  BY <1>1, ServerAssumption
<1>3. \A p, q \in Int : ~(p >= q) => p < q
  OBVIOUS
<1> HIDE DEF Connections
<1> QED BY <1>1, <1>2, <1>3, ServerAssumption DEF Rogue, Tolerated

\* A new or settled connection has no shares.
LEMMA SettledFacts ==
  ASSUME NEW k \in Connections
  PROVE  /\ Settled(k) \in Connections
         /\ Settled(k).fork = k.fork /\ Settled(k).socket = k.socket
         /\ k.socket = "open" => Settled(k) = k
         /\ k.socket # "open" => Settled(k).valid = 0 /\ Settled(k).invalid = 0
BY DEF Settled, Connection, Connections

\* Bans dated anew, ended or grown older.
LEMMA AgesFacts ==
  ASSUME NEW n \in Nat, NEW ages \in Ages(n)
  PROVE  /\ DOMAIN ages \subseteq Addresses
         /\ \A a \in DOMAIN ages : ages[a] \in 0 .. n
         /\ \A a \in Addresses : Banned(ages, a) \in Ages(n)
         /\ \A S \in SUBSET DOMAIN ages : Restrict(ages, S) \in Ages(n)
<1>1. PICK D \in SUBSET Addresses : ages \in [D -> 0 .. n]
  BY DEF Ages
<1>2. ASSUME NEW a \in Addresses PROVE Banned(ages, a) \in Ages(n)
  <2>1. Banned(ages, a) \in [D \union {a} -> 0 .. n]
    BY <1>1 DEF Banned
  <2> QED BY <2>1 DEF Ages
<1>3. ASSUME NEW S \in SUBSET DOMAIN ages PROVE Restrict(ages, S) \in Ages(n)
  <2>1. Restrict(ages, S) \in [S -> 0 .. n] /\ S \in SUBSET Addresses
    BY <1>1 DEF Restrict
  <2> QED BY <2>1 DEF Ages
<1> QED BY <1>1, <1>2, <1>3

LEMMA NoBansFacts ==
  DOMAIN NoBans = {} /\ \A n \in Nat : NoBans \in Ages(n)
<1>1. \A n \in Nat : NoBans \in [{} -> 0 .. n]
  BY DEF NoBans
<1>2. \A n : [{} -> 0 .. n] \subseteq Ages(n)
  BY DEF Ages
<1> QED BY <1>1, <1>2 DEF NoBans

\* checkBan keeps the bans that are in force.
LEMMA CheckBanFacts ==
  ASSUME ServerInv, NEW f \in Forks, NEW a \in Addresses
  PROVE  /\ CheckBan(f, a) \in Ages(BanTime)
         /\ \A b \in DOMAIN bannedIPs[f] :
              bannedIPs[f][b] < BanTime =>
                b \in DOMAIN CheckBan(f, a) /\ CheckBan(f, a)[b] = bannedIPs[f][b]
<1>1. bannedIPs[f] \in Ages(BanTime) /\ BanTime \in Nat
  BY ServerAssumption DEF ServerInv
<1>2. CheckBan(f, a) \in Ages(BanTime)
  BY <1>1, AgesFacts DEF CheckBan
<1>3. ASSUME NEW b \in DOMAIN bannedIPs[f], bannedIPs[f][b] < BanTime
      PROVE  b \in DOMAIN CheckBan(f, a) /\ CheckBan(f, a)[b] = bannedIPs[f][b]
  BY <1>3 DEF CheckBan, IsBanned, Restrict
<1> QED BY <1>2, <1>3

----------------------------------------------------------------------------
(* The servers' state.                                                     *)

\* A client whose entry changes, the workers staying as they are.
LEMMA ClientStep ==
  ASSUME ServerInv, NEW c \in Clients, NEW k, k = Away \/ k \in Connections,
         ClientOK(k), client' = [client EXCEPT ![c] = k], worker' = worker
  PROVE  /\ client' \in [Clients -> Connections \union {Away}]
         /\ \A d \in Clients : ClientOK(client[d])'
BY DEF ServerInv, ClientOK

LEMMA InitialState == Init => ServerInv
<1> SUFFICES ASSUME Init PROVE ServerInv
  OBVIOUS
<1>1. NoBans \in Ages(BanTime) /\ NoBans \in Ages(BanTime - 1)
  BY NoBansFacts, ServerAssumption
<1>2. <<>> \in Seq(Addresses)
  OBVIOUS
<1>3. client \in [Clients -> Connections \union {Away}] /\ \A c \in Clients : ClientOK(client[c])
  BY DEF Init, ClientOK
<1> QED BY <1>1, <1>2, <1>3, ServerAssumption DEF Init, ServerInv

LEMMA ConnectKeeps ==
  ASSUME ServerInv, NEW c \in Clients, Connect(c)
  PROVE  ServerInv'
<1> PICK f \in Forks :
      /\ worker[f] = "serving"
      /\ client' = [client EXCEPT ![c] =
            Connection(f, IF IsBanned(f, AddressOf[c]) THEN "destroyed" ELSE "open")]
      /\ bannedIPs' = [bannedIPs EXCEPT ![f] = CheckBan(f, AddressOf[c])]
  BY DEF Connect
<1> DEFINE k == Connection(f, IF IsBanned(f, AddressOf[c]) THEN "destroyed" ELSE "open")
<1>1. k \in Connections /\ ClientOK(k)
  BY ServerAssumption DEF Connection, Connections, ClientOK, Tolerated
<1>2. CheckBan(f, AddressOf[c]) \in Ages(BanTime)
  BY CheckBanFacts, ServerAssumption
<1> HIDE DEF k
<1>3. /\ client' \in [Clients -> Connections \union {Away}]
      /\ \A d \in Clients : ClientOK(client[d])'
  BY <1>1, ClientStep DEF Connect, k
<1> QED BY <1>2, <1>3 DEF Connect, ServerInv

\* A step that only touches the connection of one client, and its counts last.
LEMMA ClientOnlyKeeps ==
  ASSUME ServerInv, NEW c \in Clients, NEW k, k = Away \/ k \in Connections, ClientOK(k),
         client' = [client EXCEPT ![c] = k],
         UNCHANGED <<worker, bannedIPs, toMaster, toFork, bans, crashes, inForce, excused>>
  PROVE  ServerInv'
<1>1. /\ client' \in [Clients -> Connections \union {Away}]
      /\ \A d \in Clients : ClientOK(client[d])'
  BY ClientStep
<1> QED BY <1>1 DEF ServerInv

\* Settling keeps what a connection satisfies.
LEMMA SettledOK ==
  ASSUME ServerInv, NEW k \in Connections, worker[k.fork] = "serving",
         k.socket = "open" => k.valid + k.invalid <= MaxShares /\ Tolerated(k)
  PROVE  Settled(k) \in Connections /\ ClientOK(Settled(k))
<1>1. MaxShares \in Nat /\ 0 + 0 <= MaxShares
  BY ServerAssumption
<1>2. /\ Settled(k) \in Connections
      /\ Settled(k).fork = k.fork /\ Settled(k).socket = k.socket
      /\ k.socket = "open" => Settled(k) = k
      /\ k.socket # "open" => Settled(k).valid = 0 /\ Settled(k).invalid = 0
  BY SettledFacts
<1> QED BY <1>1, <1>2 DEF ClientOK

\* What a client that is somewhere is.
LEMMA ConnectedFacts ==
  ASSUME ServerInv, NEW c \in Clients, client[c] # Away
  PROVE  /\ client[c] \in Connections
         /\ client[c].fork \in Forks /\ worker[client[c].fork] = "serving"
         /\ client[c].valid \in Nat /\ client[c].invalid \in Nat
         /\ client[c].valid + client[c].invalid <= MaxShares
         /\ client[c].socket = "open" => Tolerated(client[c])
BY DEF ServerInv, ClientOK, Connections

LEMMA SocketMeansConnected ==
  ASSUME NEW c, client[c].socket \in {"open", "destroyed"}
  PROVE  client[c] # Away
BY DEF Away

LEMMA ConversationKeeps ==
  ASSUME ServerInv, NEW c \in Clients, Close(c) \/ Leave(c) \/ Authorize(c) \/ Answer(c)
  PROVE  ServerInv'
<1>1. CASE Close(c)
  BY <1>1, ClientOnlyKeeps DEF Close, ClientOK
<1>2. CASE Leave(c)
  <2>1. client[c] \in Connections /\ worker[client[c].fork] = "serving"
    BY <1>2, SocketMeansConnected, ConnectedFacts DEF Leave
  <2>2. /\ [client[c] EXCEPT !.socket = "destroyed"] \in Connections
        /\ [client[c] EXCEPT !.socket = "destroyed"].socket = "destroyed"
        /\ [client[c] EXCEPT !.socket = "destroyed"].fork = client[c].fork
    BY <2>1 DEF Connections
  <2>3. client' = [client EXCEPT ![c] = Settled([client[c] EXCEPT !.socket = "destroyed"])]
    BY <1>2 DEF Leave, ServerInv
  <2> QED BY <1>2, <2>1, <2>2, <2>3, SettledOK, ClientOnlyKeeps DEF Leave
<1>3. CASE Authorize(c)
  <2>1. /\ client[c] \in Connections /\ worker[client[c].fork] = "serving"
        /\ client[c].valid + client[c].invalid <= MaxShares
        /\ client[c].socket = "open" => Tolerated(client[c])
    BY <1>3, SocketMeansConnected, ConnectedFacts DEF Authorize
  <2> DEFINE k == [client[c] EXCEPT !.auth = "asked"]
  <2>2. /\ k \in Connections /\ k.socket = client[c].socket /\ k.fork = client[c].fork
        /\ k.valid = client[c].valid /\ k.invalid = client[c].invalid
    BY <2>1 DEF Connections
  <2>3. client' = [client EXCEPT ![c] = k]
    BY <1>3 DEF Authorize, ServerInv
  <2> HIDE DEF k
  <2>4. ClientOK(k)
    BY <2>1, <2>2 DEF ClientOK, Tolerated
  <2> QED BY <1>3, <2>2, <2>3, <2>4, ClientOnlyKeeps DEF Authorize
<1>4. CASE Answer(c)
  <2>1. /\ client[c] \in Connections /\ worker[client[c].fork] = "serving"
        /\ client[c].valid + client[c].invalid <= MaxShares
        /\ client[c].socket = "open" => Tolerated(client[c])
    BY <1>4, ConnectedFacts DEF Answer
  <2>2. PICK valid \in BOOLEAN :
          client' = [client EXCEPT ![c] =
            Settled([client[c] EXCEPT !.auth = IF valid THEN "yes" ELSE "no"])]
    BY <1>4 DEF Answer, ServerInv
  <2> DEFINE k == [client[c] EXCEPT !.auth = IF valid THEN "yes" ELSE "no"]
  <2>3. /\ k \in Connections /\ k.socket = client[c].socket /\ k.fork = client[c].fork
        /\ k.valid = client[c].valid /\ k.invalid = client[c].invalid
    BY <2>1 DEF Connections
  <2> HIDE DEF k
  <2>4. Settled(k) \in Connections /\ ClientOK(Settled(k))
    BY <2>1, <2>3, SettledOK DEF Tolerated
  <2>5. client' = [client EXCEPT ![c] = Settled(k)]
    BY <2>2 DEF k
  <2> QED BY <1>4, <2>4, <2>5, ClientOnlyKeeps DEF Answer
<1> QED BY <1>1, <1>2, <1>3, <1>4

\* A chunk of shares, with how many of them brought a ban.
Chunk(c, size, chunk, n) ==
  LET k == client[c]
      a == AddressOf[c]
  IN /\ n = Cardinality({i \in 1 .. size : Rogue(Counted(k, chunk, i))})
     /\ k.valid + k.invalid + size <= MaxShares
     /\ bans + n <= MaxBans
     /\ bans' = bans + n
     /\ client' = [client EXCEPT ![c] =
          IF n = 0 THEN Counted(k, chunk, size)
          ELSE Settled([k EXCEPT !.socket = "destroyed"])]
     /\ Triggered(k.fork, a, n)
     /\ inForce' = IF n = 0 THEN inForce ELSE Banned(inForce, a)
     /\ excused' = IF n = 0 THEN excused
                   ELSE [excused EXCEPT ![a] = {f \in Forks : worker[f] = "down"}]
     /\ UNCHANGED <<worker, toFork, crashes>>

\* Submit, with the chunk named.
LEMMA SubmitStep ==
  ASSUME NEW c \in Clients, Submit(c)
  PROVE  /\ client[c].socket = "open"
         /\ \E size \in Nat \ {0} : \E chunk \in [1 .. size -> BOOLEAN], n \in Nat :
              Chunk(c, size, chunk, n)
<1> PICK size \in 1 .. MaxChunk :
      \E chunk \in [1 .. size -> Verdicts(c)] :
        Chunk(c, size, chunk, Cardinality({i \in 1 .. size : Rogue(Counted(client[c], chunk, i))}))
  BY DEF Submit, Chunk
<1>1. PICK chunk \in [1 .. size -> Verdicts(c)] :
        Chunk(c, size, chunk, Cardinality({i \in 1 .. size : Rogue(Counted(client[c], chunk, i))}))
  OBVIOUS
<1>2. size \in Nat \ {0}
  BY ServerAssumption
<1>3. chunk \in [1 .. size -> BOOLEAN]
  <2>1. Verdicts(c) \subseteq BOOLEAN
    BY DEF Verdicts
  <2> QED BY <2>1
<1>4. Cardinality({i \in 1 .. size : Rogue(Counted(client[c], chunk, i))}) \in Nat
  BY <1>2, BringingFacts
<1> QED BY <1>1, <1>2, <1>3, <1>4 DEF Submit

\* The news of a ban, behind what the worker had to tell before.
LEMMA NewsFacts ==
  ASSUME NEW s \in Seq(Addresses), NEW a \in Addresses, NEW n \in Nat
  PROVE  /\ s \o [i \in 1 .. n |-> a] \in Seq(Addresses)
         /\ Range(s) \subseteq Range(s \o [i \in 1 .. n |-> a])
         /\ n > 0 => a \in Range(s \o [i \in 1 .. n |-> a])
<1> DEFINE news == [i \in 1 .. n |-> a]
<1>1. news \in Seq(Addresses)
  OBVIOUS
<1>2. s \o news \in Seq(Addresses) /\ Range(s \o news) = Range(s) \union Range(news)
  BY <1>1, ConcatProperties, RangeConcatenation
<1>3. n > 0 => a \in Range(news)
  <2>1. n > 0 => 1 \in DOMAIN news /\ news[1] = a
    OBVIOUS
  <2> QED BY <2>1 DEF Range
<1> QED BY <1>2, <1>3

LEMMA SubmitKeeps ==
  ASSUME ServerInv, NEW c \in Clients, Submit(c)
  PROVE  ServerInv'
<1> DEFINE k == client[c]
<1> DEFINE a == AddressOf[c]
<1> PICK size \in Nat \ {0} : \E chunk \in [1 .. size -> BOOLEAN], n \in Nat :
      Chunk(c, size, chunk, n)
  BY SubmitStep
<1>1. PICK chunk \in [1 .. size -> BOOLEAN], n \in Nat : Chunk(c, size, chunk, n)
  OBVIOUS
<1>2. /\ k # Away /\ k \in Connections /\ k.socket = "open" /\ a \in Addresses
      /\ k.fork \in Forks /\ worker[k.fork] = "serving"
  BY SubmitStep, SocketMeansConnected, ConnectedFacts, ServerAssumption
<1>3. CASE n = 0
  <2>1. /\ Counted(k, chunk, size) \in Connections
        /\ Counted(k, chunk, size).valid + Counted(k, chunk, size).invalid
             = k.valid + k.invalid + size
        /\ Counted(k, chunk, size).fork = k.fork
    BY <1>2, CountedFacts
  <2>2. ~Rogue(Counted(k, chunk, size))
    BY <1>1, <1>3, BringingFacts DEF Chunk
  <2>3. k.valid + k.invalid + size <= MaxShares
    BY <1>1 DEF Chunk
  <2>4. Tolerated(Counted(k, chunk, size))
    BY <2>1, <2>2, ToleratedUnlessRogue
  <2>5. ClientOK(Counted(k, chunk, size))
    BY <1>2, <2>1, <2>3, <2>4 DEF ClientOK
  <2>6. UNCHANGED <<worker, bannedIPs, toMaster, toFork, bans, crashes, inForce, excused>>
    <3>1. /\ bannedIPs' = [bannedIPs EXCEPT ![k.fork] = @]
          /\ toMaster' = [toMaster EXCEPT ![k.fork] = @ \o [i \in 1 .. 0 |-> a]]
      BY <1>1, <1>3 DEF Chunk, Triggered
    <3>2. toMaster[k.fork] \o [i \in 1 .. 0 |-> a] = toMaster[k.fork]
      <4>1. [i \in 1 .. 0 |-> a] = <<>>
        OBVIOUS
      <4> QED BY <1>2, <4>1 DEF ServerInv
    <3> QED BY <1>1, <1>2, <1>3, <3>1, <3>2 DEF Chunk, ServerInv
  <2>7. client' = [client EXCEPT ![c] = Counted(k, chunk, size)]
    BY <1>1, <1>3 DEF Chunk
  <2> QED BY <2>1, <2>5, <2>6, <2>7, ClientOnlyKeeps
<1>4. CASE n # 0
  <2> DEFINE d == [k EXCEPT !.socket = "destroyed"]
  <2>1. d \in Connections /\ d.socket = "destroyed" /\ d.fork = k.fork
    BY <1>2 DEF Connections
  <2> HIDE DEF d
  <2>2. Settled(d) \in Connections /\ ClientOK(Settled(d))
    BY <1>2, <2>1, SettledOK
  <2>3. client' = [client EXCEPT ![c] = Settled(d)] /\ worker' = worker
    BY <1>1, <1>4 DEF Chunk, d
  <2>4. /\ client' \in [Clients -> Connections \union {Away}]
        /\ \A e \in Clients : ClientOK(client[e])'
    BY <2>2, <2>3, ClientStep
  <2>5. bannedIPs' \in [Forks -> Ages(BanTime)]
    <3>1. bannedIPs' = [bannedIPs EXCEPT ![k.fork] = Banned(bannedIPs[k.fork], a)]
      BY <1>1, <1>4 DEF Chunk, Triggered
    <3>2. bannedIPs[k.fork] \in Ages(BanTime) /\ BanTime \in Nat
      BY <1>2, ServerAssumption DEF ServerInv
    <3>3. Banned(bannedIPs[k.fork], a) \in Ages(BanTime)
      BY <1>2, <3>2, AgesFacts
    <3> QED BY <3>1, <3>3 DEF ServerInv
  <2>6. toMaster' \in [Forks -> Seq(Addresses)]
    <3>1. toMaster' = [toMaster EXCEPT ![k.fork] = toMaster[k.fork] \o [i \in 1 .. n |-> a]]
      BY <1>1 DEF Chunk, Triggered
    <3>2. toMaster[k.fork] \o [i \in 1 .. n |-> a] \in Seq(Addresses)
      BY <1>2, NewsFacts DEF ServerInv
    <3> QED BY <3>1, <3>2 DEF ServerInv
  <2>7. inForce' \in Ages(BanTime - 1)
    <3>1. BanTime - 1 \in Nat /\ inForce' = Banned(inForce, a)
      BY <1>1, <1>4, ServerAssumption DEF Chunk
    <3> QED BY <1>2, <3>1, AgesFacts DEF ServerInv
  <2>8. excused' \in [Addresses -> SUBSET Forks]
    BY <1>1, <1>4 DEF Chunk, ServerInv
  <2>9. bans' \in 0 .. MaxBans /\ UNCHANGED <<worker, toFork, crashes>>
    BY <1>1, ServerAssumption DEF Chunk, ServerInv
  <2> QED BY <2>4, <2>5, <2>6, <2>7, <2>8, <2>9 DEF ServerInv
<1> QED BY <1>3, <1>4

\* What is excused is only ever widened, and for bans in force.
LEMMA ExcuseFacts ==
  ASSUME ServerInv, NEW as, NEW fs \in SUBSET Forks
  PROVE  /\ Excuse(as, fs) \in [Addresses -> SUBSET Forks]
         /\ \A a \in Addresses : Excuse(as, fs)[a] \subseteq excused[a] \union fs
         /\ \A a \in Addresses : excused[a] \subseteq Excuse(as, fs)[a]
         /\ \A a \in as \intersect DOMAIN inForce : a \in Addresses => fs \subseteq Excuse(as, fs)[a]
BY DEF Excuse, ServerInv

\* The first of a queue of bans, and the rest of it.
LEMMA QueueFacts ==
  ASSUME NEW s \in Seq(Addresses), s # <<>>
  PROVE  /\ Head(s) \in Addresses /\ Tail(s) \in Seq(Addresses)
         /\ \A a \in Range(s) : a = Head(s) \/ a \in Range(Tail(s))
<1>1. /\ Head(s) \in Addresses /\ Tail(s) \in Seq(Addresses)
      /\ Len(Tail(s)) = Len(s) - 1 /\ \A i \in 1 .. Len(Tail(s)) : Tail(s)[i] = s[i + 1]
  BY HeadTailProperties
<1>2. ASSUME NEW a \in Range(s), a # Head(s) PROVE a \in Range(Tail(s))
  <2>1. PICK i \in 1 .. Len(s) : a = s[i]
    BY RangeEquality
  <2>2. i # 1
    BY <1>2, <2>1
  <2>3. i - 1 \in 1 .. Len(Tail(s)) /\ Tail(s)[i - 1] = a
    BY <1>1, <2>1, <2>2
  <2> QED BY <1>1, <2>3, RangeEquality
<1> QED BY <1>1, <1>2

\* One more ban at the end of a queue.
LEMMA AppendedFacts ==
  ASSUME NEW s \in Seq(Addresses), NEW a \in Addresses
  PROVE  /\ Append(s, a) \in Seq(Addresses)
         /\ Range(s) \subseteq Range(Append(s, a)) /\ a \in Range(Append(s, a))
<1>1. /\ Append(s, a) \in Seq(Addresses) /\ Len(Append(s, a)) = Len(s) + 1
      /\ \A i \in 1 .. Len(s) : Append(s, a)[i] = s[i]
      /\ Append(s, a)[Len(s) + 1] = a
  BY AppendProperties
<1>2. Len(s) \in Nat
  BY LenProperties
<1>3. Range(Append(s, a)) = {Append(s, a)[i] : i \in 1 .. Len(s) + 1}
  BY <1>1, RangeEquality
<1>4. a \in Range(Append(s, a))
  BY <1>1, <1>2, <1>3
<1>5. Range(s) \subseteq Range(Append(s, a))
  <2> SUFFICES ASSUME NEW b \in Range(s) PROVE b \in Range(Append(s, a))
    OBVIOUS
  <2>1. PICK i \in 1 .. Len(s) : b = s[i]
    BY RangeEquality
  <2> QED BY <1>1, <1>2, <1>3, <2>1
<1> QED BY <1>1, <1>4, <1>5

LEMMA RelayKeeps ==
  ASSUME ServerInv, NEW f \in Forks, Relay(f)
  PROVE  ServerInv'
<1>1. Head(toMaster[f]) \in Addresses /\ Tail(toMaster[f]) \in Seq(Addresses)
  BY QueueFacts DEF Relay, ServerInv
<1>2. toMaster' \in [Forks -> Seq(Addresses)]
  BY <1>1 DEF Relay, ServerInv
<1>3. toFork' \in [Forks -> Seq(Addresses)]
  <2>1. \A g \in Forks : Append(toFork[g], Head(toMaster[f])) \in Seq(Addresses)
    BY <1>1, AppendedFacts DEF ServerInv
  <2> QED BY <2>1 DEF Relay, ServerInv
<1>4. excused' \in [Addresses -> SUBSET Forks]
  BY ExcuseFacts DEF Relay
<1> QED BY <1>2, <1>3, <1>4 DEF Relay, ServerInv, ClientOK

LEMMA DeliverKeeps ==
  ASSUME ServerInv, NEW f \in Forks, Deliver(f)
  PROVE  ServerInv'
<1>1. Head(toFork[f]) \in Addresses /\ Tail(toFork[f]) \in Seq(Addresses)
  BY QueueFacts DEF Deliver, ServerInv
<1>2. toFork' \in [Forks -> Seq(Addresses)]
  BY <1>1 DEF Deliver, ServerInv
<1>3. bannedIPs' \in [Forks -> Ages(BanTime)]
  <2>1. bannedIPs[f] \in Ages(BanTime) /\ BanTime \in Nat
    BY ServerAssumption DEF ServerInv
  <2>2. Banned(bannedIPs[f], Head(toFork[f])) \in Ages(BanTime)
    BY <1>1, <2>1, AgesFacts
  <2> QED BY <2>2 DEF Deliver, ServerInv
<1>4. excused' \in [Addresses -> SUBSET Forks]
  BY ExcuseFacts DEF Deliver, ServerInv
<1> QED BY <1>2, <1>3, <1>4 DEF Deliver, ServerInv, ClientOK

LEMMA TickKeeps ==
  ASSUME ServerInv, Tick
  PROVE  ServerInv'
<1>1. BanTime \in Nat \ {0} /\ BanTime - 1 \in Nat
  BY ServerAssumption
<1>2. bannedIPs' \in [Forks -> Ages(BanTime)]
  <2>1. ASSUME NEW f \in Forks PROVE Older(bannedIPs[f]) \in Ages(BanTime)
    <3>1. PICK D \in SUBSET Addresses : bannedIPs[f] \in [D -> 0 .. BanTime]
      BY DEF ServerInv, Ages
    <3>2. Older(bannedIPs[f]) \in [D -> 0 .. BanTime]
      BY <1>1, <3>1 DEF Older
    <3> QED BY <3>2 DEF Ages
  <2> QED BY <2>1 DEF Tick
<1>3. inForce' \in Ages(BanTime - 1)
  <2>1. PICK D \in SUBSET Addresses : inForce \in [D -> 0 .. BanTime - 1]
    BY DEF ServerInv, Ages
  <2> DEFINE left == DOMAIN inForce \ {a \in DOMAIN inForce : inForce[a] + 1 = BanTime}
  <2>2. inForce' = [a \in left |-> inForce[a] + 1] /\ left \in SUBSET Addresses
    BY <2>1 DEF Tick
  <2>3. \A a \in left : inForce[a] + 1 \in 0 .. BanTime - 1
    BY <1>1, <2>1
  <2> HIDE DEF left
  <2>4. inForce' \in [left -> 0 .. BanTime - 1]
    BY <2>2, <2>3
  <2> QED BY <2>2, <2>4 DEF Ages
<1>4. excused' \in [Addresses -> SUBSET Forks]
  BY DEF Tick, ServerInv
<1> QED BY <1>2, <1>3, <1>4 DEF Tick, ServerInv, ClientOK

LEMMA PurgeKeeps ==
  ASSUME ServerInv, NEW f \in Forks, Purge(f)
  PROVE  ServerInv'
<1> DEFINE old == {a \in DOMAIN bannedIPs[f] : bannedIPs[f][a] > 0}
<1>1. bannedIPs' = [bannedIPs EXCEPT ![f] = Restrict(bannedIPs[f], DOMAIN bannedIPs[f] \ old)]
  BY DEF Purge
<1>2. bannedIPs[f] \in Ages(BanTime) /\ BanTime \in Nat
  BY ServerAssumption DEF ServerInv
<1>3. Restrict(bannedIPs[f], DOMAIN bannedIPs[f] \ old) \in Ages(BanTime)
  BY <1>2, AgesFacts
<1>4. excused' \in [Addresses -> SUBSET Forks]
  BY ExcuseFacts DEF Purge
<1> QED BY <1>1, <1>3, <1>4 DEF Purge, ServerInv, ClientOK

\* A worker that dies takes its clients and what it knew of bans with it.
LEMMA DieKeeps ==
  ASSUME ServerInv, NEW f \in Forks, NEW sent \in 0 .. Len(toMaster[f]), Die(f, sent)
  PROVE  ServerInv'
<1>1. bannedIPs' \in [Forks -> Ages(BanTime)]
  BY NoBansFacts, ServerAssumption DEF Die, ServerInv
<1>2. client' \in [Clients -> Connections \union {Away}]
  BY DEF Die, ServerInv
<1>3. ASSUME NEW c \in Clients PROVE ClientOK(client[c])'
  BY DEF Die, ServerInv, ClientOK, On, Connections
<1>4. toMaster' \in [Forks -> Seq(Addresses)]
  <2>1. SubSeq(toMaster[f], 1, sent) \in Seq(Addresses)
    <3>1. toMaster[f] \in Seq(Addresses) /\ sent \in Int
      BY LenProperties DEF ServerInv
    <3>2. \A i \in 1 .. sent : toMaster[f][i] \in Addresses
      BY <3>1, LenProperties
    <3> QED BY <3>1, <3>2, SubSeqProperties
  <2> QED BY <2>1 DEF Die, ServerInv
<1>5. toFork' \in [Forks -> Seq(Addresses)]
  BY EmptySeq DEF Die, ServerInv
<1>6. excused' \in [Addresses -> SUBSET Forks]
  <2> DEFINE lost == Range(SubSeq(toMaster[f], sent + 1, Len(toMaster[f])))
  <2>1. excused' = [a \in Addresses |-> Excuse(Addresses, {f})[a] \union Excuse(lost, Forks)[a]]
    BY DEF Die
  <2> HIDE DEF lost
  <2>2. /\ Excuse(Addresses, {f}) \in [Addresses -> SUBSET Forks]
        /\ Excuse(lost, Forks) \in [Addresses -> SUBSET Forks]
    BY ExcuseFacts
  <2> QED BY <2>1, <2>2
<1>7. crashes' \in 0 .. MaxCrashes /\ worker' \in [Forks -> {"down", "starting", "serving"}]
  BY ServerAssumption DEF Die, ServerInv
<1> QED BY <1>1, <1>2, <1>3, <1>4, <1>5, <1>6, <1>7 DEF Die, ServerInv

\* A worker that is forked again or makes its server has no client yet.
LEMMA StartKeeps ==
  ASSUME ServerInv, NEW f \in Forks, Respawn(f) \/ Serve(f)
  PROVE  ServerInv'
<1>1. ASSUME NEW c \in Clients PROVE ClientOK(client[c])'
  BY DEF Respawn, Serve, ServerInv, ClientOK, Connections
<1> QED BY <1>1 DEF Respawn, Serve, ServerInv

\* The worker that throws is that of the client that was answered.
LEMMA ThrowStep ==
  ASSUME ServerInv, NEW c \in Clients, AnswerThrows(c)
  PROVE  \E f \in Forks : \E sent \in 0 .. Len(toMaster[f]) : Die(f, sent)
BY ConnectedFacts DEF AnswerThrows

\* What the workers, their clients and the messages between them are, after
\* whatever deaths and bans; and an open connection's counts call for no ban.
THEOREM ServersCorrect == Spec => []ServerInv
<1>1. ServerInv /\ [Next]_vars => ServerInv'
  <2> SUFFICES ASSUME ServerInv, [Next]_vars PROVE ServerInv'
    OBVIOUS
  <2>1. ASSUME NEW c \in Clients, Progress(c) \/ Leave(c) PROVE ServerInv'
    BY <2>1, ConnectKeeps, ConversationKeeps DEF Progress
  <2>2. ASSUME NEW c \in Clients, Submit(c) PROVE ServerInv'
    BY <2>2, SubmitKeeps
  <2>3. ASSUME NEW c \in Clients, AnswerThrows(c) PROVE ServerInv'
    BY <2>3, ThrowStep, DieKeeps
  <2>4. ASSUME NEW f \in Forks, Relay(f) \/ Deliver(f) \/ Purge(f) PROVE ServerInv'
    BY <2>4, RelayKeeps, DeliverKeeps, PurgeKeeps
  <2>5. ASSUME NEW f \in Forks, Respawn(f) \/ Serve(f) PROVE ServerInv'
    BY <2>5, StartKeeps
  <2>6. CASE Tick
    BY <2>6, TickKeeps
  <2>7. CASE UNCHANGED vars
    BY <2>7 DEF vars, ServerInv, ClientOK
  <2> QED BY <2>1, <2>2, <2>3, <2>4, <2>5, <2>6, <2>7 DEF Next
<1> QED BY InitialState, <1>1, PTL DEF Spec

\* The invariant the runs check: types, and counts that call for no ban.
THEOREM ServersTyped == Spec => []ServerTypeOK
<1>1. ServerInv => ServerTypeOK
  <2> SUFFICES ASSUME ServerInv PROVE ServerTypeOK
    OBVIOUS
  <2>1. ASSUME NEW f \in Forks
        PROVE  /\ DOMAIN bannedIPs[f] \subseteq Addresses
               /\ \A a \in DOMAIN bannedIPs[f] : bannedIPs[f][a] \in 0 .. BanTime
    <3>1. bannedIPs[f] \in Ages(BanTime) /\ BanTime \in Nat
      BY ServerAssumption DEF ServerInv
    <3> QED BY <3>1, AgesFacts
  <2>2. ASSUME NEW c \in Clients, client[c] # Away
        PROVE  /\ client[c].socket \in {"open", "destroyed"}
               /\ worker[client[c].fork] = "serving"
               /\ client[c].auth \in {"no", "asked", "yes"}
               /\ client[c].valid + client[c].invalid <= MaxShares
               /\ client[c].socket = "open" =>
                    \/ client[c].valid + client[c].invalid < Threshold
                    \/ client[c].invalid * 100 <
                         InvalidPercent * (client[c].valid + client[c].invalid)
    BY <2>2, ConnectedFacts DEF Connections, Tolerated
  <2> QED BY <2>1, <2>2 DEF ServerInv, ServerTypeOK
<1> QED BY <1>1, ServersCorrect, PTL

----------------------------------------------------------------------------
(* Bans are heard of.                                                      *)

\* What a worker knows of a ban in force is no older than the ban itself; so a
\* ban in force is one the worker would enforce.
LEMMA InformedSuffices ==
  ASSUME ServerInv, KnownInv
  PROVE  BanKnown
<1> SUFFICES ASSUME NEW a \in DOMAIN inForce, NEW f \in Forks, f \notin excused[a]
             PROVE  \/ IsBanned(f, a)
                    \/ \E g \in Forks : a \in Range(toMaster[g])
                    \/ a \in Range(toFork[f])
  BY DEF BanKnown
<1>1. inForce[a] \in 0 .. BanTime - 1 /\ BanTime \in Nat
  BY AgesFacts, ServerAssumption DEF ServerInv
<1>2. bannedIPs[f] \in Ages(BanTime)
  BY DEF ServerInv
<1>3. \A b \in DOMAIN bannedIPs[f] : bannedIPs[f][b] \in 0 .. BanTime
  BY <1>1, <1>2, AgesFacts
<1> QED BY <1>1, <1>3 DEF KnownInv, Informed, IsBanned

\* A step forgets when a worker no longer knows a ban in force, or by another age,
\* or when news of bans is gone from a queue.
Forgets == \E f \in Forks, a \in DOMAIN inForce :
  \/ a \in DOMAIN bannedIPs[f] /\ bannedIPs[f][a] <= inForce[a]
       /\ ~(a \in DOMAIN bannedIPs'[f] /\ bannedIPs'[f][a] = bannedIPs[f][a])
  \/ ~(Range(toMaster[f]) \subseteq Range(toMaster'[f]))
  \/ ~(Range(toFork[f]) \subseteq Range(toFork'[f]))

LEMMA NothingForgotten ==
  ASSUME KnownInv, ~Forgets, inForce' = inForce, excused' = excused
  PROVE  KnownInv'
BY DEF KnownInv, Informed, Forgets

\* Connections come and go without a ban in force being forgotten: checkBan
\* forgives only those whose time is over.
LEMMA ConnectInforms ==
  ASSUME ServerInv, KnownInv, NEW c \in Clients, Connect(c)
  PROVE  KnownInv'
<1> PICK f \in Forks : bannedIPs' = [bannedIPs EXCEPT ![f] = CheckBan(f, AddressOf[c])]
  BY DEF Connect
<1>1. \A a \in DOMAIN inForce : inForce[a] < BanTime
  BY AgesFacts, ServerAssumption DEF ServerInv
<1>2. \A g \in Forks : \A a \in DOMAIN bannedIPs[g] : bannedIPs[g][a] \in 0 .. BanTime
  BY AgesFacts, ServerAssumption DEF ServerInv
<1>3. ASSUME NEW g \in Forks, NEW a \in DOMAIN inForce,
             a \in DOMAIN bannedIPs[g], bannedIPs[g][a] <= inForce[a]
      PROVE  a \in DOMAIN bannedIPs'[g] /\ bannedIPs'[g][a] = bannedIPs[g][a]
  <2>1. bannedIPs[g][a] < BanTime
    BY <1>1, <1>2, <1>3, AgesFacts, ServerAssumption DEF ServerInv
  <2>2. CASE g = f
    BY <1>3, <2>1, <2>2, CheckBanFacts, ServerAssumption DEF ServerInv
  <2>3. CASE g # f
    BY <1>3, <2>3 DEF ServerInv
  <2> QED BY <2>2, <2>3
<1>4. ~Forgets
  BY <1>3 DEF Connect, Forgets
<1> QED BY <1>4, NothingForgotten DEF Connect

\* The worker that raises a ban knows it at once, and the others hear of it.
LEMMA SubmitInforms ==
  ASSUME ServerInv, KnownInv, NEW c \in Clients, Submit(c)
  PROVE  KnownInv'
<1> DEFINE k == client[c]
<1> DEFINE a == AddressOf[c]
<1> PICK size \in Nat \ {0} : \E chunk \in [1 .. size -> BOOLEAN], n \in Nat :
      Chunk(c, size, chunk, n)
  BY SubmitStep
<1>1. PICK chunk \in [1 .. size -> BOOLEAN], n \in Nat : Chunk(c, size, chunk, n)
  OBVIOUS
<1>2. a \in Addresses /\ k.fork \in Forks
  BY SubmitStep, SocketMeansConnected, ConnectedFacts, ServerAssumption
<1>3. /\ toMaster' = [toMaster EXCEPT ![k.fork] = toMaster[k.fork] \o [i \in 1 .. n |-> a]]
      /\ toFork' = toFork
      /\ bannedIPs' = [bannedIPs EXCEPT ![k.fork] =
                         IF n = 0 THEN bannedIPs[k.fork] ELSE Banned(bannedIPs[k.fork], a)]
      /\ inForce' = IF n = 0 THEN inForce ELSE Banned(inForce, a)
      /\ excused' = IF n = 0 THEN excused
                    ELSE [excused EXCEPT ![a] = {f \in Forks : worker[f] = "down"}]
  BY <1>1 DEF Chunk, Triggered
<1>4. /\ toMaster[k.fork] \in Seq(Addresses)
      /\ Range(toMaster[k.fork]) \subseteq Range(toMaster[k.fork] \o [i \in 1 .. n |-> a])
      /\ n > 0 => a \in Range(toMaster[k.fork] \o [i \in 1 .. n |-> a])
  BY <1>2, NewsFacts DEF ServerInv
<1>5. /\ \A g \in Forks : Range(toMaster[g]) \subseteq Range(toMaster'[g])
      /\ n > 0 => a \in Range(toMaster'[k.fork])
  BY <1>2, <1>3, <1>4 DEF ServerInv
<1>6. ASSUME NEW b, b # a \/ n = 0
      PROVE  /\ b \in DOMAIN inForce' <=> b \in DOMAIN inForce
             /\ b \in DOMAIN inForce => inForce'[b] = inForce[b]
             /\ b \in Addresses => excused'[b] = excused[b]
             /\ \A g \in Forks : b \in DOMAIN bannedIPs[g] =>
                  b \in DOMAIN bannedIPs'[g] /\ bannedIPs'[g][b] = bannedIPs[g][b]
  BY <1>2, <1>3, <1>6 DEF Banned, ServerInv
<1>7. SUFFICES ASSUME NEW b \in DOMAIN inForce', NEW f \in Forks, f \notin excused'[b]
               PROVE  Informed(f, b)'
  BY DEF KnownInv
<1>8. CASE b = a /\ n # 0
  BY <1>2, <1>5, <1>8 DEF Informed
<1>9. CASE b # a \/ n = 0
  <2>1. b \in DOMAIN inForce /\ b \in Addresses
    BY <1>6, <1>9, AgesFacts, ServerAssumption DEF ServerInv
  <2>2. f \notin excused[b] /\ inForce'[b] = inForce[b]
    BY <1>6, <1>7, <1>9, <2>1
  <2>3. Informed(f, b)
    BY <2>1, <2>2 DEF KnownInv
  <2> QED BY <1>3, <1>5, <1>6, <1>9, <2>2, <2>3 DEF Informed
<1> QED BY <1>8, <1>9

\* The news that leaves a worker's queue reaches the queue of every worker there
\* is, and the others are excused.
LEMMA RelayInforms ==
  ASSUME ServerInv, KnownInv, NEW f \in Forks, Relay(f)
  PROVE  KnownInv'
<1> DEFINE h == Head(toMaster[f])
<1>1. /\ h \in Addresses
      /\ \A b \in Range(toMaster[f]) : b = h \/ b \in Range(Tail(toMaster[f]))
  BY QueueFacts DEF Relay, ServerInv
<1>2. ASSUME NEW g \in Forks
      PROVE  /\ toMaster'[g] = IF g = f THEN Tail(toMaster[g]) ELSE toMaster[g]
             /\ Range(toFork[g]) \subseteq Range(toFork'[g])
             /\ worker[g] # "down" => h \in Range(toFork'[g])
  <2>1. /\ Range(toFork[g]) \subseteq Range(Append(toFork[g], h))
        /\ h \in Range(Append(toFork[g], h))
    BY <1>1, AppendedFacts DEF ServerInv
  <2>2. toFork'[g] = IF worker[g] = "down" THEN toFork[g] ELSE Append(toFork[g], h)
    BY DEF Relay
  <2>3. toMaster'[g] = IF g = f THEN Tail(toMaster[g]) ELSE toMaster[g]
    BY DEF Relay, ServerInv
  <2> QED BY <2>1, <2>2, <2>3
<1>3. /\ \A b \in Addresses : excused[b] \subseteq excused'[b]
      /\ h \in DOMAIN inForce => {g \in Forks : worker[g] = "down"} \subseteq excused'[h]
  BY <1>1, ExcuseFacts DEF Relay
<1>4. DOMAIN inForce \subseteq Addresses
  BY AgesFacts, ServerAssumption DEF ServerInv
<1>5. SUFFICES ASSUME NEW b \in DOMAIN inForce, NEW g \in Forks, g \notin excused'[b]
               PROVE  Informed(g, b)'
  BY DEF KnownInv, Relay
<1>6. g \notin excused[b] /\ Informed(g, b)
  BY <1>3, <1>4, <1>5 DEF KnownInv
<1>7. CASE b \in DOMAIN bannedIPs[g] /\ bannedIPs[g][b] <= inForce[b]
  BY <1>7 DEF Informed, Relay
<1>8. CASE b \in Range(toFork[g])
  BY <1>2, <1>8 DEF Informed
<1>9. ASSUME NEW e \in Forks, b \in Range(toMaster[e]) PROVE Informed(g, b)'
  <2>1. CASE e # f \/ b # h
    <3>1. b \in Range(toMaster'[e])
      BY <1>1, <1>2, <1>9, <2>1
    <3> QED BY <3>1 DEF Informed
  <2>2. CASE b = h
    <3>1. worker[g] # "down"
      BY <1>3, <1>5, <2>2
    <3> QED BY <1>2, <2>2, <3>1 DEF Informed
  <2> QED BY <2>1, <2>2
<1> QED BY <1>6, <1>7, <1>8, <1>9 DEF Informed

\* A worker that serves takes the ban as just made; one that does not is excused.
LEMMA DeliverInforms ==
  ASSUME ServerInv, KnownInv, NEW f \in Forks, Deliver(f)
  PROVE  KnownInv'
<1> DEFINE h == Head(toFork[f])
<1>1. /\ h \in Addresses
      /\ \A b \in Range(toFork[f]) : b = h \/ b \in Range(Tail(toFork[f]))
  BY QueueFacts DEF Deliver, ServerInv
<1>2. /\ DOMAIN inForce \subseteq Addresses
      /\ \A b \in DOMAIN inForce : inForce[b] \in 0 .. BanTime - 1
  BY AgesFacts, ServerAssumption DEF ServerInv
<1>3. SUFFICES ASSUME NEW b \in DOMAIN inForce, NEW g \in Forks, g \notin excused'[b]
               PROVE  Informed(g, b)'
  BY DEF KnownInv, Deliver
<1>4. g \notin excused[b] /\ Informed(g, b)
  BY <1>2, <1>3, ExcuseFacts DEF KnownInv, Deliver
<1>5. CASE b \in DOMAIN bannedIPs[g] /\ bannedIPs[g][b] <= inForce[b]
  <2> DEFINE known == Banned(bannedIPs[f], h)
  <2>1. bannedIPs'[g] = bannedIPs[g] \/ (g = f /\ bannedIPs'[g] = known)
    BY DEF Deliver, ServerInv
  <2>2. g = f => b \in DOMAIN known /\ known[b] \in {bannedIPs[g][b], 0}
    BY <1>5 DEF Banned
  <2> HIDE DEF known
  <2>3. b \in DOMAIN bannedIPs'[g] /\ bannedIPs'[g][b] \in {bannedIPs[g][b], 0}
    BY <1>5, <2>1, <2>2
  <2>4. bannedIPs'[g][b] <= inForce[b]
    BY <1>2, <1>5, <2>3
  <2> QED BY <2>3, <2>4 DEF Informed, Deliver
<1>6. CASE \E e \in Forks : b \in Range(toMaster[e])
  BY <1>6 DEF Informed, Deliver
<1>7. CASE b \in Range(toFork[g])
  <2>1. CASE g = f /\ b = h
    <3>1. worker[f] = "serving"
      BY <1>1, <1>3, <2>1, ExcuseFacts DEF Deliver
    <3>2. b \in DOMAIN bannedIPs'[g] /\ bannedIPs'[g][b] = 0
      BY <2>1, <3>1 DEF Deliver, Banned, ServerInv
    <3> QED BY <1>2, <3>2 DEF Informed, Deliver
  <2>2. CASE g # f \/ b # h
    <3>1. b \in Range(toFork'[g])
      BY <1>1, <1>7, <2>2 DEF Deliver, ServerInv
    <3> QED BY <3>1 DEF Informed
  <2> QED BY <2>1, <2>2
<1> QED BY <1>4, <1>5, <1>6, <1>7 DEF Informed

\* A ban and what the workers know of it grow older together.
LEMMA TickInforms ==
  ASSUME ServerInv, KnownInv, Tick
  PROVE  KnownInv'
<1>1. /\ DOMAIN inForce \subseteq Addresses
      /\ \A b \in DOMAIN inForce : inForce[b] \in 0 .. BanTime - 1
      /\ BanTime \in Nat
  BY AgesFacts, ServerAssumption DEF ServerInv
<1>2. SUFFICES ASSUME NEW b \in DOMAIN inForce', NEW g \in Forks, g \notin excused'[b]
               PROVE  Informed(g, b)'
  BY DEF KnownInv
<1>3. /\ b \in DOMAIN inForce /\ inForce[b] + 1 # BanTime
      /\ inForce'[b] = inForce[b] + 1
  BY <1>2 DEF Tick
<1>4. g \notin excused[b]
  BY <1>1, <1>2, <1>3 DEF Tick
<1>5. Informed(g, b)
  BY <1>3, <1>4 DEF KnownInv
<1>6. CASE b \in DOMAIN bannedIPs[g] /\ bannedIPs[g][b] <= inForce[b]
  <2>1. bannedIPs[g][b] \in 0 .. BanTime
    <3>1. bannedIPs[g] \in Ages(BanTime)
      BY DEF ServerInv
    <3> QED BY <1>1, <1>6, <3>1, AgesFacts
  <2>2. b \in DOMAIN bannedIPs'[g] /\ bannedIPs'[g][b] = bannedIPs[g][b] + 1
    BY <1>1, <1>3, <1>6, <2>1 DEF Tick, Older
  <2> QED BY <1>1, <1>3, <1>6, <2>1, <2>2 DEF Informed
<1> QED BY <1>5, <1>6 DEF Informed, Tick

\* What a worker purges it is excused from knowing.
LEMMA PurgeInforms ==
  ASSUME ServerInv, KnownInv, NEW f \in Forks, Purge(f)
  PROVE  KnownInv'
<1> DEFINE old == {a \in DOMAIN bannedIPs[f] : bannedIPs[f][a] > 0}
<1>1. /\ bannedIPs' = [bannedIPs EXCEPT ![f] = Restrict(bannedIPs[f], DOMAIN bannedIPs[f] \ old)]
      /\ excused' = Excuse(old, {f})
      /\ UNCHANGED <<toMaster, toFork, inForce>>
  BY DEF Purge
<1> HIDE DEF old
<1>2. DOMAIN inForce \subseteq Addresses
  BY AgesFacts, ServerAssumption DEF ServerInv
<1>3. SUFFICES ASSUME NEW b \in DOMAIN inForce, NEW g \in Forks, g \notin excused'[b]
               PROVE  Informed(g, b)'
  BY <1>1 DEF KnownInv
<1>4. /\ g \notin excused[b]
      /\ ~(g = f /\ b \in old)
  BY <1>1, <1>2, <1>3, ExcuseFacts
<1>5. Informed(g, b)
  BY <1>4 DEF KnownInv
<1>6. CASE b \in DOMAIN bannedIPs[g] /\ bannedIPs[g][b] <= inForce[b]
  <2>1. b \in DOMAIN bannedIPs'[g] /\ bannedIPs'[g][b] = bannedIPs[g][b]
    BY <1>1, <1>4, <1>6 DEF Restrict, ServerInv
  <2> QED BY <1>1, <1>6, <2>1 DEF Informed
<1> QED BY <1>1, <1>5, <1>6 DEF Informed

\* A worker that dies is excused; and what it had not told the master nobody
\* need know.
LEMMA DieInforms ==
  ASSUME ServerInv, KnownInv, NEW f \in Forks, NEW sent \in 0 .. Len(toMaster[f]),
         Die(f, sent)
  PROVE  KnownInv'
<1> DEFINE kept == SubSeq(toMaster[f], 1, sent)
<1> DEFINE lost == SubSeq(toMaster[f], sent + 1, Len(toMaster[f]))
<1>1. DOMAIN inForce \subseteq Addresses
  BY AgesFacts, ServerAssumption DEF ServerInv
<1>2. toMaster[f] \in Seq(Addresses) /\ Len(toMaster[f]) \in Nat
  BY LenProperties DEF ServerInv
<1>3. Range(toMaster[f]) \subseteq Range(kept) \union Range(lost)
  <2>1. \A i \in 1 .. Len(toMaster[f]) : toMaster[f][i] \in Addresses
    BY <1>2, LenProperties
  <2>2. /\ kept \in Seq(Addresses) /\ Len(kept) = sent
        /\ \A i \in 1 .. sent : kept[i] = toMaster[f][i]
    BY <1>2, <2>1, SubSeqProperties
  <2>3. /\ lost \in Seq(Addresses) /\ Len(lost) = Len(toMaster[f]) - sent
        /\ \A i \in 1 .. Len(toMaster[f]) - sent : lost[i] = toMaster[f][sent + i]
    BY <1>2, <2>1, SubSeqProperties
  <2>4. /\ Range(kept) = {kept[i] : i \in 1 .. sent}
        /\ Range(lost) = {lost[i] : i \in 1 .. Len(toMaster[f]) - sent}
        /\ Range(toMaster[f]) = {toMaster[f][i] : i \in 1 .. Len(toMaster[f])}
    BY <1>2, <2>2, <2>3, RangeEquality
  <2> HIDE DEF kept, lost
  <2>5. ASSUME NEW i \in 1 .. Len(toMaster[f])
        PROVE  toMaster[f][i] \in Range(kept) \union Range(lost)
    <3>1. CASE i <= sent
      BY <2>2, <2>4, <3>1
    <3>2. CASE i > sent
      <4>1. i - sent \in 1 .. Len(toMaster[f]) - sent /\ lost[i - sent] = toMaster[f][i]
        BY <1>2, <2>3, <3>2
      <4> QED BY <2>4, <4>1
    <3> QED BY <1>2, <3>1, <3>2
  <2> QED BY <2>4, <2>5
<1>4. /\ excused' = [a \in Addresses |->
                       Excuse(Addresses, {f})[a] \union Excuse(Range(lost), Forks)[a]]
      /\ toMaster' = [toMaster EXCEPT ![f] = kept]
      /\ toFork' = [toFork EXCEPT ![f] = <<>>]
      /\ bannedIPs' = [bannedIPs EXCEPT ![f] = NoBans]
      /\ inForce' = inForce
  BY DEF Die
<1> HIDE DEF kept, lost
<1>5. SUFFICES ASSUME NEW b \in DOMAIN inForce, NEW g \in Forks, g \notin excused'[b]
               PROVE  Informed(g, b)'
  BY <1>4 DEF KnownInv
<1>6. /\ g \notin Excuse(Addresses, {f})[b] /\ g \notin Excuse(Range(lost), Forks)[b]
      /\ b \in Addresses
  BY <1>1, <1>4, <1>5
<1>7. g \notin excused[b] /\ g # f
  BY <1>1, <1>6, ExcuseFacts
<1>8. b \notin Range(lost)
  BY <1>1, <1>6, ExcuseFacts
<1>9. Informed(g, b)
  BY <1>7 DEF KnownInv
<1>10. bannedIPs'[g] = bannedIPs[g] /\ toFork'[g] = toFork[g]
  BY <1>4, <1>7 DEF ServerInv
<1>11. ASSUME NEW e \in Forks, b \in Range(toMaster[e]) PROVE b \in Range(toMaster'[e])
  BY <1>3, <1>4, <1>8, <1>11 DEF ServerInv
<1> QED BY <1>4, <1>9, <1>10, <1>11 DEF Informed

\* A ban reaches every worker that can hear of it: the inductive invariant.
THEOREM EveryWorkerInformed == Spec => []KnownInv
<1>1. Init => KnownInv
  BY NoBansFacts DEF Init, KnownInv
<1>2. ServerInv /\ KnownInv /\ [Next]_vars => KnownInv'
  <2> SUFFICES ASSUME ServerInv, KnownInv, [Next]_vars PROVE KnownInv'
    OBVIOUS
  <2>1. ASSUME NEW c \in Clients, Connect(c) PROVE KnownInv'
    BY <2>1, ConnectInforms
  <2>2. ASSUME NEW c \in Clients, Close(c) \/ Authorize(c) \/ Answer(c) \/ Leave(c)
        PROVE  KnownInv'
    BY <2>2 DEF Close, Authorize, Answer, Leave, KnownInv, Informed
  <2>3. ASSUME NEW c \in Clients, Submit(c) PROVE KnownInv'
    BY <2>3, SubmitInforms
  <2>4. ASSUME NEW c \in Clients, AnswerThrows(c) PROVE KnownInv'
    BY <2>4, ThrowStep, DieInforms
  <2>5. ASSUME NEW f \in Forks, Relay(f) \/ Deliver(f) \/ Purge(f) PROVE KnownInv'
    BY <2>5, RelayInforms, DeliverInforms, PurgeInforms
  <2>6. ASSUME NEW f \in Forks, Respawn(f) \/ Serve(f) PROVE KnownInv'
    BY <2>6 DEF Respawn, Serve, KnownInv, Informed
  <2>7. CASE Tick
    BY <2>7, TickInforms
  <2>8. CASE UNCHANGED vars
    BY <2>8 DEF vars, KnownInv, Informed
  <2> QED BY <2>1, <2>2, <2>3, <2>4, <2>5, <2>6, <2>7, <2>8 DEF Next, Progress
<1> QED BY <1>1, <1>2, ServersCorrect, PTL DEF Spec

\* A ban in force is enforced by every worker, or its news is on the way there,
\* but for the workers excused: those that did not serve when it came, purged it
\* or died with it.
THEOREM BansReachAll == Spec => []BanKnown
BY ServersCorrect, EveryWorkerInformed, InformedSuffices, PTL
=============================================================================
