---------------------------- MODULE StratumServer ----------------------------
(***************************************************************************)
(* The stratum servers of the pool's worker processes and the bans they    *)
(* share (stratum-pool/lib/stratum.js, libs/poolWorker.js, init.js).       *)
(*                                                                         *)
(* Each worker keeps bans of its own; the master relays every ban to all   *)
(* of them.  A worker that dies loses its bans and its clients and is      *)
(* forked again; until its server is made it drops what the master sends.  *)
(* One step of time is more than the purge timer takes for the length of a *)
(* ban: it compares milliseconds with the configured seconds.              *)
(***************************************************************************)
EXTENDS Naturals, Sequences, FiniteSets, Functions

CONSTANTS
  Forks,           \* pool workers
  Clients,         \* miners; each has one connection at a time
  Addresses,
  AddressOf,       \* the address each miner connects from
  Honest,          \* miners whose shares are all good once they are authorized
  Threshold,       \* banning.checkThreshold
  InvalidPercent,  \* banning.invalidPercent
  BanTime,         \* banning.time, in steps of time
  MaxShares,       \* bound: shares of one connection
  MaxChunk,        \* bound: messages read from a socket at once
  MaxBans,         \* bound: bans triggered
  MaxCrashes       \* bound: workers that die

ASSUME ServerAssumption ==
  /\ AddressOf \in [Clients -> Addresses] /\ Honest \subseteq Clients
  /\ Threshold \in Nat \ {0} /\ InvalidPercent \in 0 .. 100
  /\ BanTime \in Nat \ {0}
  /\ MaxShares \in Nat /\ MaxChunk \in Nat \ {0}
  /\ MaxBans \in Nat /\ MaxCrashes \in Nat

VARIABLES
  worker,     \* of a fork: "down", "starting" or "serving"
  bannedIPs,  \* of a fork: the age of each ban it knows
  client,     \* a miner's StratumClient, or Away
  toMaster,   \* of a fork: banIP messages not yet read by the master
  toFork,     \* of a fork: banIP messages relayed to it
  bans,       \* number of bans triggered
  crashes,    \* number of workers that died
  inForce,    \* history: the age of each address's last ban, until its time is over
  excused     \* history: forks that could not know of it, or dropped it since

vars == <<worker, bannedIPs, client, toMaster, toFork, bans, crashes, inForce, excused>>

NoBans == [a \in {} |-> 0]
Away   == [socket |-> "none"]

Connection(f, socket) ==
  [socket |-> socket, fork |-> f, auth |-> "no", valid |-> 0, invalid |-> 0]

\* Of a client whose socket is gone only an authorization still asked for counts.
Settled(k) ==
  IF k.socket = "open" THEN k
  ELSE [Connection(k.fork, "destroyed") EXCEPT !.auth = IF k.auth = "asked" THEN "asked" ELSE "no"]

On(f) == {c \in Clients : client[c] # Away /\ client[c].fork = f}

Init ==
  /\ worker = [f \in Forks |-> "serving"]
  /\ bannedIPs = [f \in Forks |-> NoBans]
  /\ client = [c \in Clients |-> Away]
  /\ toMaster = [f \in Forks |-> <<>>]
  /\ toFork = [f \in Forks |-> <<>>]
  /\ bans = 0 /\ crashes = 0
  /\ inForce = NoBans
  /\ excused = [a \in Addresses |-> {}]

\* These forks are excused from knowing of the bans in force of these addresses.
Excuse(as, fs) ==
  [a \in Addresses |->
     IF a \in as \intersect DOMAIN inForce THEN excused[a] \union fs ELSE excused[a]]

----------------------------------------------------------------------------
(* Connections.                                                            *)

\* addBannedIP: a ban known before is dated anew.
Banned(known, a) == [b \in DOMAIN known \union {a} |-> IF b = a THEN 0 ELSE known[b]]

IsBanned(f, a) == a \in DOMAIN bannedIPs[f] /\ bannedIPs[f][a] < BanTime

\* Faulty variant: a banned address that tries again is banned anew.
CheckBanAgain(f, a) ==
  IF IsBanned(f, a) THEN Banned(bannedIPs[f], a)
  ELSE Restrict(bannedIPs[f], DOMAIN bannedIPs[f] \ {a})

\* checkBan: a ban whose time is over is forgiven when its address connects.
CheckBan(f, a) ==
  IF IsBanned(f, a) THEN bannedIPs[f]
  ELSE Restrict(bannedIPs[f], DOMAIN bannedIPs[f] \ {a})

\* handleNewClient: a banned client is among the clients until its socket has
\* closed.
Connect(c) ==
  /\ client[c] = Away
  /\ \E f \in Forks :
       /\ worker[f] = "serving"
       /\ client' = [client EXCEPT ![c] =
            Connection(f, IF IsBanned(f, AddressOf[c]) THEN "destroyed" ELSE "open")]
       /\ bannedIPs' = [bannedIPs EXCEPT ![f] = CheckBan(f, AddressOf[c])]
  /\ UNCHANGED <<worker, toMaster, toFork, bans, crashes, inForce, excused>>

\* 'close': the client is forgotten.
Close(c) ==
  /\ client[c].socket = "destroyed"
  /\ client' = [client EXCEPT ![c] = Away]
  /\ UNCHANGED <<worker, bannedIPs, toMaster, toFork, bans, crashes, inForce, excused>>

\* The miner goes away; or it has sent no share for connectionTimeout and the
\* next broadcast disconnects it.  An honest miner is authorized long before.
Leave(c) ==
  /\ client[c].socket = "open"
  /\ c \in Honest => client[c].auth = "yes"
  /\ client' = [client EXCEPT ![c] = Settled([@ EXCEPT !.socket = "destroyed"])]
  /\ UNCHANGED <<worker, bannedIPs, toMaster, toFork, bans, crashes, inForce, excused>>

\* handleAuthorize: the daemon is asked whether the address is valid.
Authorize(c) ==
  /\ client[c].socket = "open" /\ client[c].auth = "no"
  /\ client' = [client EXCEPT ![c].auth = "asked"]
  /\ UNCHANGED <<worker, bannedIPs, toMaster, toFork, bans, crashes, inForce, excused>>

\* The answer, which may come after the socket is gone.
Answer(c) ==
  /\ client[c] # Away /\ client[c].auth = "asked"
  /\ \E valid \in IF c \in Honest THEN {TRUE} ELSE BOOLEAN :
       client' = [client EXCEPT ![c] = Settled([@ EXCEPT !.auth = IF valid THEN "yes" ELSE "no"])]
  /\ UNCHANGED <<worker, bannedIPs, toMaster, toFork, bans, crashes, inForce, excused>>

----------------------------------------------------------------------------
(* Shares and bans.                                                        *)

\* Faulty variant: the threshold must be passed.
RogueBeyond(k) ==
  /\ k.valid + k.invalid > Threshold
  /\ k.invalid * 100 >= InvalidPercent * (k.valid + k.invalid)

\* considerBan: whether a connection with these counts is banned.  The counts
\* are those of the whole connection: the reset after a good interval goes to
\* another object.
Rogue(k) ==
  /\ k.valid + k.invalid >= Threshold
  /\ k.invalid * 100 >= InvalidPercent * (k.valid + k.invalid)

\* Each share is counted as good or bad: the counts after i messages of a chunk.
Counted(k, chunk, i) ==
  LET good == Cardinality({j \in 1 .. i : chunk[j]})
  IN [k EXCEPT !.valid = @ + good, !.invalid = @ + (i - good)]

\* A share of a client that is not authorized is refused and counted; so are
\* outdated and repeated ones of any client.
Verdicts(c) ==
  IF client[c].auth # "yes" THEN {FALSE}
  ELSE IF c \in Honest THEN {TRUE} ELSE BOOLEAN

\* Faulty variant: the other workers are not told.
TriggeredHere(f, a, n) ==
  /\ bannedIPs' = [bannedIPs EXCEPT ![f] = IF n = 0 THEN @ ELSE Banned(@, a)]
  /\ UNCHANGED toMaster

\* triggerBan: banned here, and the master is told.
Triggered(f, a, n) ==
  /\ bannedIPs' = [bannedIPs EXCEPT ![f] = IF n = 0 THEN @ ELSE Banned(@, a)]
  /\ toMaster' = [toMaster EXCEPT ![f] = @ \o [i \in 1 .. n |-> a]]

\* A chunk of mining.submit messages from one socket.  Those behind the one that
\* brought the ban are handled like the rest, and can bring it again.
Submit(c) ==
  /\ client[c].socket = "open"
  /\ \E size \in 1 .. MaxChunk : \E chunk \in [1 .. size -> Verdicts(c)] :
       LET k == client[c]
           a == AddressOf[c]
           n == Cardinality({i \in 1 .. size : Rogue(Counted(k, chunk, i))})
       IN /\ k.valid + k.invalid + size <= MaxShares
          /\ bans + n <= MaxBans
          /\ bans' = bans + n
          /\ client' = [client EXCEPT ![c] =
               IF n = 0 THEN Counted(k, chunk, size)
               ELSE Settled([k EXCEPT !.socket = "destroyed"])]
          /\ Triggered(k.fork, a, n)
          /\ inForce' = IF n = 0 THEN inForce ELSE Banned(inForce, a)
          /\ excused' = IF n = 0 THEN excused
                        ELSE [excused EXCEPT ![a] = {f \in Forks : worker[f] = "down"}]
  /\ UNCHANGED <<worker, toFork, crashes>>

\* init.js: the master passes a ban on to every worker there is.
Relay(f) ==
  /\ toMaster[f] # <<>>
  /\ toMaster' = [toMaster EXCEPT ![f] = Tail(@)]
  /\ toFork' = [g \in Forks |->
       IF worker[g] = "down" THEN toFork[g] ELSE Append(toFork[g], Head(toMaster[f]))]
  /\ excused' = Excuse({Head(toMaster[f])}, {g \in Forks : worker[g] = "down"})
  /\ UNCHANGED <<worker, bannedIPs, client, bans, crashes, inForce>>

\* poolWorker.js: a pool without a server yet ignores it.
Deliver(f) ==
  /\ toFork[f] # <<>>
  /\ toFork' = [toFork EXCEPT ![f] = Tail(@)]
  /\ IF worker[f] = "serving"
       THEN bannedIPs' = [bannedIPs EXCEPT ![f] = Banned(@, Head(toFork[f]))]
            /\ UNCHANGED excused
       ELSE excused' = Excuse({Head(toFork[f])}, {f})
            /\ UNCHANGED bannedIPs
  /\ UNCHANGED <<worker, client, toMaster, bans, crashes, inForce>>

----------------------------------------------------------------------------
(* Timers.                                                                 *)

Older(ages) == [a \in DOMAIN ages |-> IF ages[a] < BanTime THEN ages[a] + 1 ELSE BanTime]

Tick ==
  /\ bannedIPs' = [f \in Forks |-> Older(bannedIPs[f])]
  /\ LET over == {a \in DOMAIN inForce : inForce[a] + 1 = BanTime} IN
       /\ inForce' = [a \in DOMAIN inForce \ over |-> inForce[a] + 1]
       /\ excused' = [a \in Addresses |-> IF a \in over THEN {} ELSE excused[a]]
  /\ UNCHANGED <<worker, client, toMaster, toFork, bans, crashes>>

\* The purge timer: of the bans only those of this very step of time stay.
Purge(f) ==
  /\ worker[f] = "serving"
  /\ LET old == {a \in DOMAIN bannedIPs[f] : bannedIPs[f][a] > 0} IN
       /\ bannedIPs' = [bannedIPs EXCEPT ![f] = Restrict(@, DOMAIN @ \ old)]
       /\ excused' = Excuse(old, {f})
  /\ UNCHANGED <<worker, client, toMaster, toFork, bans, crashes, inForce>>

----------------------------------------------------------------------------
(* Workers.                                                                *)

\* The worker dies, with what it had told the master written or not.
Die(f, sent) ==
  /\ crashes < MaxCrashes
  /\ crashes' = crashes + 1
  /\ worker' = [worker EXCEPT ![f] = "down"]
  /\ bannedIPs' = [bannedIPs EXCEPT ![f] = NoBans]
  /\ client' = [c \in Clients |-> IF c \in On(f) THEN Away ELSE client[c]]
  /\ toMaster' = [toMaster EXCEPT ![f] = SubSeq(@, 1, sent)]
  /\ toFork' = [toFork EXCEPT ![f] = <<>>]
  /\ LET lost == Range(SubSeq(toMaster[f], sent + 1, Len(toMaster[f]))) IN
       excused' = [a \in Addresses |-> Excuse(Addresses, {f})[a] \union Excuse(lost, Forks)[a]]
  /\ UNCHANGED <<bans, inForce>>

\* The daemon answers validateaddress with an error: the handler reads a field
\* of no response and throws.
AnswerThrows(c) ==
  /\ client[c] # Away /\ client[c].auth = "asked"
  /\ \E sent \in 0 .. Len(toMaster[client[c].fork]) : Die(client[c].fork, sent)

\* Two seconds later.
Respawn(f) ==
  /\ worker[f] = "down"
  /\ worker' = [worker EXCEPT ![f] = "starting"]
  /\ UNCHANGED <<bannedIPs, client, toMaster, toFork, bans, crashes, inForce, excused>>

\* StartStratumServer, at the end of the start-up (module PoolStartup).
Serve(f) ==
  /\ worker[f] = "starting"
  /\ worker' = [worker EXCEPT ![f] = "serving"]
  /\ UNCHANGED <<bannedIPs, client, toMaster, toFork, bans, crashes, inForce, excused>>

----------------------------------------------------------------------------

Progress(c) == Connect(c) \/ Close(c) \/ Authorize(c) \/ Answer(c)

Next ==
  \/ \E c \in Clients : Progress(c) \/ Leave(c) \/ Submit(c) \/ AnswerThrows(c)
  \/ \E f \in Forks :
       Relay(f) \/ Deliver(f) \/ Purge(f) \/ Respawn(f) \/ Serve(f)
  \/ Tick

Spec == Init /\ [][Next]_vars

\* An honest miner connects whenever it is away, the daemon answers, dead
\* workers are replaced, and time goes on.
FairSpec ==
  /\ Spec
  /\ \A c \in Honest : WF_vars(Progress(c))
  /\ \A f \in Forks : WF_vars(Relay(f)) /\ WF_vars(Deliver(f)) /\ WF_vars(Purge(f))
                      /\ WF_vars(Respawn(f)) /\ WF_vars(Serve(f))
  /\ WF_vars(Tick)

----------------------------------------------------------------------------
(* Properties.                                                             *)

\* The state of the servers; an open connection's counts never call for a ban.
ServerTypeOK ==
  /\ worker \in [Forks -> {"down", "starting", "serving"}]
  /\ \A f \in Forks :
       /\ DOMAIN bannedIPs[f] \subseteq Addresses
       /\ \A a \in DOMAIN bannedIPs[f] : bannedIPs[f][a] \in 0 .. BanTime
       /\ toMaster[f] \in Seq(Addresses) /\ toFork[f] \in Seq(Addresses)
  /\ \A c \in Clients : client[c] # Away =>
       /\ client[c].socket \in {"open", "destroyed"}
       /\ worker[client[c].fork] = "serving"
       /\ client[c].auth \in {"no", "asked", "yes"}
       /\ client[c].valid + client[c].invalid <= MaxShares
       /\ client[c].socket = "open" =>
            \/ client[c].valid + client[c].invalid < Threshold
            \/ client[c].invalid * 100 <
                 InvalidPercent * (client[c].valid + client[c].invalid)
  /\ bans \in 0 .. MaxBans /\ crashes \in 0 .. MaxCrashes

\* A ban reaches every worker: while it is in force each serving worker knows
\* it or its news is on the way, unless the worker was not serving when the news
\* came or has purged it since, or the one that raised it died before the master
\* had read of it.
BanKnown ==
  \A a \in DOMAIN inForce, f \in Forks :
    (worker[f] = "serving" /\ f \notin excused[a]) =>
      \/ IsBanned(f, a)
      \/ \E g \in Forks : a \in Range(toMaster[g])
      \/ a \in Range(toFork[f])

\* A miner that shares its address with one that is banned is let in again, with
\* whatever bans the workers still have to hear of: no ban outlives its time
\* because its address keeps trying.
HonestReturns ==
  \A c \in Honest :
    (client[c] = Away) ~> (client[c] # Away /\ client[c].auth = "yes")
=============================================================================
