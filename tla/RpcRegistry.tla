---------------------------- MODULE RpcRegistry ----------------------------
(***************************************************************************)
(* RpcProvider::run up to its loop, and the ZkClient it registers with     *)
(* (rpc/rpcprovider.cc, rpc/zkclient.cc).  A provider connects to the      *)
(* ZooKeeper server and then creates a persistent znode for each service   *)
(* and an ephemeral one, its address for data, for each method; of each it *)
(* first asks whether it exists.  Other providers do the same between its  *)
(* calls.                                                                  *)
(*                                                                         *)
(* The server is external: it keeps the znodes and the sessions.  The      *)
(* session of a provider that died lives on until it expires, and its      *)
(* ephemeral znodes with it; the provider may be started again before.     *)
(***************************************************************************)
EXTENDS Naturals, Sequences, FiniteSets

CONSTANTS Provider,     \* providers, which are also their addresses
          Service,
          Method,       \* methods of each service
          MaxRuns,      \* bound: how often each is started
          RestartEarly, \* whether that may be before its old session expired
          EarlyEvent    \* whether the watcher may run before zoo_set_context

ASSUME RegistryAssumption ==
  /\ IsFiniteSet(Service) /\ IsFiniteSet(Method)
  /\ MaxRuns \in [Provider -> Nat] /\ {RestartEarly, EarlyEvent} \subseteq BOOLEAN

VARIABLES
  znodes,    \* set of [path, data, owner]; owner: a session, 0 if persistent
  sessions,  \* set of [id, provider]: those the server has not expired
  nextId,    \* of the next session
  phase,     \* of each provider
  todo,      \* the paths it has yet to create
  session,   \* of each provider, 0 if it has none
  runs       \* how often it was started

zkVars == <<znodes, sessions, nextId>>
providerVars == <<phase, todo, session, runs>>
registryVars == <<zkVars, providerVars>>

\* "down", "init": zookeeper_init has returned; "wait": in sem_wait; "exists":
\* to call zoo_exists; "create": to call zoo_create; "serving": in its loop
Phases == {"down", "init", "wait", "exists", "create", "serving"}

\* serviceMap_, as notifyService fills it, and the order run() goes through it
\* in: each service, then its methods
ServicePath(s) == <<s>>
MethodPath(s, m) == <<s, m>>
Orders == {q \in [1 .. Cardinality(Service) * (1 + Cardinality(Method)) ->
                    {ServicePath(s) : s \in Service} \cup
                    {MethodPath(s, m) : s \in Service, m \in Method}] :
             /\ \A i, j \in DOMAIN q : q[i] = q[j] => i = j
             /\ \A i, j \in DOMAIN q : Len(q[i]) = 2 /\ q[j] = <<q[i][1]>> => j < i}

RegistryInit ==
  /\ znodes = {} /\ sessions = {} /\ nextId = 1
  /\ phase = [p \in Provider |-> "down"]
  /\ todo = [p \in Provider |-> <<>>]
  /\ session = [p \in Provider |-> 0]
  /\ runs = [p \in Provider |-> 0]

Existing == {n.path : n \in znodes}

\* The process ends: by a crash, exit() or an exception nobody catches.
Dies(p) ==
  /\ phase' = [phase EXCEPT ![p] = "down"]
  /\ todo' = [todo EXCEPT ![p] = <<>>]
  /\ session' = [session EXCEPT ![p] = 0]
  /\ UNCHANGED runs

\* A provider is started: ZkClient::start calls zookeeper_init, which connects
\* in the background.
Start(p) ==
  /\ phase[p] = "down" /\ runs[p] < MaxRuns[p]
  /\ RestartEarly \/ \A s \in sessions : s.provider # p
  /\ phase' = [phase EXCEPT ![p] = "init"]
  /\ runs' = [runs EXCEPT ![p] = @ + 1]
  /\ UNCHANGED <<zkVars, todo, session>>

\* zoo_set_context, and on to sem_wait
SetContext(p) ==
  /\ phase[p] = "init"
  /\ phase' = [phase EXCEPT ![p] = "wait"]
  /\ UNCHANGED <<zkVars, todo, session, runs>>

\* g_watcher, of the session being established: it posts the semaphore it finds
\* as the context; before there is one, that is a null pointer.
Connected(p) ==
  /\ phase[p] \in {"wait"} \cup IF EarlyEvent THEN {"init"} ELSE {}
  /\ sessions' = sessions \cup {[id |-> nextId, provider |-> p]}
  /\ nextId' = nextId + 1
  /\ UNCHANGED znodes
  /\ IF phase[p] = "init" THEN Dies(p)
     ELSE /\ phase' = [phase EXCEPT ![p] = "exists"]
          /\ session' = [session EXCEPT ![p] = nextId]
          /\ todo' \in {[todo EXCEPT ![p] = q] : q \in Orders}
          /\ UNCHANGED runs

\* ZkClient::create: zoo_exists of the first path; a znode that exists, whoever
\* made it, is left as it is.
Exists(p) ==
  /\ phase[p] = "exists" /\ todo[p] # <<>>
  /\ IF Head(todo[p]) \in Existing
     THEN todo' = [todo EXCEPT ![p] = Tail(@)] /\ UNCHANGED phase
     ELSE phase' = [phase EXCEPT ![p] = "create"] /\ UNCHANGED todo
  /\ UNCHANGED <<zkVars, session, runs>>

\* Mutant: a method's znode is created with flags 0.
OwnerMutant(p, path) == 0

\* ZOO_EPHEMERAL for a method's znode
Owner(p, path) == IF Len(path) = 2 THEN session[p] ELSE 0

\* and then zoo_create; when another was faster the provider exits.
Create(p) ==
  /\ phase[p] = "create"
  /\ LET path == Head(todo[p])
     IN  IF path \in Existing
         THEN Dies(p) /\ UNCHANGED zkVars
         ELSE /\ znodes' = znodes \cup
                   {[path |-> path, data |-> IF Len(path) = 2 THEN {p} ELSE {},
                     owner |-> Owner(p, path)]}
              /\ phase' = [phase EXCEPT ![p] = "exists"]
              /\ todo' = [todo EXCEPT ![p] = Tail(@)]
              /\ UNCHANGED <<sessions, nextId, session, runs>>

\* server.start() and loop_->loop(): it listens.
Serve(p) ==
  /\ phase[p] = "exists" /\ todo[p] = <<>>
  /\ phase' = [phase EXCEPT ![p] = "serving"]
  /\ UNCHANGED <<zkVars, todo, session, runs>>

\* The server expires a session whose provider is gone, with its ephemeral znodes.
Expire(s) ==
  /\ s \in sessions /\ session[s.provider] # s.id
  /\ sessions' = sessions \ {s}
  /\ znodes' = {n \in znodes : n.owner # s.id}
  /\ UNCHANGED <<nextId, providerVars>>

\* ZkClient::getData: the addresses a lookup of the path may find
GetData(path) == UNION {n.data : n \in {n \in znodes : n.path = path}}

RegistryNext ==
  \/ \E p \in Provider : Start(p) \/ SetContext(p) \/ Connected(p) \/ Exists(p)
                           \/ Create(p) \/ Serve(p)
  \/ \E s \in sessions : Expire(s)

-----------------------------------------------------------------------------
\* No two znodes have the same path, and an address that can be found is that of a
\* provider whose session the server still keeps: it is up, or died lately.
AddressesFresh ==
  /\ \A n, o \in znodes : n.path = o.path => n = o
  /\ \A n \in znodes : n.owner # 0 => \E s \in sessions :
                         s.id = n.owner /\ n.data = {s.provider}
  /\ \A n \in znodes : n.data # {} => n.owner # 0

\* A provider that serves can be found, or another one that came first.
Published ==
  \A p \in Provider, s \in Service, m \in Method :
    phase[p] = "serving" => GetData(MethodPath(s, m)) # {}
=============================================================================
