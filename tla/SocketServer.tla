----------------------------- MODULE SocketServer -----------------------------
(***************************************************************************)
(* The WebSocket server around its requests (SocketRequests): the accept   *)
(* loop and its shutdown (socket/mod.rs), the life of a connection task    *)
(* with its subscriptions, pings and token bucket (socket/connection.rs,   *)
(* socket/rate_limit.rs), the two broadcast buses it listens to, and the   *)
(* task that reloads the clients when the configuration file changes       *)
(* (socket/config_watcher.rs).                                             *)
(*                                                                         *)
(* The connection tasks and the watcher run on several threads: what each  *)
(* does between two locks is a step.                                       *)
(***************************************************************************)
EXTENDS Subscriptions

CONSTANTS Conns,      \* connection tasks
          MaxConns,   \* max_connections
          Burst,      \* rate_limit_burst, in frames
          Buses,      \* the StreamEvent and the AmbientEvent channel
          BusCap,     \* what a channel keeps for a slow receiver
          Events,     \* events the application publishes
          NoClient,   \* the task does not know its client yet
          Configs,    \* lists of names the file may be given
          MaxWorld    \* bound on events published, edits of the file and tasks alive

ASSUME NoClientAssumption == NoClient \notin Clients
ASSUME ConfigsAssumption == Configs \subseteq SUBSET Clients
ASSUME LimitsAssumption == {MaxConns, Burst, BusCap} \subseteq Nat \ {0} /\ MaxWorld \in Nat

VARIABLES
  file,      \* terminus.toml, see Contents
  happened,  \* edits of it, and events published, so far
  watching,  \* the watch is on the file that is there now
  unwatched, \* there was none to watch when it was last tried
  notified,  \* an event waits in the watcher's channel
  watcher,   \* "idle", "debounce", "reload", "loaded", "purged" or "off"
  loaded,    \* the names the watcher has read
  clients,   \* shared_clients
  store,     \* shared_subs
  late,      \* clients saved although the watcher had purged them
  server,    \* SocketServer::run: "run", "draining", "done"
  at,        \* each task: "free", "upgrade", "open", "restored", "close", "save", "drop"
  known,     \* the clients it may authenticate, from when it was accepted
  who,       \* its client
  hello,     \* hello_received
  subs,      \* its registry
  tokens,    \* the bucket of each client
  log,       \* what was published on each bus
  next,      \* how much of it a task has taken from its receiver
  since,     \* the same when it subscribed to an id
  heard,     \* the events it passed on
  missed     \* the sum of the missed_count of its warnings

fileVars  == <<file, happened>>
watchVars == <<watching, unwatched, notified, watcher, loaded, clients>>
taskVars  == <<at, known, who, hello>>
busVars   == <<next, since, heard, missed>>
vars == <<fileVars, watchVars, store, late, server, taskVars, subs, tokens, log, busVars>>

Alive(c) == at[c] # "free"

AliveTasks == Cardinality({c \in Conns : Alive(c)})

Room == happened + AliveTasks < MaxWorld

(* A file that cannot be loaded does not parse, or not validate.           *)
Contents ==
  [is : {"valid"}, names : Configs] \cup [is : {"broken", "absent"}, names : {{}}]

Absent(contents) == contents.is = "absent"

Init ==
  /\ file = [is |-> "valid", names |-> Clients] /\ happened = 0
  /\ watching = TRUE /\ unwatched = FALSE /\ notified = FALSE /\ watcher = "idle" /\ loaded = {}
  /\ clients = Clients
  /\ store = EmptyStore /\ late = {}
  /\ server = "run"
  /\ at = [c \in Conns |-> "free"] /\ known = [c \in Conns |-> {}]
  /\ who = [c \in Conns |-> NoClient] /\ hello = [c \in Conns |-> FALSE]
  /\ subs = [c \in Conns |-> NoSubs]
  /\ tokens = [k \in Clients |-> Burst]
  /\ log = [b \in Buses |-> <<>>]
  /\ next = [c \in Conns |-> [b \in Buses |-> 0]]
  /\ since = [c \in Conns |-> [s \in SubIds |-> [b \in Buses |-> 0]]]
  /\ heard = [c \in Conns |-> {}]
  /\ missed = [c \in Conns |-> [b \in Buses |-> 0]]

------------------------------------------------------------------------------
(* The configuration file is written in place, or another file takes its   *)
(* name; in between there may be none.  The watch is on the old file.      *)
Edit(contents, inPlace) ==
  /\ Room /\ happened' = happened + 1
  /\ contents # file /\ file' = contents
  /\ inPlace => ~Absent(file) /\ ~Absent(contents)
  /\ notified' = (notified \/ (watching /\ watcher # "off"))
  /\ watching' = (watching /\ inPlace)
  /\ UNCHANGED <<unwatched, watcher, loaded, clients, store, late, server, taskVars, subs, tokens,
                 log, busVars>>

WatcherUnchanged ==
  UNCHANGED <<fileVars, late, server, taskVars, subs, tokens, log, busVars>>

(* An event: collect what else comes within half a second.                 *)
Debounce ==
  /\ watcher = "idle" /\ notified
  /\ watcher' = "debounce" /\ notified' = FALSE
  /\ UNCHANGED <<watching, unwatched, loaded, clients, store>> /\ WatcherUnchanged

(* The channel is drained and the file watched again, before it is read.   *)
Rewatch ==
  /\ watcher = "debounce" /\ server = "run"
  /\ watcher' = "reload" /\ notified' = FALSE
  /\ watching' = ~Absent(file) /\ unwatched' = Absent(file)
  /\ UNCHANGED <<loaded, clients, store>> /\ WatcherUnchanged

(* A file that cannot be loaded leaves everything as it is.                *)
Load ==
  /\ watcher = "reload"
  /\ IF file.is = "valid"
       THEN watcher' = "loaded" /\ loaded' = file.names
       ELSE watcher' = "idle" /\ UNCHANGED loaded
  /\ UNCHANGED <<watching, unwatched, notified, clients, store>> /\ WatcherUnchanged

PurgeStore ==
  /\ watcher = "loaded" /\ watcher' = "purged"
  /\ store' = IF loaded # clients THEN Purge(store, loaded) ELSE store
  /\ UNCHANGED <<watching, unwatched, notified, loaded, clients>> /\ WatcherUnchanged

(* Mutant: the events that came during the reload are taken for it.        *)
StoreAndDrain ==
  /\ watcher = "purged" /\ watcher' = "idle"
  /\ clients' = loaded /\ notified' = FALSE
  /\ UNCHANGED <<watching, unwatched, loaded, store>> /\ WatcherUnchanged

StoreClients ==
  /\ watcher = "purged" /\ watcher' = "idle"
  /\ clients' = loaded
  /\ UNCHANGED <<watching, unwatched, notified, loaded, store>> /\ WatcherUnchanged

(* socket_cancel comes first in both selects of the watcher.               *)
StopWatcher ==
  /\ server # "run" /\ watcher \in {"idle", "debounce"}
  /\ watcher' = "off" /\ notified' = FALSE /\ watching' = FALSE
  /\ UNCHANGED <<unwatched, loaded, clients, store>> /\ WatcherUnchanged

------------------------------------------------------------------------------
(* The accept loop.  Above the limit the connection is dropped at once.    *)
Accept(c) ==
  /\ server = "run"
  /\ at[c] = "free" /\ AliveTasks < MaxConns /\ Room
  /\ at' = [at EXCEPT ![c] = "upgrade"]
  /\ known' = [known EXCEPT ![c] = clients]
  /\ next' = [next EXCEPT ![c] = [b \in Buses |-> Len(log[b])]]
  /\ UNCHANGED <<fileVars, watchVars, store, late, server, who, hello, subs, tokens,
                 log, since, heard, missed>>

(* The token is looked up in the list of the moment of the accept.         *)
Authenticate(c, k) ==
  /\ at[c] = "upgrade" /\ k \in known[c]
  /\ at' = [at EXCEPT ![c] = "open"] /\ who' = [who EXCEPT ![c] = k]
  /\ known' = [known EXCEPT ![c] = {}]
  /\ UNCHANGED <<fileVars, watchVars, store, late, server, hello, subs, tokens, log, busVars>>

(* The task ends, and with it all that was its own.                        *)
Ends(c) ==
  /\ at' = [at EXCEPT ![c] = "free"] /\ known' = [known EXCEPT ![c] = {}]
  /\ who' = [who EXCEPT ![c] = NoClient] /\ hello' = [hello EXCEPT ![c] = FALSE]
  /\ subs' = [subs EXCEPT ![c] = NoSubs]
  /\ next' = [next EXCEPT ![c] = [b \in Buses |-> 0]]
  /\ since' = [since EXCEPT ![c] = [s \in SubIds |-> [b \in Buses |-> 0]]]
  /\ heard' = [heard EXCEPT ![c] = {}]
  /\ missed' = [missed EXCEPT ![c] = [b \in Buses |-> 0]]
  /\ UNCHANGED <<fileVars, watchVars, server, tokens, log>>

(* An unknown token, or a peer that gives up: the upgrade fails.           *)
Refuse(c) == at[c] = "upgrade" /\ Ends(c) /\ UNCHANGED <<store, late>>

------------------------------------------------------------------------------
(* A frame of the client costs a token; without one it is refused, which   *)
(* changes nothing.                                                        *)
Frame(c) ==
  /\ at[c] = "open" /\ server = "run"
  /\ tokens[who[c]] > 0
  /\ tokens' = [tokens EXCEPT ![who[c]] = @ - 1]
  /\ UNCHANGED <<fileVars, watchVars, late, server, known, who, log, next, heard, missed>>

(* Time refills the bucket, up to its capacity.                            *)
Refill(k) ==
  /\ \E n \in (tokens[k] + 1)..Burst : tokens' = [tokens EXCEPT ![k] = n]
  /\ UNCHANGED <<fileVars, watchVars, store, late, server, taskVars, subs, log, busVars>>

(* From now on the events of an id that was not held, or had another       *)
(* filter, are passed on.                                                  *)
Counts(c, before, after) ==
  since' = [since EXCEPT ![c] = [s \in SubIds |->
              IF before[s] = after[s] THEN since[c][s] ELSE next[c]]]

(* The first hello counts.  restore takes the lock once for the lookup and *)
(* once, when something came of it, to save what was imported.             *)
Hello(c, restore) ==
  LET stored == store.map[who[c]] IN
  /\ Frame(c)
  /\ ~hello[c] /\ hello' = [hello EXCEPT ![c] = TRUE]
  /\ store' = IF restore THEN Touch(store, who[c]) ELSE store
  /\ IF restore /\ stored # NoSubs
       THEN /\ \E imported \in Imports(subs[c], stored) :
                 subs' = [subs EXCEPT ![c] = imported] /\ Counts(c, subs[c], imported)
            /\ at' = [at EXCEPT ![c] = "restored"]
       ELSE UNCHANGED <<subs, since, at>>

SaveRestored(c) ==
  /\ at[c] = "restored" /\ at' = [at EXCEPT ![c] = "open"]
  /\ store' = Save(store, who[c], subs[c])
  /\ UNCHANGED <<fileVars, watchVars, late, server, known, who, hello, subs, tokens, log, busVars>>

(* An id that is subscribed already takes the new filter.                  *)
Subscribe(c, s, filter) ==
  /\ Frame(c) /\ UNCHANGED <<at, hello>>
  /\ CanAdd(subs[c], s)
  /\ subs' = [subs EXCEPT ![c][s] = filter]
  /\ store' = Save(store, who[c], subs'[c])
  /\ Counts(c, subs[c], subs'[c])

Unsubscribe(c, s) ==
  /\ Frame(c) /\ UNCHANGED <<at, hello, since>>
  /\ s \in Held(subs[c])
  /\ subs' = [subs EXCEPT ![c][s] = NoFilter]
  /\ store' = SaveOrForget(store, who[c], subs'[c])

(* Any other frame: requests, cancels, attachments, pings, errors.         *)
OtherFrame(c) == Frame(c) /\ UNCHANGED <<at, hello, subs, since, store>>

------------------------------------------------------------------------------
Publish(b, event) ==
  /\ Room /\ happened' = happened + 1
  /\ log' = [log EXCEPT ![b] = Append(@, event)]
  /\ UNCHANGED <<file, watchVars, store, late, server, taskVars, subs, tokens, busVars>>

Receives(c, b) ==
  /\ at[c] = "open" /\ server = "run" /\ next[c][b] < Len(log[b])
  /\ UNCHANGED <<fileVars, watchVars, store, late, server, taskVars, subs, tokens, log, since>>

(* The event goes out once for each subscription that matches.             *)
Receive(c, b) ==
  LET n == next[c][b] + 1 IN
  /\ Receives(c, b) /\ Len(log[b]) - next[c][b] <= BusCap
  /\ next' = [next EXCEPT ![c][b] = n]
  /\ heard' = [heard EXCEPT ![c] = @ \cup {<<b, n, s>> : s \in Matching(subs[c], log[b][n])}]
  /\ UNCHANGED missed

(* Mutant: a lag is not reported.                                          *)
LagSilently(c, b) ==
  LET skipped == Len(log[b]) - BusCap - next[c][b] IN
  /\ Receives(c, b) /\ skipped > 0
  /\ next' = [next EXCEPT ![c][b] = @ + skipped]
  /\ UNCHANGED <<heard, missed>>

(* The channel has dropped what this receiver was too slow for: warning.   *)
Lag(c, b) ==
  LET skipped == Len(log[b]) - BusCap - next[c][b] IN
  /\ Receives(c, b) /\ skipped > 0
  /\ next' = [next EXCEPT ![c][b] = @ + skipped]
  /\ missed' = [missed EXCEPT ![c][b] = @ + skipped]
  /\ UNCHANGED heard

------------------------------------------------------------------------------
Goes(c, from, to) ==
  /\ at[c] = from /\ at' = [at EXCEPT ![c] = to]
  /\ UNCHANGED <<fileVars, watchVars, store, late, server, known, who, hello, subs, tokens,
                 log, busVars>>

(* The ping ticker: the client may be gone from the configuration.         *)
PingRevoked(c) ==
  /\ who[c] \notin clients /\ server = "run"
  /\ Goes(c, "open", "close")

(* The peer closes, owes a pong, is idle for too long, asks for another    *)
(* protocol or sends too much, or a write fails, that of hello_ack too.    *)
Leave(c) == Goes(c, "open", "close")

(* Shutdown: what is in flight is answered, or its deadline passes.        *)
SeeShutdown(c) == server = "draining" /\ Goes(c, "open", "close")

(* save_subscriptions looks for the client in the live list ...            *)
LooksUp(c) == Goes(c, "close", IF who[c] \in clients THEN "save" ELSE "drop")

(* The clients that are there and that the watcher has not just purged.    *)
Retained == IF watcher = "purged" THEN loaded \cap clients ELSE clients

(* ... and takes the lock after that.                                      *)
SaveSubs(c) ==
  /\ at[c] = "save"
  /\ store' = SaveOrForget(store, who[c], subs[c])
  /\ late' = IF subs[c] # NoSubs /\ who[c] \notin Retained THEN late \cup {who[c]} ELSE late
  /\ Ends(c)

(* Mutant: what it has saved stays.                                        *)
DropNothing(c) == at[c] = "drop" /\ Ends(c) /\ UNCHANGED <<store, late>>

DropSubs(c) ==
  /\ at[c] = "drop"
  /\ store' = Forget(store, who[c])
  /\ UNCHANGED late /\ Ends(c)

------------------------------------------------------------------------------
(* main, on Ctrl-C.                                                        *)
Cancel ==
  /\ server = "run" /\ server' = "draining"
  /\ UNCHANGED <<fileVars, watchVars, store, late, taskVars, subs, tokens, log, busVars>>

(* drain_deadline has passed: a task is stopped where it awaits something, *)
(* and saves nothing.                                                      *)
Abort(c) ==
  /\ server = "draining" /\ at[c] \in {"upgrade", "open", "close"}
  /\ Ends(c) /\ UNCHANGED <<store, late>>

Drained ==
  /\ server = "draining" /\ \A c \in Conns : ~Alive(c)
  /\ server' = "done"
  /\ UNCHANGED <<fileVars, watchVars, store, late, taskVars, subs, tokens, log, busVars>>

------------------------------------------------------------------------------
Reloads == Debounce \/ Rewatch \/ Load \/ PurgeStore \/ StoreClients \/ StopWatcher

Watcher == Reloads \/ \E contents \in Contents, inPlace \in BOOLEAN : Edit(contents, inPlace)

Frames(c) ==
  \/ \E restore \in BOOLEAN : Hello(c, restore)
  \/ \E s \in SubIds, filter \in Filters : Subscribe(c, s, filter)
  \/ \E s \in SubIds : Unsubscribe(c, s)
  \/ OtherFrame(c)

Closing(c) == LooksUp(c) \/ SaveSubs(c) \/ DropSubs(c)

Task(c) ==
  \/ Accept(c) \/ Refuse(c) \/ \E k \in Clients : Authenticate(c, k)
  \/ Frames(c) \/ SaveRestored(c)
  \/ \E b \in Buses : Receive(c, b) \/ Lag(c, b)
  \/ PingRevoked(c) \/ Leave(c)
  \/ SeeShutdown(c) \/ Abort(c) \/ Closing(c)

World == \/ \E k \in Clients : Refill(k)
         \/ \E b \in Buses, event \in Events : Publish(b, event)

Next == Watcher \/ World \/ Cancel \/ Drained \/ \E c \in Conns : Task(c)

Spec == Init /\ [][Next]_vars

------------------------------------------------------------------------------
Places == {"free", "upgrade", "open", "restored", "close", "save", "drop"}

(* Every variable has its type.                                            *)
TypeOK ==
  /\ file \in Contents \cup {[is |-> "valid", names |-> Clients]} /\ happened \in 0..MaxWorld
  /\ {watching, unwatched, notified} \subseteq BOOLEAN
  /\ watcher \in {"idle", "debounce", "reload", "loaded", "purged", "off"}
  /\ loaded \subseteq Clients /\ clients \subseteq Clients /\ late \subseteq Clients
  /\ store.map \in [Clients -> Registries] /\ store.order \in Seq(Clients)
  /\ server \in {"run", "draining", "done"}
  /\ at \in [Conns -> Places] /\ known \in [Conns -> SUBSET Clients]
  /\ who \in [Conns -> Clients \cup {NoClient}]
  /\ \A c \in Conns : who[c] = NoClient <=> at[c] \in {"free", "upgrade"}
  /\ hello \in [Conns -> BOOLEAN]
  /\ subs \in [Conns -> Registries]
  /\ \A c \in Conns : Cardinality(Held(subs[c])) <= MaxSubs
  /\ tokens \in [Clients -> 0..Burst]
  /\ log \in [Buses -> Seq(Events)]
  /\ next \in [Conns -> [Buses -> 0..MaxWorld]]
  /\ since \in [Conns -> [SubIds -> [Buses -> 0..MaxWorld]]]
  /\ heard \in [Conns -> SUBSET (Buses \X (1..MaxWorld) \X SubIds)]
  /\ missed \in [Conns -> [Buses -> 0..MaxWorld]]

(* docs/socket-resource-management.md: a name is in the map when it is in  *)
(* the order, there once; and so the store keeps to its limit, however     *)
(* saves, lookups, purges and removals of several tasks follow each other. *)
StoreInStep ==
  /\ Cardinality(Saved(store)) <= StoreLimit
  /\ \A k \in Clients :
       Cardinality({i \in DOMAIN store.order : store.order[i] = k}) = (IF k \in Saved(store) THEN 1 ELSE 0)

(* The store forgets a client whose entry was taken from the configuration *)
(* as soon as its last connection has ended: each closes with a lookup in  *)
(* the live list.  What the lookup cannot see is a purge whose new list is *)
(* not stored yet, or one between the lookup and the save.                 *)
RevokedForgotten ==
  server = "run" => \A k \in Saved(store) \ clients :
    k \in late \/ \E c \in Conns : who[c] = k

(* The events of a subscription a connection has read past are passed on,  *)
(* or are among those its warnings have counted: a lag is never silent.    *)
NothingMissedSilently ==
  \A c \in Conns, b \in Buses : \A s \in Held(subs[c]) :
    LET due == {n \in (since[c][s][b] + 1)..next[c][b] : Matches(subs[c][s], log[b][n])}
    IN  Cardinality({n \in due : <<b, n, s>> \notin heard[c]}) <= missed[c][b]

(* The client list follows the file, however edits, saves that replace it  *)
(* and reloads overlap, unless the file was not there when it was to be    *)
(* watched again; the log tells of that.                                   *)
ListFollowsFile ==
  watcher = "idle" /\ ~notified /\ ~unwatched /\ file.is = "valid" => clients = file.names
==============================================================================
