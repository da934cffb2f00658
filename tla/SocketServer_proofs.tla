-------------------------- MODULE SocketServer_proofs --------------------------
(***************************************************************************)
(* ListFollowsFile, RevokedForgotten, StoreInStep and NothingMissedSilently *)
(* for any clients, connections, limits, events and configurations.  The   *)
(* first is about the watcher alone; the second about what saves, purges   *)
(* and lookups do to the names in the store, whatever order it has them    *)
(* in; the third about that order; the last about the two buses.           *)
(***************************************************************************)
EXTENDS SocketServer, FiniteSetTheorems, TLAPS

(* The steps that read or write the file, the watch or the client list.    *)
Watching == \/ Reloads
            \/ \E contents \in Contents, inPlace \in BOOLEAN : Edit(contents, inPlace)

LEMMA OthersDoNotWatch ==
  ASSUME [Next]_vars
  PROVE  Watching \/ UNCHANGED <<file, watchVars>>
<1> USE DEF fileVars, watchVars
<1>1. CASE Watcher
  BY <1>1 DEF Watcher, Watching
<1>2. CASE World
  BY <1>2 DEF World, Refill, Publish
<1>3. CASE Cancel \/ Drained
  BY <1>3 DEF Cancel, Drained
<1>4. ASSUME NEW c \in Conns, Task(c)
      PROVE  UNCHANGED <<file, watchVars>>
  <2>1. CASE Accept(c) \/ Refuse(c) \/ \E k \in Clients : Authenticate(c, k)
    BY <2>1 DEF Accept, Refuse, Ends, Authenticate
  <2>2. CASE Frames(c)
    BY <2>2 DEF Frames, Hello, Subscribe, Unsubscribe, OtherFrame, Frame
  <2>3. CASE SaveRestored(c)
    BY <2>3 DEF SaveRestored
  <2>4. CASE \E b \in Buses : Receive(c, b) \/ Lag(c, b)
    BY <2>4 DEF Receive, Lag, Receives
  <2>5. CASE PingRevoked(c) \/ Leave(c) \/ SeeShutdown(c)
    BY <2>5 DEF PingRevoked, Leave, SeeShutdown, Goes
  <2>6. CASE Abort(c) \/ Closing(c)
    BY <2>6 DEF Abort, Closing, LooksUp, SaveSubs, DropSubs, Goes, Ends
  <2> QED  BY <1>4, <2>1, <2>2, <2>3, <2>4, <2>5, <2>6 DEF Task
<1>5. CASE UNCHANGED vars
  BY <1>5 DEF vars
<1> QED  BY <1>1, <1>2, <1>3, <1>4, <1>5 DEF Next

(* Without an event in its channel the watcher watches the file that is    *)
(* there, and what it holds or has stored is what the file says.           *)
Quiet == ~notified /\ ~unwatched

Follows ==
  /\ {watching, unwatched, notified} \subseteq BOOLEAN
  /\ watcher \in {"idle", "debounce", "reload", "loaded", "purged", "off"}
  /\ watcher \in {"idle", "reload", "loaded", "purged"} /\ Quiet => watching
  /\ watcher = "idle" /\ Quiet /\ file.is = "valid" => clients = file.names
  /\ watcher \in {"loaded", "purged"} /\ Quiet /\ file.is = "valid" => loaded = file.names

LEMMA WatchingFollows ==
  ASSUME Follows, Watching
  PROVE  Follows'
<1> USE DEF Follows, Quiet, WatcherUnchanged, fileVars
<1>1. CASE Debounce
  BY <1>1 DEF Debounce
<1>2. CASE Rewatch
  BY <1>2 DEF Rewatch, Absent
<1>3. CASE Load
  BY <1>3 DEF Load
<1>4. CASE PurgeStore
  BY <1>4 DEF PurgeStore
<1>5. CASE StoreClients
  BY <1>5 DEF StoreClients
<1>6. CASE StopWatcher
  BY <1>6 DEF StopWatcher
<1>7. ASSUME NEW contents \in Contents, NEW inPlace \in BOOLEAN, Edit(contents, inPlace)
      PROVE  Follows'
  <2>1. /\ UNCHANGED <<unwatched, watcher, loaded, clients>>
        /\ notified' = (notified \/ (watching /\ watcher # "off"))
        /\ watching' = (watching /\ inPlace)
    BY <1>7 DEF Edit
  <2>2. {watching, unwatched, notified}' \subseteq BOOLEAN
    BY <2>1
  <2>3. watcher # "off" /\ Quiet' => ~watching /\ Quiet
    BY <2>1
  <2> QED  BY <2>1, <2>2, <2>3
<1> QED  BY <1>1, <1>2, <1>3, <1>4, <1>5, <1>6, <1>7 DEF Watching, Reloads

(* The client list of the server is the one of the file, once the watcher  *)
(* has nothing left to do, after any edits, replacements and reloads.      *)
THEOREM ListIsCurrent == Spec => []ListFollowsFile
<1>1. Init => Follows
  <2> SUFFICES ASSUME Init PROVE Follows
    OBVIOUS
  <2>1. /\ file = [is |-> "valid", names |-> Clients] /\ clients = Clients
        /\ watching = TRUE /\ unwatched = FALSE /\ notified = FALSE /\ watcher = "idle"
    BY DEF Init
  <2> QED  BY <2>1 DEF Follows, Quiet
<1>2. Follows /\ [Next]_vars => Follows'
  <2> SUFFICES ASSUME Follows, [Next]_vars PROVE Follows'
    OBVIOUS
  <2>1. CASE Watching
    BY <2>1, WatchingFollows
  <2>2. CASE UNCHANGED <<file, watchVars>>
    BY <2>2 DEF Follows, Quiet, watchVars
  <2> QED  BY <2>1, <2>2, OthersDoNotWatch
<1>3. Follows => ListFollowsFile
  BY DEF Follows, Quiet, ListFollowsFile
<1> QED  BY <1>1, <1>2, <1>3, PTL DEF Spec

------------------------------------------------------------------------------
IsStore(s) == s = [map |-> [k \in Clients |-> s.map[k]], order |-> s.order]

(* What the operations of the store do to the names in it.                 *)
LEMMA TouchSaves ==
  ASSUME NEW s, IsStore(s), NEW k \in Clients
  PROVE  IsStore(Touch(s, k)) /\ Saved(Touch(s, k)) = Saved(s)
<1> DEFINE o == Append(Without(s.order, {k}), k)
<1>1. PICK m : s.map = m /\ m = [j \in Clients |-> m[j]] /\ s = [map |-> m, order |-> s.order]
  BY DEF IsStore
<1>2. CASE k \in Saved(s)
  <2>1. Touch(s, k) = [s EXCEPT !["order"] = o]
    BY <1>2 DEF Touch
  <2> HIDE DEF o
  <2>2. Touch(s, k) = [map |-> m, order |-> o]
    BY <1>1, <2>1
  <2> QED  BY <1>1, <2>2 DEF Saved, IsStore
<1>3. CASE k \notin Saved(s)
  BY <1>3 DEF Touch
<1> QED  BY <1>2, <1>3

LEMMA SaveSaves ==
  ASSUME NEW s, IsStore(s), NEW k \in Clients, NEW subs1
  PROVE  IsStore(Save(s, k, subs1)) /\ Saved(Save(s, k, subs1)) \subseteq Saved(s) \cup {k}
<1>1. PICK old, o :
        Save(s, k, subs1) =
          [map   |-> [j \in Clients |-> IF j = k THEN subs1
                                        ELSE IF j \in old THEN NoSubs ELSE s.map[j]],
           order |-> o]
  BY DEF Save
<1> QED  BY <1>1 DEF Saved, IsStore

LEMMA ForgetSaves ==
  ASSUME NEW s, IsStore(s), NEW k \in Clients
  PROVE  IsStore(Forget(s, k)) /\ Saved(Forget(s, k)) = Saved(s) \ {k}
<1>1. CASE k \notin Saved(s)
  BY <1>1 DEF Forget
<1>2. CASE k \in Saved(s)
  <2>1. PICK o : Forget(s, k) = [map |-> [s.map EXCEPT ![k] = NoSubs], order |-> o]
    BY <1>2 DEF Forget
  <2>2. s.map = [j \in Clients |-> s.map[j]]
    BY DEF IsStore
  <2>3. [s.map EXCEPT ![k] = NoSubs] = [j \in Clients |-> IF j = k THEN NoSubs ELSE s.map[j]]
    BY <2>2
  <2> QED  BY <2>1, <2>3 DEF Saved, IsStore
<1> QED  BY <1>1, <1>2

LEMMA SaveOrForgetSaves ==
  ASSUME NEW s, IsStore(s), NEW k \in Clients, NEW subs1
  PROVE  /\ IsStore(SaveOrForget(s, k, subs1))
         /\ Saved(SaveOrForget(s, k, subs1)) \subseteq Saved(s) \cup {k}
         /\ subs1 = NoSubs => k \notin Saved(SaveOrForget(s, k, subs1))
<1> QED  BY SaveSaves, ForgetSaves DEF SaveOrForget

LEMMA PurgeSaves ==
  ASSUME NEW s, IsStore(s), NEW K
  PROVE  IsStore(Purge(s, K)) /\ Saved(Purge(s, K)) \subseteq Saved(s) \cap K
<1>1. PICK o : Purge(s, K) =
        [map |-> [k \in Clients |-> IF k \in K THEN s.map[k] ELSE NoSubs], order |-> o]
  BY DEF Purge
<1> QED  BY <1>1 DEF Saved, IsStore

------------------------------------------------------------------------------
(* A name outside K is in the store for a reason: a connection of the      *)
(* client is alive, or saved after the watcher had purged it.              *)
Explained(K) == \A k \in Saved(store) \ K : k \in late \/ \E c \in Conns : who[c] = k

Tasks ==
  /\ at \in [Conns -> Places]
  /\ who \in [Conns -> Clients \cup {NoClient}]
  /\ \A c \in Conns : who[c] = NoClient <=> at[c] \in {"free", "upgrade"}

(* Between the purge and the new list the names are explained for both.    *)
Forgets ==
  /\ IsStore(store)
  /\ Tasks
  /\ server \in {"run", "draining", "done"}
  /\ server = "run" => Explained(clients)
  /\ server = "run" /\ watcher = "purged" => Explained(loaded)

LEMMA InitForgets == Init => Forgets
<1> SUFFICES ASSUME Init PROVE Forgets
  OBVIOUS
<1>1. /\ store = EmptyStore /\ at = [c \in Conns |-> "free"] /\ who = [c \in Conns |-> NoClient]
      /\ server = "run"
  BY DEF Init
<1>2. IsStore(store) /\ Saved(store) = {}
  BY <1>1 DEF EmptyStore, IsStore, Saved
<1>3. Tasks
  BY <1>1 DEF Tasks, Places
<1> QED  BY <1>1, <1>2, <1>3 DEF Forgets, Explained

(* A step that keeps the lists, the watcher and the known clients, and     *)
(* adds no name to the store but that of a live connection.                *)
LEMMA HarmlessForgets ==
  ASSUME Forgets, UNCHANGED <<watcher, loaded, clients, late, who, server>>,
         Tasks', IsStore(store'),
         \A k \in Saved(store') : k \in Saved(store) \/ \E c \in Conns : who[c] = k
  PROVE  Forgets'
<1>1. ASSUME NEW K, Explained(K), K' = K
      PROVE  \A k \in Saved(store') \ K : k \in late' \/ \E c \in Conns : who'[c] = k
  BY <1>1 DEF Explained
<1> QED  BY <1>1 DEF Forgets, Explained

LEMMA WatcherForgets ==
  ASSUME Forgets, Watcher
  PROVE  Forgets'
<1>1. UNCHANGED <<at, who, server, late>>
  BY DEF Watcher, Reloads, Debounce, Rewatch, Load, PurgeStore, StoreClients, StopWatcher, Edit,
         WatcherUnchanged, taskVars
<1>2. Tasks'
  BY <1>1 DEF Forgets, Tasks
<1>3. CASE PurgeStore
  <2>1. /\ watcher' = "purged" /\ UNCHANGED <<loaded, clients>>
        /\ store' = IF loaded # clients THEN Purge(store, loaded) ELSE store
    BY <1>3 DEF PurgeStore
  <2>2. CASE loaded # clients
    <3>1. IsStore(store') /\ Saved(store') \subseteq Saved(store) \cap loaded
      BY <2>1, <2>2, PurgeSaves DEF Forgets
    <3> QED  BY <1>1, <1>2, <2>1, <3>1 DEF Forgets, Explained
  <2>3. CASE loaded = clients
    BY <1>1, <1>2, <2>1, <2>3 DEF Forgets, Explained
  <2> QED  BY <2>2, <2>3
<1>4. CASE StoreClients
  BY <1>1, <1>2, <1>4 DEF StoreClients, Forgets, Explained
<1>5. CASE Debounce \/ Rewatch \/ Load \/ StopWatcher
  <2>1. watcher' # "purged" /\ UNCHANGED <<clients, store>>
    BY <1>5 DEF Debounce, Rewatch, Load, StopWatcher
  <2> QED  BY <1>1, <1>2, <2>1 DEF Forgets, Explained
<1>6. CASE \E contents \in Contents, inPlace \in BOOLEAN : Edit(contents, inPlace)
  <2>1. UNCHANGED <<watcher, loaded, clients, store>>
    BY <1>6 DEF Edit
  <2> QED  BY <1>1, <1>2, <2>1 DEF Forgets, Explained
<1> QED  BY <1>3, <1>4, <1>5, <1>6 DEF Watcher, Reloads

(* The frames of a client, which is alive.                                 *)
LEMMA FramesForget ==
  ASSUME Forgets, NEW c \in Conns, Frames(c) \/ SaveRestored(c)
  PROVE  Forgets'
<1>1. /\ at[c] \in {"open", "restored"}
      /\ UNCHANGED <<watcher, loaded, clients, late, who, server>>
  BY DEF Frames, Hello, Subscribe, Unsubscribe, OtherFrame, Frame, SaveRestored, watchVars
<1>2. at' = at \/ at' = [at EXCEPT ![c] = "restored"] \/ at' = [at EXCEPT ![c] = "open"]
  BY DEF Frames, Hello, Subscribe, Unsubscribe, OtherFrame, Frame, SaveRestored
<1>3. who[c] \in Clients /\ IsStore(store)
  BY <1>1 DEF Forgets, Tasks
<1>4. Tasks'
  BY <1>1, <1>2 DEF Forgets, Tasks, Places
<1>5. IsStore(store') /\ Saved(store') \subseteq Saved(store) \cup {who[c]}
  <2>1. CASE \E restore \in BOOLEAN : Hello(c, restore)
    BY <2>1, <1>3, TouchSaves DEF Hello
  <2>2. CASE \E s \in SubIds, filter \in Filters : Subscribe(c, s, filter)
    BY <2>2, <1>3, SaveSaves DEF Subscribe
  <2>3. CASE \E s \in SubIds : Unsubscribe(c, s)
    BY <2>3, <1>3, SaveOrForgetSaves DEF Unsubscribe
  <2>4. CASE OtherFrame(c)
    BY <2>4, <1>3 DEF OtherFrame
  <2>5. CASE SaveRestored(c)
    BY <2>5, <1>3, SaveSaves DEF SaveRestored
  <2> QED  BY <2>1, <2>2, <2>3, <2>4, <2>5 DEF Frames
<1> QED  BY <1>1, <1>4, <1>5, HarmlessForgets

(* The end of a task: what it had in the store is looked at first.         *)
LEMMA ClosingForgets ==
  ASSUME Forgets, NEW c \in Conns, SaveSubs(c) \/ DropSubs(c)
  PROVE  Forgets'
<1>1. /\ at[c] \in {"save", "drop"}
      /\ at' = [at EXCEPT ![c] = "free"] /\ who' = [who EXCEPT ![c] = NoClient]
      /\ UNCHANGED <<watcher, loaded, clients, server>>
  BY DEF SaveSubs, DropSubs, Ends, watchVars
<1>2. who[c] \in Clients /\ IsStore(store)
  BY <1>1 DEF Forgets, Tasks
<1>3. Tasks'
  BY <1>1 DEF Forgets, Tasks, Places
<1>4. /\ IsStore(store') /\ Saved(store') \subseteq Saved(store) \cup {who[c]}
      /\ late \subseteq late'
      /\ who[c] \in Saved(store') => who[c] \in Retained \/ who[c] \in late'
  <2>1. CASE SaveSubs(c)
    BY <2>1, <1>2, SaveOrForgetSaves DEF SaveSubs
  <2>2. CASE DropSubs(c)
    BY <2>2, <1>2, ForgetSaves DEF DropSubs
  <2> QED  BY <2>1, <2>2
<1>5. ASSUME NEW K, Explained(K), who[c] \in Retained => who[c] \in K
      PROVE  \A k \in Saved(store') \ K : k \in late' \/ \E d \in Conns : who'[d] = k
  <2> SUFFICES ASSUME NEW k \in Saved(store') \ K, k \notin late'
               PROVE  \E d \in Conns : who'[d] = k
    OBVIOUS
  <2>1. k # who[c]
    BY <1>4, <1>5
  <2>2. PICK d \in Conns : who[d] = k
    BY <1>4, <1>5, <2>1 DEF Explained
  <2>3. who'[d] = k
    BY <1>1, <2>1, <2>2 DEF Forgets, Tasks
  <2> QED  BY <2>3
<1>6. who[c] \in Retained => who[c] \in clients
  BY DEF Retained
<1>7. watcher = "purged" /\ who[c] \in Retained => who[c] \in loaded
  BY DEF Retained
<1> QED  BY <1>1, <1>3, <1>4, <1>5, <1>6, <1>7 DEF Forgets, Explained

LEMMA ForgetsStep ==
  ASSUME Forgets, [Next]_vars
  PROVE  Forgets'
<1>1. CASE Watcher
  BY <1>1, WatcherForgets
<1>2. CASE World \/ Cancel \/ Drained \/ UNCHANGED vars
  <2>1. /\ UNCHANGED <<watcher, loaded, clients, late, who, at, store>>
        /\ server' = server \/ server' \in {"draining", "done"}
    BY <1>2 DEF World, Refill, Publish, Cancel, Drained, vars, watchVars, taskVars
  <2> QED  BY <2>1 DEF Forgets, Explained, Tasks
<1>3. ASSUME NEW c \in Conns, Task(c)
      PROVE  Forgets'
  <2>1. CASE Frames(c) \/ SaveRestored(c)
    BY <2>1, FramesForget
  <2>2. CASE SaveSubs(c) \/ DropSubs(c)
    BY <2>2, ClosingForgets
  <2>3. CASE Abort(c)
    <3>1. /\ server = "draining" /\ UNCHANGED <<server, store>>
          /\ at' = [at EXCEPT ![c] = "free"] /\ who' = [who EXCEPT ![c] = NoClient]
      BY <2>3 DEF Abort, Ends
    <3> QED  BY <3>1 DEF Forgets, Tasks, Places
  <2>4. CASE Refuse(c)
    <3>1. /\ UNCHANGED <<watcher, loaded, clients, late, server, store>>
          /\ at[c] = "upgrade"
          /\ at' = [at EXCEPT ![c] = "free"] /\ who' = [who EXCEPT ![c] = NoClient]
      BY <2>4 DEF Refuse, Ends, watchVars
    <3>2. who' = who
      BY <3>1 DEF Forgets, Tasks
    <3>3. Tasks'
      BY <3>1 DEF Forgets, Tasks, Places
    <3> QED  BY <3>1, <3>2, <3>3, HarmlessForgets DEF Forgets
  <2>5. CASE \E k \in Clients : Authenticate(c, k)
    <3>1. PICK k \in Clients : Authenticate(c, k)
      BY <2>5
    <3>2. /\ UNCHANGED <<watcher, loaded, clients, late, server, store>>
          /\ at[c] = "upgrade"
          /\ at' = [at EXCEPT ![c] = "open"] /\ who' = [who EXCEPT ![c] = k]
      BY <3>1 DEF Authenticate, watchVars
    <3>3. who[c] = NoClient /\ NoClient \notin Clients
      BY <3>2, NoClientAssumption DEF Forgets, Tasks
    <3>4. Tasks'
      BY <3>2, <3>3 DEF Forgets, Tasks, Places
    <3>5. \A j \in Clients : (\E d \in Conns : who[d] = j) => \E d \in Conns : who'[d] = j
      BY <3>2, <3>3 DEF Forgets, Tasks
    <3> QED  BY <3>2, <3>4, <3>5 DEF Forgets, Explained, Saved
  <2>6. CASE \/ Accept(c) \/ \E b \in Buses : Receive(c, b) \/ Lag(c, b)
             \/ PingRevoked(c) \/ Leave(c) \/ SeeShutdown(c) \/ LooksUp(c)
    <3>1. UNCHANGED <<watcher, loaded, clients, late, who, server, store>>
      BY <2>6 DEF Accept, Receive, Lag, Receives, PingRevoked, Leave, SeeShutdown, LooksUp, Goes,
                  watchVars, taskVars
    <3>2. \/ at' = at
          \/ at[c] = "free" /\ at' = [at EXCEPT ![c] = "upgrade"]
          \/ /\ at[c] \in {"open", "close"}
             /\ \E p \in {"close", "save", "drop"} : at' = [at EXCEPT ![c] = p]
      BY <2>6 DEF Accept, Receive, Lag, Receives, PingRevoked, Leave, SeeShutdown, LooksUp, Goes,
                  taskVars
    <3>3. Tasks'
      BY <3>1, <3>2 DEF Forgets, Tasks, Places
    <3> QED  BY <3>1, <3>3, HarmlessForgets DEF Forgets
  <2> QED  BY <1>3, <2>1, <2>2, <2>3, <2>4, <2>5, <2>6 DEF Task, Closing
<1> QED  BY <1>1, <1>2, <1>3 DEF Next

LEMMA AlwaysForgets == Spec => []Forgets
<1>1. Forgets /\ [Next]_vars => Forgets'
  BY ForgetsStep
<1> QED  BY InitForgets, <1>1, PTL DEF Spec

(* A store without a name that is nobody's, up to those two orders of a    *)
(* purge and a last save: a client that is taken from the configuration    *)
(* leaves nothing in it.                                                   *)
THEOREM RevokedAreForgotten == Spec => []RevokedForgotten
<1>1. Forgets => RevokedForgotten
  BY DEF Forgets, Explained, RevokedForgotten
<1> QED  BY AlwaysForgets, <1>1, PTL

------------------------------------------------------------------------------
(* Nth counts the elements of a finite set of numbers, without a gap.      *)
LEMMA NthOf ==
  ASSUME NEW P \in SUBSET Nat, IsFiniteSet(P)
  PROVE  /\ \A n \in 1..Cardinality(P) : Nth(P, n) \in P
         /\ \A n, m \in 1..Cardinality(P) : Nth(P, n) = Nth(P, m) => n = m
         /\ \A i \in P : \E n \in 1..Cardinality(P) : Nth(P, n) = i
<1> DEFINE Below(i) == {j \in P : j <= i}
           rank == [i \in P |-> Cardinality(Below(i))]
           N == Cardinality(P)
<1>1. N \in Nat
  BY FS_CardinalityType
<1>2. ASSUME NEW i \in P
      PROVE  /\ IsFiniteSet(Below(i)) /\ Cardinality(Below(i)) \in 1..N
  <2>1. Below(i) \in SUBSET P
    OBVIOUS
  <2>2. IsFiniteSet(Below(i)) /\ Cardinality(Below(i)) <= N
    BY <2>1, FS_Subset
  <2>3. Cardinality(Below(i)) \in Nat /\ Cardinality(Below(i)) # 0
    <3>1. i \in Below(i)
      OBVIOUS
    <3> QED  BY <2>2, <3>1, FS_CardinalityType, FS_EmptySet
  <2> HIDE DEF N, Below
  <2> QED  BY <1>1, <2>2, <2>3
<1>3. ASSUME NEW i \in P, NEW j \in P, i < j
      PROVE  Cardinality(Below(i)) # Cardinality(Below(j))
  <2>. i \in Nat /\ j \in Nat
    OBVIOUS
  <2>1. Below(i) \in SUBSET Below(j)
    <3>1. \A k \in P : k <= i => k <= j
      <4>1. \A k \in Nat : k <= i => k <= j
        BY <1>3
      <4> QED  BY <4>1
    <3> QED  BY <3>1
  <2>3. j \in Below(j) /\ j \notin Below(i)
    BY <1>3
  <2>2. Cardinality(Below(j)) = Cardinality(Below(i)) => Below(j) = Below(i)
    BY <1>2, <2>1, FS_Subset
  <2> QED  BY <2>2, <2>3
<1>4. rank \in Injection(P, 1..N)
  <2>1. rank \in [P -> 1..N]
    BY <1>2
  <2>2. ASSUME NEW i \in P, NEW j \in P, rank[i] = rank[j]
        PROVE  i = j
    <3>1. i \in Nat /\ j \in Nat /\ (i < j \/ j < i \/ i = j)
      OBVIOUS
    <3> QED  BY <1>3, <2>2, <3>1
  <2> QED  BY <2>1, <2>2 DEF Injection, IsInjective
<1>5. rank \in Surjection(P, 1..N)
  <2>1. IsFiniteSet(1..N) /\ Cardinality(1..N) = N
    BY <1>1, FS_Interval
  <2> QED  BY <1>4, <2>1, FS_Injection
<1>6. \A n \in 1..N : \E i \in P : Cardinality(Below(i)) = n
  BY <1>5 DEF Surjection
<1>7. \A n \in 1..N : Nth(P, n) \in P /\ Cardinality(Below(Nth(P, n))) = n
  BY <1>6 DEF Nth
<1>8. \A i, j \in P : Cardinality(Below(i)) = Cardinality(Below(j)) => i = j
  BY <1>4 DEF Injection, IsInjective
<1>9. ASSUME NEW i \in P
      PROVE  \E n \in 1..N : Nth(P, n) = i
  <2> HIDE DEF N, Below
  <2>1. Nth(P, Cardinality(Below(i))) = i
    BY <1>2, <1>7, <1>8
  <2> QED  BY <1>2, <2>1
<1> HIDE DEF N, Below
<1>10. \A n, m \in 1..N : Nth(P, n) = Nth(P, m) => n = m
  BY <1>7
<1> QED  BY <1>7, <1>9, <1>10 DEF N

(* An order has the names of S, each of them once.                         *)
Orders(o, S) ==
  /\ o \in Seq(Clients)
  /\ \A i, j \in 1..Len(o) : o[i] = o[j] => i = j
  /\ \A i \in 1..Len(o) : o[i] \in S
  /\ \A k \in S : \E i \in 1..Len(o) : o[i] = k

LEMMA WithoutOrders ==
  ASSUME NEW o, NEW S, Orders(o, S), NEW K
  PROVE  Orders(Without(o, K), S \ K)
<1> DEFINE kept == {i \in DOMAIN o : o[i] \notin K}
           N == Cardinality(kept)
           w == [n \in 1..N |-> o[Nth(kept, n)]]
<1>1. Without(o, K) = w
  BY DEF Without
<1>2. DOMAIN o = 1..Len(o) /\ Len(o) \in Nat
  BY DEF Orders
<1>3. kept \in SUBSET Nat /\ IsFiniteSet(kept)
  <2>1. IsFiniteSet(1..Len(o))
    BY <1>2, FS_Interval
  <2>2. kept \in SUBSET (1..Len(o))
    BY <1>2
  <2> QED  BY <1>2, <2>1, <2>2, FS_Subset
<1>4. N \in Nat
  BY <1>3, FS_CardinalityType
<1>5. /\ \A n \in 1..N : Nth(kept, n) \in kept
      /\ \A n, m \in 1..N : Nth(kept, n) = Nth(kept, m) => n = m
      /\ \A i \in kept : \E n \in 1..N : Nth(kept, n) = i
  BY <1>3, NthOf
<1>6. \A i \in kept : i \in 1..Len(o) /\ o[i] \in Clients /\ o[i] \in S \ K
  BY <1>2 DEF Orders
<1>7. \A i \in 1..Len(o) : o[i] \notin K => i \in kept
  BY <1>2
<1> HIDE DEF kept, N
<1>8. w \in Seq(Clients) /\ Len(w) = N /\ \A n \in 1..N : w[n] = o[Nth(kept, n)]
  <2>1. w \in [1..N -> Clients]
    BY <1>5, <1>6
  <2> QED  BY <1>4, <2>1
<1> HIDE DEF w
<1>9. \A i, j \in 1..Len(w) : w[i] = w[j] => i = j
  BY <1>5, <1>6, <1>8 DEF Orders
<1>10. \A i \in 1..Len(w) : w[i] \in S \ K
  BY <1>5, <1>6, <1>8
<1>11. ASSUME NEW k \in S \ K
       PROVE  \E i \in 1..Len(w) : w[i] = k
  <2>1. PICK i \in 1..Len(o) : o[i] = k
    BY DEF Orders
  <2>2. PICK n \in 1..N : Nth(kept, n) = i
    BY <1>5, <1>7, <2>1
  <2> QED  BY <1>8, <2>1, <2>2
<1> QED  BY <1>1, <1>8, <1>9, <1>10, <1>11 DEF Orders

LEMMA AppendOrders ==
  ASSUME NEW o, NEW S, Orders(o, S), NEW k \in Clients, k \notin S
  PROVE  Orders(Append(o, k), S \cup {k})
<1> DEFINE a == Append(o, k)
<1>1. Len(o) \in Nat /\ o \in Seq(Clients)
  BY DEF Orders
<1>2. /\ a \in Seq(Clients) /\ Len(a) = Len(o) + 1
      /\ \A i \in 1..Len(o) : a[i] = o[i]
      /\ a[Len(o) + 1] = k
  BY <1>1
<1> HIDE DEF a
<1>3. \A i \in 1..Len(a) : i \in 1..Len(o) \/ i = Len(o) + 1
  BY <1>1, <1>2
<1>4. \A i \in 1..Len(o) : i \in 1..Len(a)
  BY <1>1, <1>2
<1>5. Len(o) + 1 \in 1..Len(a)
  BY <1>1, <1>2
<1>6. \A i \in 1..Len(a) : a[i] \in S \cup {k}
  BY <1>2, <1>3 DEF Orders
<1>7. \A i, j \in 1..Len(a) : a[i] = a[j] => i = j
  BY <1>2, <1>3 DEF Orders
<1>8. \A j \in S \cup {k} : \E i \in 1..Len(a) : a[i] = j
  BY <1>2, <1>4, <1>5 DEF Orders
<1>9. Orders(a, S \cup {k})
  BY <1>2, <1>6, <1>7, <1>8 DEF Orders
<1> QED  BY <1>9 DEF a

LEMMA TailOrders ==
  ASSUME NEW o, NEW S, Orders(o, S), o # <<>>
  PROVE  Head(o) \in S /\ Orders(Tail(o), S \ {Head(o)})
<1> DEFINE t == Tail(o)
<1>1. Len(o) \in Nat /\ o \in Seq(Clients)
  BY DEF Orders
<1>2. /\ Len(o) >= 1 /\ Head(o) = o[1]
      /\ t \in Seq(Clients) /\ Len(t) = Len(o) - 1
      /\ \A i \in 1..Len(t) : t[i] = o[i + 1]
  BY <1>1
<1> HIDE DEF t
<1>3. 1 \in 1..Len(o)
  BY <1>1, <1>2
<1>4. \A i \in 1..Len(t) : i + 1 \in 1..Len(o) /\ i + 1 # 1
  BY <1>1, <1>2
<1>5. \A i \in 1..Len(o) : i # 1 => i - 1 \in 1..Len(t) /\ (i - 1) + 1 = i
  BY <1>1, <1>2
<1>6. \A i \in 1..Len(t) : t[i] \in S \ {Head(o)}
  BY <1>2, <1>3, <1>4 DEF Orders
<1>7. \A i, j \in 1..Len(t) : t[i] = t[j] => i = j
  <2> SUFFICES ASSUME NEW i \in 1..Len(t), NEW j \in 1..Len(t), t[i] = t[j] PROVE i = j
    OBVIOUS
  <2>1. i + 1 = j + 1
    BY <1>2, <1>4 DEF Orders
  <2> QED  BY <2>1, <1>1, <1>2
<1>8. ASSUME NEW k \in S \ {Head(o)}
      PROVE  \E i \in 1..Len(t) : t[i] = k
  <2>1. PICK i \in 1..Len(o) : o[i] = k
    BY DEF Orders
  <2>2. i - 1 \in 1..Len(t) /\ t[i - 1] = k
    BY <1>2, <1>5, <2>1
  <2> QED  BY <2>2
<1>9. Orders(t, S \ {Head(o)})
  BY <1>2, <1>6, <1>7, <1>8 DEF Orders
<1> QED  BY <1>2, <1>3, <1>9 DEF Orders, t

(* Every name of an order has one position in it, and no other name any.   *)
LEMMA OrdersCount ==
  ASSUME NEW o, NEW S, Orders(o, S)
  PROVE  /\ IsFiniteSet(S)
         /\ \A k : Cardinality({i \in DOMAIN o : o[i] = k}) = (IF k \in S THEN 1 ELSE 0)
<1>1. DOMAIN o = 1..Len(o) /\ Len(o) \in Nat
  BY DEF Orders
<1>2. IsFiniteSet(S)
  <2>1. o \in Surjection(1..Len(o), S)
    BY <1>1 DEF Orders, Surjection
  <2>2. IsFiniteSet(1..Len(o))
    BY <1>1, FS_Interval
  <2> QED  BY <2>1, <2>2, FS_Surjection
<1>3. ASSUME NEW k, k \in S
      PROVE  Cardinality({i \in DOMAIN o : o[i] = k}) = 1
  <2>1. PICK i \in 1..Len(o) : o[i] = k
    BY <1>3 DEF Orders
  <2>2. {j \in DOMAIN o : o[j] = k} = {i}
    BY <1>1, <2>1 DEF Orders
  <2> QED  BY <2>2, FS_Singleton
<1>4. ASSUME NEW k, k \notin S
      PROVE  Cardinality({i \in DOMAIN o : o[i] = k}) = 0
  <2>1. {j \in DOMAIN o : o[j] = k} = {}
    BY <1>1, <1>4 DEF Orders
  <2> QED  BY <2>1, FS_EmptySet
<1> QED  BY <1>2, <1>3, <1>4

------------------------------------------------------------------------------
Registry(r) == r \in Registries /\ IsFiniteSet(Held(r))

(* What the two structures of the store promise each other.                *)
StoreOK(s) ==
  /\ IsStore(s)
  /\ \A k \in Clients : Registry(s.map[k])
  /\ Orders(s.order, Saved(s))
  /\ Cardinality(Saved(s)) <= StoreLimit

LEMMA LimitType ==
  StoreCap \in Nat /\ StoreLimit \in Nat /\ StoreLimit >= 1 /\ StoreCap <= StoreLimit
BY CapsAssumption DEF StoreLimit

LEMMA HeldSomething ==
  ASSUME NEW r \in Registries
  PROVE  r # NoSubs <=> Held(r) # {}
<1>1. NoSubs \in Registries /\ \A s \in SubIds : NoSubs[s] = NoFilter
  BY DEF NoSubs, Registries
<1>2. r # NoSubs <=> \E s \in SubIds : r[s] # NoSubs[s]
  BY <1>1 DEF Registries
<1> QED  BY <1>1, <1>2 DEF Held

LEMMA NoSubsIsRegistry == Registry(NoSubs)
<1>1. NoSubs \in Registries
  BY DEF NoSubs, Registries
<1>2. Held(NoSubs) = {}
  BY <1>1, HeldSomething
<1> QED  BY <1>1, <1>2, FS_EmptySet DEF Registry

LEMMA TouchOK ==
  ASSUME NEW s, StoreOK(s), NEW k \in Clients
  PROVE  StoreOK(Touch(s, k))
<1>1. CASE k \notin Saved(s)
  BY <1>1 DEF Touch
<1>2. CASE k \in Saved(s)
  <2> DEFINE o == Append(Without(s.order, {k}), k)
  <2>1. Orders(o, Saved(s))
    <3>1. Orders(Without(s.order, {k}), Saved(s) \ {k})
      BY WithoutOrders DEF StoreOK
    <3>2. Orders(o, (Saved(s) \ {k}) \cup {k})
      BY <3>1, AppendOrders
    <3>3. (Saved(s) \ {k}) \cup {k} = Saved(s)
      BY <1>2
    <3> QED  BY <3>2, <3>3
  <2>2. Touch(s, k) = [s EXCEPT !["order"] = o]
    BY <1>2 DEF Touch
  <2> HIDE DEF o
  <2>3. Touch(s, k).map = s.map /\ Touch(s, k).order = o
    BY <2>2 DEF StoreOK, IsStore
  <2> QED  BY <2>1, <2>3, TouchSaves DEF StoreOK
<1> QED  BY <1>1, <1>2

LEMMA SaveOK ==
  ASSUME NEW s, StoreOK(s), NEW k \in Clients, NEW r, Registry(r), r # NoSubs
  PROVE  StoreOK(Save(s, k, r))
<1> DEFINE full == k \notin Saved(s) /\ Cardinality(Saved(s)) >= StoreCap /\ s.order # <<>>
           old == IF full THEN {Head(s.order)} ELSE {}
           m == [j \in Clients |-> IF j = k THEN r ELSE IF j \in old THEN NoSubs ELSE s.map[j]]
           o == IF full THEN Tail(s.order) ELSE Without(s.order, {k})
           S == (Saved(s) \ old) \cup {k}
<1>1. Save(s, k, r) = [map |-> m, order |-> Append(o, k)]
  BY DEF Save
<1>2. full => Head(s.order) \in Saved(s) /\ Orders(Tail(s.order), Saved(s) \ {Head(s.order)})
  BY TailOrders DEF StoreOK
<1>3. Orders(Without(s.order, {k}), Saved(s) \ {k})
  BY WithoutOrders DEF StoreOK
<1>4. Orders(o, (Saved(s) \ old) \ {k})
  BY <1>2, <1>3
<1>5. k \in Saved(s) => ~full
  OBVIOUS
<1>6. IsFiniteSet(Saved(s)) /\ Cardinality(Saved(s)) \in Nat /\ Cardinality(Saved(s)) <= StoreLimit
  BY OrdersCount, FS_CardinalityType DEF StoreOK
<1>7. StoreCap \in Nat /\ StoreLimit \in Nat /\ StoreLimit >= 1 /\ StoreCap <= StoreLimit
  BY LimitType
<1>8. s.order = <<>> => Cardinality(Saved(s)) = 0
  <2> SUFFICES ASSUME s.order = <<>> PROVE Cardinality(Saved(s)) = 0
    OBVIOUS
  <2>1. Saved(s) = {}
    <3>1. \A i \in 1..Len(s.order) : FALSE
      OBVIOUS
    <3> QED  BY <3>1 DEF StoreOK, Orders
  <2> QED  BY <2>1, FS_EmptySet
<1>9. Cardinality(S) <= StoreLimit
  <2>1. CASE k \in Saved(s)
    <3>1. S = Saved(s)
      BY <2>1
    <3> QED  BY <1>6, <3>1
  <2>2. CASE full
    <3>1. IsFiniteSet(Saved(s) \ old) /\ Cardinality(Saved(s) \ old) = Cardinality(Saved(s)) - 1
      <4>1. old = {Head(s.order)}
        BY <2>2
      <4> QED  BY <1>2, <1>6, <2>2, <4>1, FS_RemoveElement
    <3>2. Cardinality(S) = Cardinality(Saved(s) \ old) + 1
      BY <2>2, <3>1, FS_AddElement
    <3> HIDE DEF S, old
    <3> QED  BY <1>6, <3>1, <3>2
  <2>3. CASE k \notin Saved(s) /\ ~full
    <3>1. S = Saved(s) \cup {k}
      BY <2>3
    <3>2. Cardinality(S) = Cardinality(Saved(s)) + 1
      BY <1>6, <2>3, <3>1, FS_AddElement
    <3>3. Cardinality(Saved(s)) < StoreLimit
      BY <1>6, <1>7, <1>8, <2>3
    <3> HIDE DEF S
    <3> QED  BY <1>6, <1>7, <3>2, <3>3
  <2> QED  BY <2>1, <2>2, <2>3
<1>10. Orders(Append(o, k), S)
  <2>1. Orders(Append(o, k), ((Saved(s) \ old) \ {k}) \cup {k})
    BY <1>4, AppendOrders
  <2>2. ((Saved(s) \ old) \ {k}) \cup {k} = S
    OBVIOUS
  <2> QED  BY <2>1, <2>2
<1>11. \A j \in Clients : Registry(m[j])
  BY NoSubsIsRegistry DEF StoreOK
<1> HIDE DEF o, old
<1>12. Saved(Save(s, k, r)) = S
  BY <1>1 DEF Saved
<1>13. IsStore(Save(s, k, r))
  BY SaveSaves DEF StoreOK
<1> HIDE DEF m, S
<1>14. Save(s, k, r).map = m /\ Save(s, k, r).order = Append(o, k)
  BY <1>1
<1> QED  BY <1>9, <1>10, <1>11, <1>12, <1>13, <1>14 DEF StoreOK

LEMMA ForgetOK ==
  ASSUME NEW s, StoreOK(s), NEW k \in Clients
  PROVE  StoreOK(Forget(s, k))
<1>1. CASE k \notin Saved(s)
  BY <1>1 DEF Forget
<1>2. CASE k \in Saved(s)
  <2> DEFINE o == Without(s.order, {k})
             m == [s.map EXCEPT ![k] = NoSubs]
  <2>1. Orders(o, Saved(s) \ {k})
    BY WithoutOrders DEF StoreOK
  <2>2. Forget(s, k) = [map |-> m, order |-> o]
    BY <1>2 DEF Forget
  <2>3. \A j \in Clients : Registry(m[j])
    BY NoSubsIsRegistry DEF StoreOK, IsStore
  <2>4. Cardinality(Saved(s) \ {k}) <= StoreLimit
    <3>1. IsFiniteSet(Saved(s)) /\ Cardinality(Saved(s)) <= StoreLimit
      BY OrdersCount DEF StoreOK
    <3>2. Cardinality(Saved(s)) \in Nat /\ Cardinality(Saved(s) \ {k}) = Cardinality(Saved(s)) - 1
      BY <1>2, <3>1, FS_RemoveElement, FS_CardinalityType
    <3>3. StoreLimit \in Nat
      BY LimitType
    <3> QED  BY <3>1, <3>2, <3>3
  <2> HIDE DEF o, m
  <2>5. Forget(s, k).map = m /\ Forget(s, k).order = o
    BY <2>2
  <2>6. IsStore(Forget(s, k)) /\ Saved(Forget(s, k)) = Saved(s) \ {k}
    BY ForgetSaves DEF StoreOK
  <2> QED  BY <2>1, <2>3, <2>4, <2>5, <2>6 DEF StoreOK
<1> QED  BY <1>1, <1>2

LEMMA SaveOrForgetOK ==
  ASSUME NEW s, StoreOK(s), NEW k \in Clients, NEW r, Registry(r)
  PROVE  StoreOK(SaveOrForget(s, k, r))
BY SaveOK, ForgetOK DEF SaveOrForget

LEMMA PurgeOK ==
  ASSUME NEW s, StoreOK(s), NEW K
  PROVE  StoreOK(Purge(s, K))
<1> DEFINE o == Without(s.order, Clients \ K)
           m == [k \in Clients |-> IF k \in K THEN s.map[k] ELSE NoSubs]
<1>1. Purge(s, K) = [map |-> m, order |-> o]
  BY DEF Purge
<1>2. Saved(Purge(s, K)) = Saved(s) \ (Clients \ K)
  BY <1>1 DEF Saved
<1>3. Orders(o, Saved(s) \ (Clients \ K))
  BY WithoutOrders DEF StoreOK
<1>4. \A j \in Clients : Registry(m[j])
  BY NoSubsIsRegistry DEF StoreOK
<1>5. Cardinality(Saved(s) \ (Clients \ K)) <= StoreLimit
  <2>1. IsFiniteSet(Saved(s)) /\ Cardinality(Saved(s)) <= StoreLimit
    BY OrdersCount DEF StoreOK
  <2>2. Saved(s) \ (Clients \ K) \in SUBSET Saved(s)
    OBVIOUS
  <2>3. Cardinality(Saved(s) \ (Clients \ K)) <= Cardinality(Saved(s))
    BY <2>1, <2>2, FS_Subset
  <2>4. Cardinality(Saved(s)) \in Nat /\ Cardinality(Saved(s) \ (Clients \ K)) \in Nat
    BY <2>1, <2>2, FS_Subset, FS_CardinalityType
  <2>5. StoreLimit \in Nat
    BY LimitType
  <2> QED  BY <2>1, <2>3, <2>4, <2>5
<1> HIDE DEF o, m
<1>6. Purge(s, K).map = m /\ Purge(s, K).order = o
  BY <1>1
<1>7. IsStore(Purge(s, K))
  BY PurgeSaves DEF StoreOK
<1> QED  BY <1>2, <1>3, <1>4, <1>5, <1>6, <1>7 DEF StoreOK

(* What a restore imports is a registry, and not an empty one.             *)
LEMMA ImportsOK ==
  ASSUME NEW mine, Registry(mine), NEW stored, Registry(stored), stored # NoSubs,
         NEW r \in Imports(mine, stored)
  PROVE  Registry(r) /\ r # NoSubs
<1> DEFINE new == Held(stored) \ Held(mine)
           left == MaxSubs - Cardinality(Held(mine))
           some == IF Cardinality(new) < left THEN Cardinality(new) ELSE left
<1>1. PICK K \in SUBSET new :
        /\ Cardinality(K) = some
        /\ r = [s \in SubIds |-> IF s \in K \/ (s \in Held(mine) /\ s \in Held(stored))
                                   THEN stored[s] ELSE mine[s]]
  BY DEF Imports
<1>2. r \in Registries
  BY <1>1 DEF Registry, Registries
<1>3. Held(r) \in SUBSET (Held(mine) \cup Held(stored))
  BY <1>1 DEF Held
<1>4. IsFiniteSet(Held(r))
  BY <1>3, FS_Union, FS_Subset DEF Registry
<1>5. Held(r) # {}
  <2>1. CASE Held(mine) # {}
    <3>1. PICK s \in SubIds : mine[s] # NoFilter
      BY <2>1 DEF Held
    <3>2. r[s] # NoFilter
      BY <1>1, <3>1 DEF Held
    <3> QED  BY <3>2 DEF Held
  <2>2. CASE Held(mine) = {}
    <3>1. left = MaxSubs /\ MaxSubs \in Nat \ {0}
      BY <2>2, FS_EmptySet, CapsAssumption
    <3>2. IsFiniteSet(new) /\ Cardinality(new) \in Nat \ {0}
      <4>1. new = Held(stored) /\ new # {} /\ IsFiniteSet(new)
        BY <2>2, HeldSomething DEF Registry
      <4> QED  BY <4>1, FS_EmptySet, FS_CardinalityType
    <3>3. some # 0
      BY <3>1, <3>2
    <3>4. K # {}
      BY <1>1, <3>3, FS_EmptySet
    <3>5. PICK s \in K : TRUE
      BY <3>4
    <3>6. s \in SubIds /\ stored[s] # NoFilter
      BY <1>1, <3>5 DEF Held
    <3> QED  BY <1>1, <3>6 DEF Held
  <2> QED  BY <2>1, <2>2
<1> QED  BY <1>2, <1>4, <1>5, HeldSomething DEF Registry

------------------------------------------------------------------------------
(* Every registry is one, and one that has just been restored is saved     *)
(* with something in it.                                                   *)
InStep ==
  /\ StoreOK(store)
  /\ subs \in [Conns -> Registries]
  /\ \A c \in Conns : Registry(subs[c])
  /\ \A c \in Conns : at[c] = "restored" => subs[c] # NoSubs

LEMMA InitInStep == Init => InStep
<1> SUFFICES ASSUME Init PROVE InStep
  OBVIOUS
<1>1. /\ store = EmptyStore /\ at = [c \in Conns |-> "free"]
      /\ subs = [c \in Conns |-> NoSubs]
  BY DEF Init
<1>2. IsStore(store) /\ Saved(store) = {} /\ \A k \in Clients : store.map[k] = NoSubs
  BY <1>1 DEF EmptyStore, IsStore, Saved
<1>3. Orders(store.order, {})
  <2>1. store.order = <<>>
    BY <1>1 DEF EmptyStore
  <2>2. store.order \in Seq(Clients) /\ Len(store.order) = 0
    BY <2>1
  <2> QED  BY <2>2 DEF Orders
<1>4. Cardinality({}) = 0 /\ StoreLimit \in Nat
  BY FS_EmptySet, LimitType
<1>5. StoreOK(store)
  BY <1>2, <1>3, <1>4, NoSubsIsRegistry DEF StoreOK
<1> QED  BY <1>1, <1>5, NoSubsIsRegistry DEF InStep, Registry

(* A step that leaves the registries alone and restores nobody.            *)
LEMMA SameSubsInStep ==
  ASSUME InStep, subs' = subs, StoreOK(store'),
         \A c \in Conns : at'[c] = "restored" => at[c] = "restored"
  PROVE  InStep'
BY DEF InStep

(* A step that gives task c another registry.                              *)
LEMMA NewSubsInStep ==
  ASSUME InStep, NEW c \in Conns, NEW r, Registry(r), subs' = [subs EXCEPT ![c] = r],
         StoreOK(store'),
         \A d \in Conns : at'[d] = "restored" => \/ d # c /\ at[d] = "restored"
                                                 \/ d = c /\ r # NoSubs
  PROVE  InStep'
<1>1. r \in Registries
  BY DEF Registry
<1>2. subs' \in [Conns -> Registries] /\ subs'[c] = r /\ \A d \in Conns : d # c => subs'[d] = subs[d]
  BY <1>1 DEF InStep
<1> QED  BY <1>2 DEF InStep

LEMMA WatcherInStep ==
  ASSUME InStep, Watcher
  PROVE  InStep'
<1>1. UNCHANGED <<at, subs>>
  BY DEF Watcher, Reloads, Debounce, Rewatch, Load, PurgeStore, StoreClients, StopWatcher, Edit,
         WatcherUnchanged, taskVars
<1>2. store' \in {store, Purge(store, loaded)}
  BY DEF Watcher, Reloads, Debounce, Rewatch, Load, PurgeStore, StoreClients, StopWatcher, Edit,
         WatcherUnchanged
<1>3. StoreOK(store')
  BY <1>2, PurgeOK DEF InStep
<1> QED  BY <1>1, <1>3, SameSubsInStep

LEMMA FramesInStep ==
  ASSUME InStep, Forgets, NEW c \in Conns, Frames(c)
  PROVE  InStep'
<1>1. at[c] = "open" /\ who[c] \in Clients /\ at \in [Conns -> Places]
  BY DEF Frames, Hello, Subscribe, Unsubscribe, OtherFrame, Frame, Forgets, Tasks
<1>2. StoreOK(store) /\ Registry(subs[c])
  BY DEF InStep
<1>3. ASSUME NEW restore \in BOOLEAN, Hello(c, restore)
      PROVE  InStep'
  <2> DEFINE stored == store.map[who[c]]
  <2>1. store' = IF restore THEN Touch(store, who[c]) ELSE store
    BY <1>3 DEF Hello
  <2>2. StoreOK(store')
    BY <1>1, <1>2, <2>1, TouchOK
  <2>3. CASE restore /\ stored # NoSubs
    <3>1. PICK imported \in Imports(subs[c], stored) : subs' = [subs EXCEPT ![c] = imported]
      BY <1>3, <2>3 DEF Hello
    <3>2. at' = [at EXCEPT ![c] = "restored"]
      BY <1>3, <2>3 DEF Hello
    <3>3. Registry(stored)
      BY <1>1, <1>2 DEF StoreOK
    <3>4. Registry(imported) /\ imported # NoSubs
      BY <1>2, <2>3, <3>1, <3>3, ImportsOK
    <3>5. \A d \in Conns : d # c => at'[d] = at[d]
      BY <1>1, <3>2
    <3> QED  BY <2>2, <3>1, <3>4, <3>5, NewSubsInStep
  <2>4. CASE ~(restore /\ stored # NoSubs)
    <3>1. UNCHANGED <<subs, at>>
      BY <1>3, <2>4 DEF Hello
    <3> QED  BY <2>2, <3>1, SameSubsInStep
  <2> QED  BY <2>3, <2>4
<1>4. ASSUME NEW s \in SubIds, NEW filter \in Filters, Subscribe(c, s, filter)
      PROVE  InStep'
  <2> DEFINE r == [subs[c] EXCEPT ![s] = filter]
  <2>1. subs' = [subs EXCEPT ![c] = r]
    BY <1>4 DEF Subscribe
  <2>2. r \in Registries /\ r[s] = filter
    BY <1>2 DEF Registry, Registries
  <2>3. Held(r) \in SUBSET (Held(subs[c]) \cup {s})
    BY <1>2 DEF Held, Registry, Registries
  <2>4. IsFiniteSet(Held(r))
    BY <1>2, <2>3, FS_AddElement, FS_Subset DEF Registry
  <2>5. s \in Held(r)
    BY <2>2, NoFilterAssumption DEF Held
  <2>6. Registry(r) /\ r # NoSubs
    BY <2>2, <2>4, <2>5, HeldSomething DEF Registry
  <2> HIDE DEF r
  <2>7. subs'[c] = r
    BY <2>1 DEF InStep
  <2>8. StoreOK(store')
    BY <1>1, <1>2, <1>4, <2>6, <2>7, SaveOK DEF Subscribe
  <2>9. at' = at
    BY <1>4 DEF Subscribe
  <2> QED  BY <1>1, <2>1, <2>6, <2>8, <2>9, NewSubsInStep
<1>5. ASSUME NEW s \in SubIds, Unsubscribe(c, s)
      PROVE  InStep'
  <2> DEFINE r == [subs[c] EXCEPT ![s] = NoFilter]
  <2>1. subs' = [subs EXCEPT ![c] = r]
    BY <1>5 DEF Unsubscribe
  <2>2. r \in Registries
    BY <1>2 DEF Registry, Registries
  <2>3. Held(r) \in SUBSET Held(subs[c])
    BY <1>2 DEF Held, Registry, Registries
  <2>4. Registry(r)
    BY <1>2, <2>2, <2>3, FS_Subset DEF Registry
  <2> HIDE DEF r
  <2>5. subs'[c] = r
    BY <2>1 DEF InStep
  <2>6. StoreOK(store')
    BY <1>1, <1>2, <1>5, <2>4, <2>5, SaveOrForgetOK DEF Unsubscribe
  <2>7. at' = at
    BY <1>5 DEF Unsubscribe
  <2> QED  BY <1>1, <2>1, <2>4, <2>6, <2>7, NewSubsInStep
<1>6. CASE OtherFrame(c)
  <2>1. UNCHANGED <<at, subs, store>>
    BY <1>6 DEF OtherFrame
  <2> QED  BY <1>2, <2>1, SameSubsInStep
<1> QED  BY <1>3, <1>4, <1>5, <1>6 DEF Frames

LEMMA EndsInStep ==
  ASSUME InStep, Forgets, NEW c \in Conns, Ends(c), StoreOK(store')
  PROVE  InStep'
<1>1. at' = [at EXCEPT ![c] = "free"] /\ subs' = [subs EXCEPT ![c] = NoSubs]
  BY DEF Ends
<1>2. \A d \in Conns : at'[d] = "restored" => d # c /\ at[d] = "restored"
  BY <1>1 DEF Forgets, Tasks
<1> QED  BY <1>1, <1>2, NoSubsIsRegistry, NewSubsInStep

LEMMA TaskInStep ==
  ASSUME InStep, Forgets, NEW c \in Conns, Task(c)
  PROVE  InStep'
<1>1. StoreOK(store) /\ Registry(subs[c]) /\ at \in [Conns -> Places]
  BY DEF InStep, Forgets, Tasks
<1>2. CASE Frames(c)
  BY <1>2, FramesInStep
<1>3. CASE SaveRestored(c)
  <2>1. /\ at[c] = "restored" /\ who[c] \in Clients /\ subs[c] # NoSubs
        /\ UNCHANGED subs /\ at' = [at EXCEPT ![c] = "open"]
        /\ store' = Save(store, who[c], subs[c])
    BY <1>3 DEF SaveRestored, Forgets, Tasks, InStep
  <2>2. StoreOK(store')
    BY <1>1, <2>1, SaveOK
  <2> QED  BY <1>1, <2>1, <2>2, SameSubsInStep
<1>4. CASE SaveSubs(c) \/ DropSubs(c)
  <2>1. who[c] \in Clients /\ Ends(c)
    BY <1>4 DEF SaveSubs, DropSubs, Forgets, Tasks
  <2>2. StoreOK(store')
    BY <1>1, <1>4, <2>1, SaveOrForgetOK, ForgetOK DEF SaveSubs, DropSubs
  <2> QED  BY <2>1, <2>2, EndsInStep
<1>5. CASE Abort(c) \/ Refuse(c)
  <2>1. Ends(c) /\ store' = store
    BY <1>5 DEF Abort, Refuse
  <2> QED  BY <1>1, <2>1, EndsInStep
<1>6. CASE \/ Accept(c) \/ \E k \in Clients : Authenticate(c, k)
           \/ \E b \in Buses : Receive(c, b) \/ Lag(c, b)
           \/ PingRevoked(c) \/ Leave(c) \/ SeeShutdown(c) \/ LooksUp(c)
  <2>1. UNCHANGED <<store, subs>>
    BY <1>6 DEF Accept, Authenticate, Receive, Lag, Receives, PingRevoked, Leave, SeeShutdown,
                LooksUp, Goes
  <2>2. at' = at \/ \E p \in {"upgrade", "open", "close", "save", "drop"} : at' = [at EXCEPT ![c] = p]
    BY <1>6 DEF Accept, Authenticate, Receive, Lag, Receives, PingRevoked, Leave, SeeShutdown,
                LooksUp, Goes, taskVars
  <2>3. \A d \in Conns : at'[d] = "restored" => at[d] = "restored"
    BY <1>1, <2>2
  <2> QED  BY <1>1, <2>1, <2>3, SameSubsInStep
<1> QED  BY <1>2, <1>3, <1>4, <1>5, <1>6 DEF Task, Closing

(* The map and the order of the store name the same clients, each once,    *)
(* and no more of them than the limit, any limit, 0 as one, after any      *)
(* sequence of saves, lookups, purges and removals of any number of        *)
(* connections.                                                            *)
THEOREM StoreStaysInStep == Spec => []StoreInStep
<1>1. InStep /\ Forgets /\ [Next]_vars => InStep'
  <2> SUFFICES ASSUME InStep, Forgets, [Next]_vars PROVE InStep'
    OBVIOUS
  <2>1. CASE Watcher
    BY <2>1, WatcherInStep
  <2>2. CASE World \/ Cancel \/ Drained \/ UNCHANGED vars
    <3>1. UNCHANGED <<at, subs, store>>
      BY <2>2 DEF World, Refill, Publish, Cancel, Drained, vars, taskVars
    <3> QED  BY <3>1 DEF InStep
  <2>3. ASSUME NEW c \in Conns, Task(c)
        PROVE  InStep'
    BY <2>3, TaskInStep
  <2> QED  BY <2>1, <2>2, <2>3 DEF Next
<1>2. InStep => StoreInStep
  BY OrdersCount DEF InStep, StoreOK, StoreInStep
<1> QED  BY InitInStep, AlwaysForgets, <1>1, <1>2, PTL DEF Spec

------------------------------------------------------------------------------
(* The places of a log l up to which a task has read, from where it        *)
(* subscribed, with an event its filter f takes and it did not pass on.    *)
Unheard(from, upto, f, l, h, b, s) ==
  {n \in {m \in (from + 1)..upto : Matches(f, l[m])} : <<b, n, s>> \notin h}

LEMMA UnheardFinite ==
  ASSUME NEW from \in Nat, NEW upto \in Nat, NEW f, NEW l, NEW h, NEW b, NEW s
  PROVE  /\ IsFiniteSet(Unheard(from, upto, f, l, h, b, s))
         /\ Cardinality(Unheard(from, upto, f, l, h, b, s)) \in Nat
<1>1. IsFiniteSet((from + 1)..upto)
  BY FS_Interval
<1>2. Unheard(from, upto, f, l, h, b, s) \in SUBSET ((from + 1)..upto)
  BY DEF Unheard
<1> QED  BY <1>1, <1>2, FS_Subset, FS_CardinalityType

(* Nothing is unheard of what was published before the subscription.       *)
LEMMA UnheardNone ==
  ASSUME NEW upto \in Nat, NEW f, NEW l, NEW h, NEW b, NEW s
  PROVE  Cardinality(Unheard(upto, upto, f, l, h, b, s)) = 0
<1>1. Unheard(upto, upto, f, l, h, b, s) = {}
  BY DEF Unheard
<1> QED  BY <1>1, FS_EmptySet

(* The event at the next place adds to it if nobody heard it.              *)
LEMMA UnheardNext ==
  ASSUME NEW from \in Nat, NEW upto \in Nat, NEW f, NEW l, NEW h, NEW b, NEW s,
         NEW h1, h \subseteq h1, Matches(f, l[upto + 1]) => <<b, upto + 1, s>> \in h1
  PROVE  Cardinality(Unheard(from, upto + 1, f, l, h1, b, s)) <= Cardinality(Unheard(from, upto, f, l, h, b, s))
<1>1. \A n \in (from + 1)..(upto + 1) : n \in (from + 1)..upto \/ n = upto + 1
  OBVIOUS
<1>2. Unheard(from, upto + 1, f, l, h1, b, s) \in SUBSET Unheard(from, upto, f, l, h, b, s)
  BY <1>1 DEF Unheard
<1> QED  BY <1>2, UnheardFinite, FS_Subset

(* Places that are skipped add at most their number.                       *)
LEMMA UnheardSkipped ==
  ASSUME NEW from \in Nat, NEW upto \in Nat, NEW f, NEW l, NEW h, NEW b, NEW s, NEW d \in Nat
  PROVE  Cardinality(Unheard(from, upto + d, f, l, h, b, s))
           <= Cardinality(Unheard(from, upto, f, l, h, b, s)) + d
<1> DEFINE U == Unheard(from, upto, f, l, h, b, s)
           V == Unheard(from, upto + d, f, l, h, b, s)
           D == (upto + 1)..(upto + d)
<1>1. IsFiniteSet(D) /\ Cardinality(D) = d
  BY FS_Interval
<1>2. IsFiniteSet(U) /\ Cardinality(U) \in Nat
  BY UnheardFinite
<1>3. V \in SUBSET (U \cup D)
  <2>1. \A n \in (from + 1)..(upto + d) : n \in (from + 1)..upto \/ n \in D
    OBVIOUS
  <2> QED  BY <2>1 DEF Unheard
<1> HIDE DEF U, V, D
<1>4. IsFiniteSet(U \cup D) /\ Cardinality(U \cup D) = Cardinality(U) + d - Cardinality(U \cap D)
  BY <1>1, <1>2, FS_Union
<1>5. Cardinality(U \cap D) \in Nat
  BY <1>2, FS_Intersection, FS_CardinalityType
<1>6. Cardinality(V) <= Cardinality(U \cup D) /\ Cardinality(V) \in Nat
  BY <1>3, <1>4, FS_Subset, FS_CardinalityType
<1>7. Cardinality(V) <= Cardinality(U) + d
  BY <1>2, <1>4, <1>5, <1>6
<1> QED  BY <1>7 DEF U, V

(* An event that is published later changes nothing before it.             *)
LEMMA UnheardAppend ==
  ASSUME NEW from \in Nat, NEW upto \in Nat, NEW f, NEW l \in Seq(Events), NEW h, NEW b, NEW s,
         upto <= Len(l), NEW e \in Events
  PROVE  Unheard(from, upto, f, Append(l, e), h, b, s) = Unheard(from, upto, f, l, h, b, s)
<1>1. \A n \in (from + 1)..upto : Append(l, e)[n] = l[n]
  OBVIOUS
<1> DEFINE a == Append(l, e)
<1> HIDE DEF a
<1>2. Unheard(from, upto, f, a, h, b, s) = Unheard(from, upto, f, l, h, b, s)
  BY <1>1 DEF Unheard, a
<1> QED  BY <1>2 DEF a

(* What a connection owes: r are its subscriptions, nx what it has read of *)
(* the logs l, si from where, h what it passed on, mi what it reported.    *)
Accounted(r, nx, si, h, mi, l) ==
  /\ nx \in [Buses -> Nat] /\ mi \in [Buses -> Nat] /\ si \in [SubIds -> [Buses -> Nat]]
  /\ \A b \in Buses : nx[b] <= Len(l[b])
  /\ \A b \in Buses : \A s \in Held(r) :
       Cardinality(Unheard(si[s][b], nx[b], r[s], l[b], h, b, s)) <= mi[b]

LEMMA FreshAccounted ==
  ASSUME NEW nx \in [Buses -> Nat], NEW mi \in [Buses -> Nat],
         NEW si \in [SubIds -> [Buses -> Nat]], NEW h, NEW l,
         \A b \in Buses : nx[b] <= Len(l[b])
  PROVE  Accounted(NoSubs, nx, si, h, mi, l)
<1>1. Held(NoSubs) = {}
  BY DEF Held, NoSubs
<1> QED  BY <1>1 DEF Accounted

LEMMA SubscribeAccounted ==
  ASSUME NEW r, NEW nx, NEW si, NEW h, NEW mi, NEW l, Accounted(r, nx, si, h, mi, l), NEW r1
  PROVE  Accounted(r1, nx, [s \in SubIds |-> IF r[s] = r1[s] THEN si[s] ELSE nx], h, mi, l)
<1> DEFINE si1 == [s \in SubIds |-> IF r[s] = r1[s] THEN si[s] ELSE nx]
<1>1. si1 \in [SubIds -> [Buses -> Nat]]
  BY DEF Accounted
<1>2. ASSUME NEW b \in Buses, NEW s \in Held(r1)
      PROVE  Cardinality(Unheard(si1[s][b], nx[b], r1[s], l[b], h, b, s)) <= mi[b]
  <2>1. s \in SubIds /\ nx[b] \in Nat /\ mi[b] \in Nat
    BY DEF Held, Accounted
  <2>2. CASE r[s] = r1[s]
    <3>1. s \in Held(r) /\ si1[s] = si[s]
      BY <2>1, <2>2 DEF Held
    <3> HIDE DEF si1
    <3> QED  BY <2>2, <3>1 DEF Accounted
  <2>3. CASE r[s] # r1[s]
    <3>1. si1[s] = nx
      BY <2>1, <2>3
    <3> HIDE DEF si1
    <3> QED  BY <2>1, <3>1, UnheardNone
  <2> QED  BY <2>2, <2>3
<1> HIDE DEF si1
<1>3. Accounted(r1, nx, si1, h, mi, l)
  BY <1>1, <1>2 DEF Accounted
<1> QED  BY <1>3 DEF si1

LEMMA UnsubscribeAccounted ==
  ASSUME NEW r, NEW nx, NEW si, NEW h, NEW mi, NEW l, Accounted(r, nx, si, h, mi, l), NEW r1,
         \A s \in Held(r1) : s \in Held(r) /\ r1[s] = r[s]
  PROVE  Accounted(r1, nx, si, h, mi, l)
BY DEF Accounted

LEMMA ReceiveAccounted ==
  ASSUME NEW r, NEW nx, NEW si, NEW h, NEW mi, NEW l, Accounted(r, nx, si, h, mi, l),
         NEW b \in Buses, nx[b] < Len(l[b]), Len(l[b]) \in Nat
  PROVE  Accounted(r, [nx EXCEPT ![b] = nx[b] + 1], si,
                   h \cup {<<b, nx[b] + 1, s>> : s \in Matching(r, l[b][nx[b] + 1])}, mi, l)
<1> DEFINE nx1 == [nx EXCEPT ![b] = nx[b] + 1]
           h1 == h \cup {<<b, nx[b] + 1, s>> : s \in Matching(r, l[b][nx[b] + 1])}
<1>1. nx1 \in [Buses -> Nat] /\ nx1[b] = nx[b] + 1 /\ \A d \in Buses : d # b => nx1[d] = nx[d]
  BY DEF Accounted
<1>2. \A d \in Buses : nx1[d] <= Len(l[d])
  BY <1>1 DEF Accounted
<1>3. ASSUME NEW d \in Buses, NEW s \in Held(r)
      PROVE  Cardinality(Unheard(si[s][d], nx1[d], r[s], l[d], h1, d, s)) <= mi[d]
  <2>1. s \in SubIds /\ si[s][d] \in Nat /\ nx[d] \in Nat /\ mi[d] \in Nat /\ nx[b] \in Nat
    BY DEF Held, Accounted
  <2>2. Cardinality(Unheard(si[s][d], nx[d], r[s], l[d], h, d, s)) <= mi[d]
    BY DEF Accounted
  <2>3. CASE d = b
    <3>1. Matches(r[s], l[b][nx[b] + 1]) => <<b, nx[b] + 1, s>> \in h1
      BY DEF Matching
    <3>2. h \subseteq h1
      OBVIOUS
    <3> HIDE DEF nx1, h1
    <3>3. Cardinality(Unheard(si[s][b], nx[b] + 1, r[s], l[b], h1, b, s))
            <= Cardinality(Unheard(si[s][b], nx[b], r[s], l[b], h, b, s))
      BY <2>1, <2>3, <3>1, <3>2, UnheardNext
    <3>4. nx[b] + 1 \in Nat
      BY <2>1
    <3>5. Cardinality(Unheard(si[s][b], nx[b] + 1, r[s], l[b], h1, b, s)) \in Nat
      BY <2>1, <2>3, <3>4, UnheardFinite
    <3>6. Cardinality(Unheard(si[s][b], nx[b], r[s], l[b], h, b, s)) \in Nat
      BY <2>1, <2>3, UnheardFinite
    <3> QED  BY <1>1, <2>1, <2>2, <2>3, <3>3, <3>5, <3>6
  <2>4. CASE d # b
    <3>1. Unheard(si[s][d], nx1[d], r[s], l[d], h1, d, s) = Unheard(si[s][d], nx[d], r[s], l[d], h, d, s)
      <4>1. nx1[d] = nx[d]
        BY <1>1, <2>4
      <4>2. \A n : <<d, n, s>> \in h1 <=> <<d, n, s>> \in h
        BY <2>4
      <4> HIDE DEF nx1, h1
      <4> QED  BY <4>1, <4>2 DEF Unheard
    <3> QED  BY <2>2, <3>1
  <2> QED  BY <2>3, <2>4
<1> HIDE DEF nx1, h1
<1>4. Accounted(r, nx1, si, h1, mi, l)
  BY <1>1, <1>2, <1>3 DEF Accounted
<1> QED  BY <1>4 DEF nx1, h1

LEMMA LagAccounted ==
  ASSUME NEW r, NEW nx, NEW si, NEW h, NEW mi, NEW l, Accounted(r, nx, si, h, mi, l),
         NEW b \in Buses, NEW d \in Nat, nx[b] + d <= Len(l[b])
  PROVE  Accounted(r, [nx EXCEPT ![b] = nx[b] + d], si, h, [mi EXCEPT ![b] = mi[b] + d], l)
<1> DEFINE nx1 == [nx EXCEPT ![b] = nx[b] + d]
           mi1 == [mi EXCEPT ![b] = mi[b] + d]
<1>1. nx1 \in [Buses -> Nat] /\ nx1[b] = nx[b] + d /\ \A e \in Buses : e # b => nx1[e] = nx[e]
  BY DEF Accounted
<1>2. mi1 \in [Buses -> Nat] /\ mi1[b] = mi[b] + d /\ \A e \in Buses : e # b => mi1[e] = mi[e]
  BY DEF Accounted
<1> HIDE DEF nx1, mi1
<1>3. \A e \in Buses : nx1[e] <= Len(l[e])
  BY <1>1 DEF Accounted
<1>4. ASSUME NEW e \in Buses, NEW s \in Held(r)
      PROVE  Cardinality(Unheard(si[s][e], nx1[e], r[s], l[e], h, e, s)) <= mi1[e]
  <2>1. s \in SubIds /\ si[s][e] \in Nat /\ nx[e] \in Nat /\ mi[e] \in Nat
    BY DEF Held, Accounted
  <2>2. Cardinality(Unheard(si[s][e], nx[e], r[s], l[e], h, e, s)) <= mi[e]
    BY DEF Accounted
  <2>3. CASE e = b
    <3>1. Cardinality(Unheard(si[s][b], nx[b] + d, r[s], l[b], h, b, s))
            <= Cardinality(Unheard(si[s][b], nx[b], r[s], l[b], h, b, s)) + d
      BY <2>1, <2>3, UnheardSkipped
    <3>2. nx[b] + d \in Nat
      BY <2>1, <2>3
    <3>3. Cardinality(Unheard(si[s][b], nx[b] + d, r[s], l[b], h, b, s)) \in Nat
      BY <2>1, <2>3, <3>2, UnheardFinite
    <3>4. Cardinality(Unheard(si[s][b], nx[b], r[s], l[b], h, b, s)) \in Nat
      BY <2>1, <2>3, UnheardFinite
    <3> QED  BY <1>1, <1>2, <2>1, <2>2, <2>3, <3>1, <3>3, <3>4
  <2>4. CASE e # b
    BY <1>1, <1>2, <2>2, <2>4
  <2> QED  BY <2>3, <2>4
<1>5. Accounted(r, nx1, si, h, mi1, l)
  BY <1>1, <1>2, <1>3, <1>4 DEF Accounted
<1> QED  BY <1>5 DEF nx1, mi1

LEMMA PublishAccounted ==
  ASSUME NEW r, NEW nx, NEW si, NEW h, NEW mi, NEW l \in [Buses -> Seq(Events)],
         Accounted(r, nx, si, h, mi, l), NEW b \in Buses, NEW e \in Events
  PROVE  Accounted(r, nx, si, h, mi, [l EXCEPT ![b] = Append(l[b], e)])
<1> DEFINE l1 == [l EXCEPT ![b] = Append(l[b], e)]
<1>1. l1[b] = Append(l[b], e) /\ \A d \in Buses : d # b => l1[d] = l[d]
  OBVIOUS
<1> HIDE DEF l1
<1>2. ASSUME NEW d \in Buses
      PROVE  /\ nx[d] <= Len(l1[d])
             /\ \A s \in Held(r) : Cardinality(Unheard(si[s][d], nx[d], r[s], l1[d], h, d, s)) <= mi[d]
  <2>1. nx[d] \in Nat /\ nx[d] <= Len(l[d]) /\ Len(l[d]) \in Nat /\ l[d] \in Seq(Events)
    BY DEF Accounted
  <2>2. \A s \in Held(r) : Cardinality(Unheard(si[s][d], nx[d], r[s], l[d], h, d, s)) <= mi[d]
    BY DEF Accounted
  <2>3. CASE d = b
    <3>1. Len(l1[d]) = Len(l[d]) + 1
      BY <1>1, <2>1, <2>3
    <3>2. \A s \in Held(r) : Unheard(si[s][d], nx[d], r[s], l1[d], h, d, s)
                               = Unheard(si[s][d], nx[d], r[s], l[d], h, d, s)
      <4>1. \A s \in Held(r) : si[s][d] \in Nat
        BY DEF Held, Accounted
      <4>2. l1[d] = Append(l[d], e)
        BY <1>1, <2>3
      <4>3. ASSUME NEW s \in Held(r)
            PROVE  Unheard(si[s][d], nx[d], r[s], Append(l[d], e), h, d, s)
                     = Unheard(si[s][d], nx[d], r[s], l[d], h, d, s)
        <5>1. si[s][d] \in Nat
          BY <4>1
        <5> QED  BY <2>1, <5>1, UnheardAppend
      <4> QED  BY <4>2, <4>3
    <3> QED  BY <2>1, <2>2, <3>1, <3>2
  <2>4. CASE d # b
    BY <1>1, <2>1, <2>2, <2>4
  <2> QED  BY <2>3, <2>4
<1>3. Accounted(r, nx, si, h, mi, l1)
  BY <1>2 DEF Accounted
<1> QED  BY <1>3 DEF l1

Owes(c) == Accounted(subs[c], next[c], since[c], heard[c], missed[c], log)

Reported ==
  /\ log \in [Buses -> Seq(Events)]
  /\ \A f \in {subs, next, since, heard, missed} : f = [c \in Conns |-> f[c]]
  /\ \A c \in Conns : Owes(c)
  /\ \A c \in Conns : at[c] = "free" => subs[c] = NoSubs

LEMMA InitReported == Init => Reported
<1> SUFFICES ASSUME Init PROVE Reported
  OBVIOUS
<1> DEFINE zero == [b \in Buses |-> 0]
           zeros == [s \in SubIds |-> zero]
<1>1. /\ log = [b \in Buses |-> <<>>]
      /\ subs = [c \in Conns |-> NoSubs] /\ next = [c \in Conns |-> zero]
      /\ since = [c \in Conns |-> zeros] /\ heard = [c \in Conns |-> {}]
      /\ missed = [c \in Conns |-> zero]
  BY DEF Init
<1>2. zero \in [Buses -> Nat] /\ zeros \in [SubIds -> [Buses -> Nat]] /\ \A b \in Buses : zero[b] = 0
  OBVIOUS
<1> HIDE DEF zero, zeros
<1>3. log \in [Buses -> Seq(Events)] /\ \A b \in Buses : Len(log[b]) = 0
  BY <1>1
<1>. \A b \in Buses : zero[b] <= Len(log[b])
  BY <1>2, <1>3
<1>4. Accounted(NoSubs, zero, zeros, {}, zero, log)
  BY <1>2, <1>3, FreshAccounted
<1> QED  BY <1>1, <1>3, <1>4 DEF Reported, Owes

(* The other connections owe what they owed.                               *)
LEMMA OneReported ==
  ASSUME Reported, NEW c \in Conns, NEW r, NEW nx, NEW si, NEW h, NEW mi,
         Accounted(r, nx, si, h, mi, log), log' = log,
         subs' = [subs EXCEPT ![c] = r], next' = [next EXCEPT ![c] = nx],
         since' = [since EXCEPT ![c] = si], heard' = [heard EXCEPT ![c] = h],
         missed' = [missed EXCEPT ![c] = mi],
         \A d \in Conns : d # c /\ at'[d] = "free" => at[d] = "free",
         at'[c] = "free" => r = NoSubs
  PROVE  Reported'
<1>1. /\ subs = [d \in Conns |-> subs[d]] /\ next = [d \in Conns |-> next[d]]
      /\ since = [d \in Conns |-> since[d]] /\ heard = [d \in Conns |-> heard[d]]
      /\ missed = [d \in Conns |-> missed[d]]
  BY DEF Reported
<1>2. /\ subs' = [d \in Conns |-> subs'[d]] /\ next' = [d \in Conns |-> next'[d]]
      /\ since' = [d \in Conns |-> since'[d]] /\ heard' = [d \in Conns |-> heard'[d]]
      /\ missed' = [d \in Conns |-> missed'[d]]
  BY <1>1
<1>3. subs'[c] = r /\ next'[c] = nx /\ since'[c] = si /\ heard'[c] = h /\ missed'[c] = mi
  BY <1>1
<1>4. \A d \in Conns : d # c => /\ subs'[d] = subs[d] /\ next'[d] = next[d] /\ since'[d] = since[d]
                                /\ heard'[d] = heard[d] /\ missed'[d] = missed[d]
  BY <1>1
<1>5. \A d \in Conns : Owes(d)'
  BY <1>3, <1>4 DEF Reported, Owes
<1>6. \A d \in Conns : at'[d] = "free" => subs'[d] = NoSubs
  BY <1>3, <1>4 DEF Reported
<1>7. log' \in [Buses -> Seq(Events)]
  BY DEF Reported
<1> QED  BY <1>2, <1>5, <1>6, <1>7 DEF Reported

LEMMA FramesReported ==
  ASSUME Reported, Forgets, NEW c \in Conns, Frames(c)
  PROVE  Reported'
<1>1. /\ at[c] = "open" /\ UNCHANGED <<log, next, heard, missed>>
      /\ \A d \in Conns : at'[d] = "free" => at[d] = "free"
  BY DEF Frames, Hello, Subscribe, Unsubscribe, OtherFrame, Frame, Forgets, Tasks
<1>2. at'[c] # "free"
  BY <1>1
<1>3. /\ subs = [d \in Conns |-> subs[d]] /\ since = [d \in Conns |-> since[d]]
      /\ next = [d \in Conns |-> next[d]] /\ heard = [d \in Conns |-> heard[d]]
      /\ missed = [d \in Conns |-> missed[d]]
      /\ Accounted(subs[c], next[c], since[c], heard[c], missed[c], log)
  BY DEF Reported, Owes
<1> DEFINE nx == next[c]
           h == heard[c]
           mi == missed[c]
<1>4. /\ next' = [next EXCEPT ![c] = nx] /\ heard' = [heard EXCEPT ![c] = h]
      /\ missed' = [missed EXCEPT ![c] = mi] /\ log' = log
      /\ \A d \in Conns : d # c /\ at'[d] = "free" => at[d] = "free"
  BY <1>1, <1>3
<1>5. ASSUME NEW r, subs' = [subs EXCEPT ![c] = r], Counts(c, subs[c], r)
      PROVE  Reported'
  <2> DEFINE si == [s \in SubIds |-> IF subs[c][s] = r[s] THEN since[c][s] ELSE next[c]]
  <2>1. since' = [since EXCEPT ![c] = si]
    BY <1>5 DEF Counts
  <2>2. Accounted(r, nx, si, h, mi, log)
    BY <1>3, SubscribeAccounted
  <2> HIDE DEF si, nx, h, mi
  <2> QED  BY <1>2, <1>4, <1>5, <2>1, <2>2, OneReported
<1>6. ASSUME NEW r, subs' = [subs EXCEPT ![c] = r], since' = since,
             \A s \in Held(r) : s \in Held(subs[c]) /\ r[s] = subs[c][s]
      PROVE  Reported'
  <2>1. Accounted(r, nx, since[c], h, mi, log)
    BY <1>3, <1>6, UnsubscribeAccounted
  <2>2. since' = [since EXCEPT ![c] = since[c]]
    BY <1>3, <1>6
  <2> HIDE DEF nx, h, mi
  <2> QED  BY <1>2, <1>4, <1>6, <2>1, <2>2, OneReported
<1>7. ASSUME UNCHANGED <<subs, since>>
      PROVE  Reported'
  <2>1. subs' = [subs EXCEPT ![c] = subs[c]] /\ since' = since
    BY <1>3, <1>7
  <2> QED  BY <1>6, <2>1
<1>8. ASSUME NEW restore \in BOOLEAN, Hello(c, restore)
      PROVE  Reported'
  <2>1. CASE restore /\ store.map[who[c]] # NoSubs
    <3>1. PICK imported \in Imports(subs[c], store.map[who[c]]) :
            subs' = [subs EXCEPT ![c] = imported] /\ Counts(c, subs[c], imported)
      BY <1>8, <2>1 DEF Hello
    <3> QED  BY <1>5, <3>1
  <2>2. CASE ~(restore /\ store.map[who[c]] # NoSubs)
    BY <1>7, <1>8, <2>2 DEF Hello
  <2> QED  BY <2>1, <2>2
<1>9. ASSUME NEW s \in SubIds, NEW filter \in Filters, Subscribe(c, s, filter)
      PROVE  Reported'
  <2> DEFINE r == [subs[c] EXCEPT ![s] = filter]
  <2>1. subs' = [subs EXCEPT ![c] = r] /\ Counts(c, subs[c], subs'[c])
    BY <1>9 DEF Subscribe
  <2> HIDE DEF r
  <2>2. subs'[c] = r
    BY <1>3, <2>1
  <2>3. Counts(c, subs[c], r)
    BY <2>1, <2>2
  <2> QED  BY <1>5, <2>1, <2>3
<1>10. ASSUME NEW s \in SubIds, Unsubscribe(c, s)
       PROVE  Reported'
  <2> DEFINE r == [subs[c] EXCEPT ![s] = NoFilter]
  <2>1. subs' = [subs EXCEPT ![c] = r] /\ since' = since
    BY <1>10 DEF Unsubscribe
  <2>2. \A t \in Held(r) : t \in Held(subs[c]) /\ r[t] = subs[c][t]
    BY DEF Held
  <2> HIDE DEF r
  <2> QED  BY <1>6, <2>1, <2>2
<1>11. CASE OtherFrame(c)
  BY <1>7, <1>11 DEF OtherFrame
<1> QED  BY <1>8, <1>9, <1>10, <1>11 DEF Frames

LEMMA EndsReported ==
  ASSUME Reported, Forgets, NEW c \in Conns, Ends(c)
  PROVE  Reported'
<1> DEFINE zero == [b \in Buses |-> 0]
           zeros == [s \in SubIds |-> zero]
<1>1. zero \in [Buses -> Nat] /\ zeros \in [SubIds -> [Buses -> Nat]] /\ \A b \in Buses : zero[b] = 0
  OBVIOUS
<1>2. /\ subs' = [subs EXCEPT ![c] = NoSubs] /\ next' = [next EXCEPT ![c] = zero]
      /\ since' = [since EXCEPT ![c] = zeros] /\ heard' = [heard EXCEPT ![c] = {}]
      /\ missed' = [missed EXCEPT ![c] = zero] /\ log' = log
      /\ \A d \in Conns : d # c /\ at'[d] = "free" => at[d] = "free"
  BY DEF Ends, Forgets, Tasks
<1> HIDE DEF zero, zeros
<1>3. \A b \in Buses : 0 <= Len(log[b])
  BY DEF Reported
<1>4. Accounted(NoSubs, zero, zeros, {}, zero, log)
  BY <1>1, <1>3, FreshAccounted
<1> QED  BY <1>2, <1>4, OneReported

LEMMA BusReported ==
  ASSUME Reported, NEW c \in Conns, NEW b \in Buses, Receive(c, b) \/ Lag(c, b)
  PROVE  Reported'
<1>1. /\ subs = [d \in Conns |-> subs[d]] /\ since = [d \in Conns |-> since[d]]
      /\ next = [d \in Conns |-> next[d]] /\ heard = [d \in Conns |-> heard[d]]
      /\ missed = [d \in Conns |-> missed[d]]
      /\ Accounted(subs[c], next[c], since[c], heard[c], missed[c], log)
      /\ Len(log[b]) \in Nat
  BY DEF Reported, Owes
<1>2. /\ next[c][b] < Len(log[b]) /\ log' = log /\ at' = at /\ at[c] = "open"
      /\ subs' = [subs EXCEPT ![c] = subs[c]] /\ since' = [since EXCEPT ![c] = since[c]]
  BY <1>1 DEF Receive, Lag, Receives, taskVars
<1>3. CASE Receive(c, b)
  <2> DEFINE nx == [next[c] EXCEPT ![b] = next[c][b] + 1]
             h == heard[c] \cup {<<b, next[c][b] + 1, s>> : s \in Matching(subs[c], log[b][next[c][b] + 1])}
  <2>1. Accounted(subs[c], nx, since[c], h, missed[c], log)
    <3>1. \A r, n, si, h1, mi : Accounted(r, n, si, h1, mi, log) /\ n[b] < Len(log[b]) =>
            Accounted(r, [n EXCEPT ![b] = n[b] + 1], si,
                      h1 \cup {<<b, n[b] + 1, s>> : s \in Matching(r, log[b][n[b] + 1])}, mi, log)
      BY <1>1, ReceiveAccounted
    <3> QED  BY <1>1, <1>2, <3>1
  <2>2. next' = [next EXCEPT ![c] = nx] /\ heard' = [heard EXCEPT ![c] = h]
    BY <1>3 DEF Receive
  <2> HIDE DEF nx, h
  <2>3. missed' = [missed EXCEPT ![c] = missed[c]]
    BY <1>1, <1>3 DEF Receive
  <2> QED  BY <1>2, <2>1, <2>2, <2>3, OneReported
<1>4. CASE Lag(c, b)
  <2> DEFINE skipped == Len(log[b]) - BusCap - next[c][b]
             nx == [next[c] EXCEPT ![b] = next[c][b] + skipped]
             mi == [missed[c] EXCEPT ![b] = missed[c][b] + skipped]
  <2>1. next[c][b] \in Nat /\ BusCap \in Nat
    BY <1>1, LimitsAssumption DEF Accounted
  <2>2. skipped > 0
    BY <1>4 DEF Lag
  <2>3. skipped \in Nat /\ next[c][b] + skipped <= Len(log[b])
    BY <1>1, <2>1, <2>2
  <2>4. next' = [next EXCEPT ![c] = nx] /\ missed' = [missed EXCEPT ![c] = mi]
    BY <1>4 DEF Lag
  <2>5. Accounted(subs[c], nx, since[c], heard[c], mi, log)
    <3> HIDE DEF skipped
    <3> QED  BY <1>1, <2>3, LagAccounted
  <2> HIDE DEF nx, mi
  <2>6. heard' = [heard EXCEPT ![c] = heard[c]]
    BY <1>1, <1>4 DEF Lag
  <2> QED  BY <1>2, <2>4, <2>5, <2>6, OneReported
<1> QED  BY <1>3, <1>4

LEMMA AcceptReported ==
  ASSUME Reported, Forgets, NEW c \in Conns, Accept(c)
  PROVE  Reported'
<1> DEFINE nx == [b \in Buses |-> Len(log[b])]
<1>1. /\ at[c] = "free" /\ at' = [at EXCEPT ![c] = "upgrade"] /\ next' = [next EXCEPT ![c] = nx]
      /\ UNCHANGED <<subs, log, since, heard, missed>>
  BY DEF Accept
<1>2. nx \in [Buses -> Nat] /\ \A b \in Buses : nx[b] <= Len(log[b])
  <2>1. \A b \in Buses : Len(log[b]) \in Nat
    BY DEF Reported
  <2> QED  BY <2>1
<1> HIDE DEF nx
<1>3. /\ subs[c] = NoSubs
      /\ Accounted(subs[c], next[c], since[c], heard[c], missed[c], log)
  BY <1>1 DEF Reported, Owes
<1> DEFINE r == subs[c]
           si == since[c]
           h == heard[c]
           mi == missed[c]
<1>4. Accounted(r, nx, si, h, mi, log)
  BY <1>2, <1>3, FreshAccounted DEF Accounted
<1>5. /\ subs' = [subs EXCEPT ![c] = r] /\ since' = [since EXCEPT ![c] = si]
      /\ heard' = [heard EXCEPT ![c] = h] /\ missed' = [missed EXCEPT ![c] = mi]
  BY <1>1 DEF Reported
<1>6. at'[c] = "upgrade" /\ \A d \in Conns : d # c /\ at'[d] = "free" => at[d] = "free"
  BY <1>1 DEF Forgets, Tasks
<1>7. log' = log /\ next' = [next EXCEPT ![c] = nx] /\ at'[c] # "free"
  BY <1>1, <1>6
<1> HIDE DEF r, si, h, mi
<1> QED  BY <1>4, <1>5, <1>6, <1>7, OneReported

(* A step at which no task reads and nothing is published.                 *)
LEMMA QuietReported ==
  ASSUME Reported, UNCHANGED <<subs, next, since, heard, missed, log>>,
         \A c \in Conns : at'[c] = "free" => at[c] = "free"
  PROVE  Reported'
BY DEF Reported, Owes

LEMMA TaskReported ==
  ASSUME Reported, Forgets, NEW c \in Conns, Task(c)
  PROVE  Reported'
<1>1. CASE Frames(c)
  BY <1>1, FramesReported
<1>2. CASE Accept(c)
  BY <1>2, AcceptReported
<1>3. CASE \E b \in Buses : Receive(c, b) \/ Lag(c, b)
  BY <1>3, BusReported
<1>4. CASE Refuse(c) \/ Abort(c) \/ SaveSubs(c) \/ DropSubs(c)
  BY <1>4, EndsReported DEF Refuse, Abort, SaveSubs, DropSubs
<1>5. CASE \/ \E k \in Clients : Authenticate(c, k)
           \/ SaveRestored(c) \/ PingRevoked(c) \/ Leave(c) \/ SeeShutdown(c) \/ LooksUp(c)
  <2>1. UNCHANGED <<subs, next, since, heard, missed, log>>
    BY <1>5 DEF Authenticate, SaveRestored, PingRevoked, Leave, SeeShutdown, LooksUp, Goes, busVars
  <2>2. \E p \in {"open", "close", "save", "drop"} : at' = [at EXCEPT ![c] = p]
    BY <1>5 DEF Authenticate, SaveRestored, PingRevoked, Leave, SeeShutdown, LooksUp, Goes
  <2>3. \A d \in Conns : at'[d] = "free" => at[d] = "free"
    BY <2>2 DEF Forgets, Tasks
  <2> QED  BY <2>1, <2>3, QuietReported
<1> QED  BY <1>1, <1>2, <1>3, <1>4, <1>5 DEF Task, Closing

LEMMA PublishReported ==
  ASSUME Reported, NEW b \in Buses, NEW event \in Events, Publish(b, event)
  PROVE  Reported'
<1> DEFINE l == [log EXCEPT ![b] = Append(log[b], event)]
<1>1. log' = l /\ UNCHANGED <<subs, next, since, heard, missed, at>>
  BY DEF Publish, taskVars, busVars
<1>2. log \in [Buses -> Seq(Events)]
  BY DEF Reported
<1>3. \A c \in Conns : Accounted(subs[c], next[c], since[c], heard[c], missed[c], l)
  <2> SUFFICES ASSUME NEW c \in Conns
               PROVE  Accounted(subs[c], next[c], since[c], heard[c], missed[c], l)
    OBVIOUS
  <2>1. Accounted(subs[c], next[c], since[c], heard[c], missed[c], log)
    BY DEF Reported, Owes
  <2> QED  BY <1>2, <2>1, PublishAccounted
<1>4. l \in [Buses -> Seq(Events)]
  BY <1>2
<1> HIDE DEF l
<1> QED  BY <1>1, <1>3, <1>4 DEF Reported, Owes

(* What a subscription of a connection should have passed on and did not   *)
(* is never more than its warnings have said, for any number of events,    *)
(* any backlog and any subscriptions, changed in any order.                *)
THEOREM LagIsReported == Spec => []NothingMissedSilently
<1>1. Reported /\ Forgets /\ [Next]_vars => Reported'
  <2> SUFFICES ASSUME Reported, Forgets, [Next]_vars PROVE Reported'
    OBVIOUS
  <2>1. CASE Watcher \/ Cancel \/ Drained \/ UNCHANGED vars \/ \E k \in Clients : Refill(k)
    <3>1. UNCHANGED <<at, subs, next, since, heard, missed, log>>
      BY <2>1 DEF Watcher, Reloads, Debounce, Rewatch, Load, PurgeStore, StoreClients, StopWatcher,
                  Edit, WatcherUnchanged, Cancel, Drained, Refill, vars, taskVars, busVars
    <3> QED  BY <3>1, QuietReported
  <2>2. ASSUME NEW b \in Buses, NEW event \in Events, Publish(b, event)
        PROVE  Reported'
    BY <2>2, PublishReported
  <2>3. ASSUME NEW c \in Conns, Task(c)
        PROVE  Reported'
    BY <2>3, TaskReported
  <2> QED  BY <2>1, <2>2, <2>3 DEF Next, World
<1>2. Reported => NothingMissedSilently
  BY DEF Reported, Owes, Accounted, Unheard, NothingMissedSilently
<1> QED  BY InitReported, AlwaysForgets, <1>1, <1>2, PTL DEF Spec
==============================================================================
