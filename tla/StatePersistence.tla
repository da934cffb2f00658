--------------------------- MODULE StatePersistence ---------------------------
(***************************************************************************)
(* The persisted state of terminus: the state file and its in-memory copy  *)
(* (state_store.rs), the debounced writer (state_persistor.rs), the        *)
(* channel of StateUpdates, the named-session index that must not drift    *)
(* from it (harness_registry.rs), the chat bindings (command_router.rs)    *)
(* and the biased select of the main loop that is the channel's only       *)
(* reader (main.rs).                                                       *)
(*                                                                         *)
(* A named session is its last_used stamp (0: no such session); the chats  *)
(* of the three platforms are one set; the watermarks of the channels are  *)
(* one number, since every channel's is handled alike.                     *)
(***************************************************************************)
EXTENDS Naturals, Sequences, FiniteSets

CONSTANTS Chats,        \* chat ids
          NoChat,       \* stands for the reply context of a socket request
          Names,        \* prefixed names of harness sessions
          MaxNamed,     \* max_named_sessions
          QueueCap,     \* capacity of the state channel
          Debounce,     \* updates after which the persistor writes
          MaxMark,      \* bound on the watermarks
          MaxPrompts,   \* bound on the prompts that use a named session
          MaxStops,     \* bound on the ends of the process
          FsFaults      \* TRUE: StateStore::persist may fail

ASSUME NoChatAssumption == NoChat \notin Chats
ASSUME LimitsAssumption ==
  /\ {MaxNamed, QueueCap, Debounce} \subseteq Nat \ {0}
  /\ {MaxMark, MaxPrompts, MaxStops} \subseteq Nat
  /\ FsFaults \in BOOLEAN

VARIABLES
  phase,     \* where main is: "down", "select", "route", "prompt", "drain", "stopped"
  cur,       \* the chat of the message being routed
  queue,     \* the state channel
  store,     \* StateStore.state
  disk,      \* terminus-state.json
  since,     \* updates_since_persist
  failed,    \* the last write of the state file failed
  dirtySent, \* the persistor's one-shot flag
  wake,      \* the wake coordinator's active chats
  registry,  \* HarnessRegistry.named_sessions
  startup,   \* startup_was_clean
  prompts, stops

vars == <<phase, cur, queue, store, disk, since, failed, dirtySent, wake,
          registry, startup, prompts, stops>>

Sessions == [Names -> 0..MaxPrompts]
States == [clean : BOOLEAN, chats : SUBSET Chats, sessions : Sessions, mark : 0..MaxMark]

NoSessions == [k \in Names |-> 0]
Default == [clean |-> TRUE, chats |-> {}, sessions |-> NoSessions, mark |-> 0]

(* StateUpdate.  A HarnessSessionBatch is the whole change: the entry that *)
(* is evicted, if any, then the one that is inserted.                      *)
Bind(c)          == [kind |-> "bind", chat |-> c]
Batch(out, k, n) == [kind |-> "batch", out |-> out, name |-> k, stamp |-> n]
Watermark(n)     == [kind |-> "mark", n |-> n]
MarkDirty        == [kind |-> "dirty"]
Tick             == [kind |-> "tick"]

Updates ==
  {Bind(c) : c \in Chats} \cup {Watermark(n) : n \in 1..MaxMark} \cup {MarkDirty, Tick}
    \cup {Batch(out, k, n) : out \in SUBSET Names, k \in Names, n \in 1..MaxPrompts}

Upsert(sessions, u) ==
  [k \in Names |-> IF k = u.name THEN u.stamp
                   ELSE IF k \in u.out THEN 0 ELSE sessions[k]]

(* Mutant: the last watermark wins.                                        *)
AppliedOverwriting(s, u) ==
  CASE u.kind = "bind"  -> [s EXCEPT !.chats = @ \cup {u.chat}]
    [] u.kind = "dirty" -> [s EXCEPT !.clean = FALSE]
    [] u.kind = "mark"  -> [s EXCEPT !.mark = u.n]
    [] u.kind = "batch" -> [s EXCEPT !.sessions = Upsert(@, u)]
    [] OTHER -> s

(* StateStore::apply.                                                      *)
Applied(s, u) ==
  CASE u.kind = "bind"  -> [s EXCEPT !.chats = @ \cup {u.chat}]
    [] u.kind = "dirty" -> [s EXCEPT !.clean = FALSE]
    [] u.kind = "mark"  -> [s EXCEPT !.mark = IF u.n > @ THEN u.n ELSE @]
    [] u.kind = "batch" -> [s EXCEPT !.sessions = Upsert(@, u)]
    [] OTHER -> s

(* Mutant: a batch waits for the debounce window.                          *)
IsForceWithoutBatch(u) == u.kind \in {"dirty", "mark"}

(* is_force_persist.                                                       *)
IsForcePersist(u) == u.kind \in {"dirty", "mark", "batch"}

(* StateStore::persist of s, with an error that is only logged.            *)
Persist(s) ==
  /\ since' = 0
  /\ \/ disk' = s /\ failed' = FALSE
     \/ FsFaults /\ disk' = disk /\ failed' = TRUE

Room == Len(queue) < QueueCap

(* try_send: an update that finds no room is dropped.                      *)
Offer(q, u) == IF Len(q) < QueueCap THEN Append(q, u) ELSE q

Init ==
  /\ phase = "down" /\ cur = NoChat
  /\ queue = <<>>
  /\ store = Default /\ disk = Default
  /\ since = 0 /\ failed = FALSE /\ dirtySent = FALSE
  /\ wake = {} /\ registry = NoSessions /\ startup = TRUE
  /\ prompts = 0 /\ stops = 0

------------------------------------------------------------------------------
(* Mutant: the marker is only set in memory.                               *)
BootWithoutPersist ==
  /\ phase = "down" /\ phase' = "select" /\ cur' = NoChat
  /\ startup' = disk.clean
  /\ store' = [disk EXCEPT !.clean = FALSE]
  /\ since' = 0 /\ failed' = FALSE /\ dirtySent' = FALSE
  /\ wake' = disk.chats /\ registry' = disk.sessions
  /\ queue' = <<>>
  /\ UNCHANGED <<disk, prompts, stops>>

(* StateStore::load and App::new: the previous run's flag is captured, the *)
(* dirty marker is forced to disk, and a failure to write it is fatal.     *)
Boot ==
  /\ phase = "down" /\ phase' = "select" /\ cur' = NoChat
  /\ startup' = disk.clean
  /\ store' = Applied(disk, MarkDirty)
  /\ disk' = store' /\ since' = 0 /\ failed' = FALSE
  /\ dirtySent' = FALSE
  /\ wake' = disk.chats /\ registry' = disk.sessions
  /\ queue' = <<>>
  /\ UNCHANGED <<prompts, stops>>

(* The state arm of the select: apply_state_update.  The five seconds of   *)
(* the debounce window may have passed at any time.                        *)
SelectState ==
  /\ phase = "select" /\ queue # <<>>
  /\ queue' = Tail(queue)
  /\ store' = Applied(store, Head(queue))
  /\ wake' = IF Head(queue).kind = "bind" THEN wake \cup {Head(queue).chat} ELSE wake
  /\ \/ Persist(store')
     \/ /\ ~IsForcePersist(Head(queue)) /\ since + 1 < Debounce
        /\ since' = since + 1
        /\ UNCHANGED <<disk, failed>>
  /\ UNCHANGED <<phase, cur, dirtySent, registry, startup, prompts, stops>>

(* The select is biased: the arms below are reached only when the state    *)
(* channel was found empty.                                                *)
Drained == queue = <<>>

(* A message from a chat, or from the socket, which has none.              *)
SelectCommand ==
  /\ phase = "select" /\ Drained
  /\ phase' = "route"
  /\ cur' \in Chats \cup {NoChat}
  /\ UNCHANGED <<queue, store, disk, since, failed, dirtySent, wake, registry,
                 startup, prompts, stops>>

(* health_check: try_send of a Tick.                                       *)
SelectTick ==
  /\ phase = "select" /\ Drained
  /\ queue' = Offer(queue, Tick)
  /\ UNCHANGED <<phase, cur, store, disk, since, failed, dirtySent, wake, registry,
                 startup, prompts, stops>>

(* The head of route_command: the one-shot MarkDirty, then the binding of  *)
(* a new chat.  The command may go on to use a named session.              *)
RouteCommand ==
  /\ phase = "route"
  /\ LET q == IF dirtySent THEN queue ELSE Offer(queue, MarkDirty)
     IN  queue' = IF cur \in Chats \ wake THEN Offer(q, Bind(cur)) ELSE q
  /\ dirtySent' = TRUE
  /\ wake' = wake \cup (Chats \cap {cur})
  /\ phase' \in {"select", "prompt"}
  /\ cur' = NoChat
  /\ UNCHANGED <<store, disk, since, failed, registry, startup, prompts, stops>>

(* The entry that has to make room for name k, if any: the one least       *)
(* recently used (no two have the same stamp).                             *)
Evicted(k) ==
  LET used == {m \in Names : registry[m] > 0}
  IN  IF registry[k] > 0 \/ Cardinality(used) < MaxNamed THEN {}
      ELSE {m \in used : \A o \in used : registry[m] <= registry[o]}

(* Mutant: the index is updated although the channel did not take the      *)
(* batch.                                                                  *)
PersistNamedSessionAnyway(k) ==
  LET batch == Batch(Evicted(k), k, prompts + 1)
  IN  /\ phase = "prompt" /\ phase' = "select"
      /\ prompts < MaxPrompts /\ prompts' = prompts + 1
      /\ queue' = Offer(queue, batch)
      /\ registry' = Upsert(registry, batch)
      /\ UNCHANGED <<cur, store, disk, since, failed, dirtySent, wake, startup, stops>>

(* persist_named_session after a prompt under name k: the index follows    *)
(* only when the channel takes the batch.  Nobody reads the channel in the *)
(* meantime, so a full one stays full until the send times out.            *)
PersistNamedSession(k) ==
  LET batch == Batch(Evicted(k), k, prompts + 1)
  IN  /\ phase = "prompt" /\ phase' = "select"
      /\ prompts < MaxPrompts /\ prompts' = prompts + 1
      /\ \/ /\ Room
            /\ queue' = Append(queue, batch)
            /\ registry' = Upsert(registry, batch)
         \/ ~Room /\ UNCHANGED <<queue, registry>>
      /\ UNCHANGED <<cur, store, disk, since, failed, dirtySent, wake, startup, stops>>

(* Mutant: ctrl-c is taken first.                                          *)
SelectCtrlCFirst ==
  /\ phase = "select"
  /\ phase' = "drain"
  /\ UNCHANGED <<cur, queue, store, disk, since, failed, dirtySent, wake, registry,
                 startup, prompts, stops>>

(* ctrl-c: main waits for the socket to drain and reads no channel.        *)
SelectCtrlC ==
  /\ phase = "select" /\ Drained
  /\ phase' = "drain"
  /\ UNCHANGED <<cur, queue, store, disk, since, failed, dirtySent, wake, registry,
                 startup, prompts, stops>>

(* mark_clean_shutdown.                                                    *)
MarkCleanShutdown ==
  /\ phase = "drain" /\ phase' = "stopped"
  /\ store' = [store EXCEPT !.clean = TRUE]
  /\ Persist(store')
  /\ UNCHANGED <<cur, queue, dirtySent, wake, registry, startup, prompts, stops>>

(* The process ends: main returns, or it crashes anywhere.                 *)
Stop ==
  /\ phase # "down" /\ phase' = "down"
  /\ stops < MaxStops /\ stops' = stops + 1
  /\ UNCHANGED <<cur, queue, store, disk, since, failed, dirtySent, wake, registry,
                 startup, prompts>>

(* An adapter publishes a watermark, in no particular order: live messages *)
(* and a catchup are concurrent.  It waits for room.                       *)
PublishWatermark(n) ==
  /\ phase \in {"select", "route", "prompt", "drain"}
  /\ Room
  /\ queue' = Append(queue, Watermark(n))
  /\ UNCHANGED <<phase, cur, store, disk, since, failed, dirtySent, wake, registry,
                 startup, prompts, stops>>

Next ==
  \/ Boot \/ SelectState \/ SelectCommand \/ SelectTick \/ RouteCommand
  \/ (\E k \in Names : PersistNamedSession(k))
  \/ SelectCtrlC \/ MarkCleanShutdown \/ Stop
  \/ (\E n \in 1..MaxMark : PublishWatermark(n))

Spec == Init /\ [][Next]_vars

------------------------------------------------------------------------------
TypeOK ==
  /\ phase \in {"down", "select", "route", "prompt", "drain", "stopped"}
  /\ cur \in Chats \cup {NoChat}
  /\ queue \in Seq(Updates) /\ Len(queue) <= QueueCap
  /\ store \in States /\ disk \in States
  /\ since \in 0..Debounce - 1 /\ failed \in BOOLEAN /\ dirtySent \in BOOLEAN
  /\ wake \subseteq Chats /\ registry \in Sessions /\ startup \in BOOLEAN
  /\ prompts \in 0..MaxPrompts /\ stops \in 0..MaxStops

(* The restart-banner gate: last_clean_shutdown is true on disk exactly    *)
(* when a run got through mark_clean_shutdown, so a crash at any other     *)
(* moment is noticed by the next start.                                    *)
CleanFlagExact ==
  /\ phase \in {"select", "route", "prompt", "drain"} => ~disk.clean
  /\ phase = "stopped" /\ ~failed => disk.clean

(* Update i of the channel decides about name k: no later one touches it.  *)
Touches(u, k) == u.kind = "batch" /\ k \in u.out \cup {u.name}
Decides(i, k) ==
  /\ Touches(queue[i], k)
  /\ \A j \in DOMAIN queue : j > i => ~Touches(queue[j], k)

(* What the index of named sessions says is what the store will say once   *)
(* it has applied the updates under way, evictions included.               *)
NoDrift ==
  phase # "down" => \A k \in Names :
    /\ \A i \in DOMAIN queue :
         Decides(i, k) => registry[k] = IF k = queue[i].name THEN queue[i].stamp ELSE 0
    /\ (\A i \in DOMAIN queue : ~Touches(queue[i], k)) => registry[k] = store.sessions[k]

(* Watermarks and named sessions never wait for the debounce window.       *)
ForcedIsDurable ==
  phase # "down" /\ ~failed => disk.sessions = store.sessions /\ disk.mark = store.mark

(* A clean shutdown leaves every named session the user was told of on     *)
(* disk, though it does not read the channel any more.                     *)
CleanStopKeepsSessions == phase = "stopped" /\ ~failed => disk.sessions = registry

(* Updates that arrive out of order never move a persisted watermark back. *)
WatermarkNeverRegresses == [][disk'.mark >= disk.mark]_vars

(* main.rs on the order of the select's arms: chat bindings are durable    *)
(* before a command is processed.                                          *)
BindingsDurable == phase = "route" => store.chats \subseteq disk.chats
==============================================================================
