----------------------- MODULE StatePersistence_proofs -----------------------
(***************************************************************************)
(* What StatePersistence guarantees for every number of chats, names and   *)
(* slots of the channel: types, the restart-banner gate, the durability of *)
(* forced updates, and that the index of named sessions never drifts.      *)
(***************************************************************************)
EXTENDS StatePersistence, TLAPS

LEMMA Limits ==
  /\ MaxNamed \in Nat /\ MaxNamed > 0 /\ QueueCap \in Nat /\ QueueCap > 0
  /\ Debounce \in Nat /\ Debounce > 0
  /\ MaxMark \in Nat /\ MaxPrompts \in Nat /\ MaxStops \in Nat
  BY LimitsAssumption

LEMMA UpsertType ==
  ASSUME NEW s \in Sessions, NEW out \in SUBSET Names, NEW k \in Names,
         NEW n \in 1..MaxPrompts
  PROVE  /\ Upsert(s, Batch(out, k, n)) \in Sessions
         /\ \A m \in Names :
              Upsert(s, Batch(out, k, n))[m] =
                IF m = k THEN n ELSE IF m \in out THEN 0 ELSE s[m]
<1> DEFINE u == Batch(out, k, n)
<1>1. u.out = out /\ u.name = k /\ u.stamp = n
  BY DEF Batch
<1> HIDE DEF u
<1>2. n \in 0..MaxPrompts /\ 0 \in 0..MaxPrompts
  BY Limits
<1>3. Upsert(s, u) = [m \in Names |-> IF m = k THEN n ELSE IF m \in out THEN 0 ELSE s[m]]
  BY <1>1 DEF Upsert
<1>4. Upsert(s, u) \in Sessions
  BY <1>2, <1>3 DEF Sessions
<1> QED
  BY <1>3, <1>4 DEF u

LEMMA UpdateCases ==
  ASSUME NEW u \in Updates
  PROVE  \/ \E c \in Chats : u = Bind(c)
         \/ \E n \in 1..MaxMark : u = Watermark(n)
         \/ u = MarkDirty \/ u = Tick
         \/ \E out \in SUBSET Names, k \in Names, n \in 1..MaxPrompts : u = Batch(out, k, n)
  BY DEF Updates

(* StateStore::apply, one kind of update at a time.                        *)
LEMMA AppliedForms ==
  ASSUME NEW s \in States
  PROVE  /\ \A c \in Chats : Applied(s, Bind(c)) = [s EXCEPT !.chats = s.chats \cup {c}]
         /\ \A n \in 1..MaxMark :
              Applied(s, Watermark(n)) = [s EXCEPT !.mark = IF n > s.mark THEN n ELSE s.mark]
         /\ Applied(s, MarkDirty) = [s EXCEPT !.clean = FALSE]
         /\ Applied(s, Tick) = s
         /\ \A out \in SUBSET Names, k \in Names, n \in 1..MaxPrompts :
              Applied(s, Batch(out, k, n)) =
                [s EXCEPT !.sessions = Upsert(s.sessions, Batch(out, k, n))]
<1>1. \A c \in Chats : Applied(s, Bind(c)) = [s EXCEPT !.chats = s.chats \cup {c}]
  BY DEF Applied, Bind
<1>2. \A n \in 1..MaxMark :
        Applied(s, Watermark(n)) = [s EXCEPT !.mark = IF n > s.mark THEN n ELSE s.mark]
  BY DEF Applied, Watermark
<1>3. Applied(s, MarkDirty) = [s EXCEPT !.clean = FALSE] /\ Applied(s, Tick) = s
  BY DEF Applied, MarkDirty, Tick
<1>4. \A out \in SUBSET Names, k \in Names, n \in 1..MaxPrompts :
        Applied(s, Batch(out, k, n)) =
          [s EXCEPT !.sessions = Upsert(s.sessions, Batch(out, k, n))]
  BY DEF Applied, Batch
<1> QED
  BY <1>1, <1>2, <1>3, <1>4

LEMMA AppliedType ==
  ASSUME NEW s \in States, NEW u \in Updates
  PROVE  /\ Applied(s, u) \in States
         /\ ~s.clean => ~Applied(s, u).clean
         /\ Applied(s, u).mark >= s.mark
<1> DEFINE Good(t) == t \in States /\ (~s.clean => ~t.clean) /\ t.mark >= s.mark
<1>0. /\ s.clean \in BOOLEAN /\ s.chats \subseteq Chats /\ s.sessions \in Sessions
      /\ s.mark \in 0..MaxMark /\ s.mark \in Nat
  BY Limits DEF States
<1>1. ASSUME NEW c \in Chats PROVE Good([s EXCEPT !.chats = s.chats \cup {c}])
  BY <1>0 DEF States
<1>2. ASSUME NEW n \in 1..MaxMark
      PROVE  Good([s EXCEPT !.mark = IF n > s.mark THEN n ELSE s.mark])
  <2> DEFINE m == IF n > s.mark THEN n ELSE s.mark
  <2>1. m \in 0..MaxMark /\ m >= s.mark
    BY <1>0, Limits
  <2> HIDE DEF m
  <2>2. Good([s EXCEPT !.mark = m])
    BY <1>0, <2>1 DEF States
  <2> QED
    BY <2>2 DEF m
<1>3. Good(s)
  BY <1>0
<1>4. Good([s EXCEPT !.clean = FALSE])
  <2> DEFINE t == [s EXCEPT !.clean = FALSE]
  <2>1. t \in States
    BY DEF States
  <2>2. ~t.clean
    BY DEF States
  <2>3. t.mark = s.mark
    BY DEF States
  <2> QED
    BY <1>0, <2>1, <2>2, <2>3
<1>5. ASSUME NEW f \in Sessions PROVE Good([s EXCEPT !.sessions = f])
  BY <1>0 DEF States
<1> HIDE DEF Good
<1>6. Good(Applied(s, u))
  <2>1. CASE \E c \in Chats : u = Bind(c)
    BY <1>1, <2>1, AppliedForms
  <2>2. CASE \E n \in 1..MaxMark : u = Watermark(n)
    BY <1>2, <2>2, AppliedForms
  <2>3. CASE u = MarkDirty \/ u = Tick
    BY <1>3, <1>4, <2>3, AppliedForms
  <2>4. CASE \E out \in SUBSET Names, k \in Names, n \in 1..MaxPrompts : u = Batch(out, k, n)
    BY <1>0, <1>5, <2>4, AppliedForms, UpsertType
  <2> QED
    BY <2>1, <2>2, <2>3, <2>4, UpdateCases
<1> QED
  BY <1>6 DEF Good

(* An update that is not forced leaves the sessions and the watermarks as  *)
(* they are.                                                               *)
LEMMA AppliedUnforced ==
  ASSUME NEW s \in States, NEW u \in Updates, ~IsForcePersist(u)
  PROVE  Applied(s, u).sessions = s.sessions /\ Applied(s, u).mark = s.mark
<1>1. \/ \E c \in Chats : u = Bind(c)
      \/ u = Tick
  BY UpdateCases DEF IsForcePersist, Watermark, MarkDirty, Batch
<1> QED
  BY <1>1, AppliedForms DEF States

(* Only a batch changes a session, and only those it touches.              *)
LEMMA AppliedSessions ==
  ASSUME NEW s \in States, NEW u \in Updates, NEW k \in Names
  PROVE  /\ Touches(u, k) => Applied(s, u).sessions[k] = IF k = u.name THEN u.stamp ELSE 0
         /\ ~Touches(u, k) => Applied(s, u).sessions[k] = s.sessions[k]
<1>1. CASE u.kind = "batch"
  <2>1. PICK out \in SUBSET Names, j \in Names, n \in 1..MaxPrompts : u = Batch(out, j, n)
    BY <1>1, UpdateCases DEF Bind, Watermark, MarkDirty, Tick
  <2>2. u.out = out /\ u.name = j /\ u.stamp = n
    BY <2>1 DEF Batch
  <2>3. s.sessions \in Sessions
    BY DEF States
  <2>4. Applied(s, u).sessions = Upsert(s.sessions, u)
    BY <2>1, AppliedForms DEF States
  <2>5. Upsert(s.sessions, u)[k] = IF k = j THEN n ELSE IF k \in out THEN 0 ELSE s.sessions[k]
    BY <2>1, <2>3, UpsertType
  <2> QED
    BY <1>1, <2>2, <2>4, <2>5 DEF Touches
<1>2. CASE u.kind # "batch"
  <2>1. ~Touches(u, k)
    BY <1>2 DEF Touches
  <2>2. \/ \E c \in Chats : u = Bind(c)
        \/ \E n \in 1..MaxMark : u = Watermark(n)
        \/ u = MarkDirty \/ u = Tick
    BY <1>2, UpdateCases DEF Batch
  <2> QED
    BY <2>1, <2>2, AppliedForms DEF States
<1> QED
  BY <1>1, <1>2

LEMMA EvictedType == \A k \in Names : Evicted(k) \in SUBSET Names
  BY DEF Evicted

LEMMA OfferFacts ==
  ASSUME NEW q \in Seq(Updates), Len(q) <= QueueCap, NEW u \in Updates
  PROVE  /\ Offer(q, u) \in Seq(Updates) /\ Len(Offer(q, u)) <= QueueCap
         /\ Offer(q, u) \in {q, Append(q, u)}
  BY Limits DEF Offer

LEMMA SmallUpdates ==
  /\ MarkDirty \in Updates /\ Tick \in Updates
  /\ \A c \in Chats : Bind(c) \in Updates
  /\ \A n \in 1..MaxMark : Watermark(n) \in Updates
  BY DEF Updates

LEMMA BatchUpdate ==
  \A out \in SUBSET Names, k \in Names, n \in 1..MaxPrompts : Batch(out, k, n) \in Updates
  BY DEF Updates

LEMMA TypeInit == Init => TypeOK
<1> SUFFICES ASSUME Init PROVE TypeOK
  OBVIOUS
<1> USE Limits DEF Init
<1>1. NoSessions \in Sessions
  BY DEF NoSessions, Sessions
<1>2. Default \in States
  BY <1>1 DEF Default, States
<1>3. 0 \in 0..Debounce - 1 /\ 0 \in 0..MaxPrompts /\ 0 \in 0..MaxStops
  OBVIOUS
<1>4. queue \in Seq(Updates) /\ Len(queue) <= QueueCap
  OBVIOUS
<1> QED
  BY <1>1, <1>2, <1>3, <1>4 DEF TypeOK

(* A write of the state file leaves a state of the right type.             *)
LEMMA PersistType ==
  ASSUME NEW s \in States, TypeOK, Persist(s)
  PROVE  disk' \in States /\ since' \in 0..Debounce - 1 /\ failed' \in BOOLEAN
<1>1. disk \in States
  BY DEF TypeOK
<1>2. disk' \in States /\ failed' \in BOOLEAN
  BY <1>1 DEF Persist
<1>3. since' \in 0..Debounce - 1
  BY Limits DEF Persist
<1> QED
  BY <1>2, <1>3

(* The channel after route_command has offered the marker and the binding. *)
LEMMA RouteQueue ==
  ASSUME TypeOK, RouteCommand
  PROVE  queue' \in Seq(Updates) /\ Len(queue') <= QueueCap
<1> DEFINE q == IF dirtySent THEN queue ELSE Offer(queue, MarkDirty)
<1>1. q \in Seq(Updates) /\ Len(q) <= QueueCap
  BY OfferFacts, SmallUpdates DEF TypeOK
<1>2. queue' = IF cur \in Chats \ wake THEN Offer(q, Bind(cur)) ELSE q
  BY DEF RouteCommand
<1> HIDE DEF q
<1> QED
  BY <1>1, <1>2, OfferFacts, SmallUpdates

LEMMA TypeNext == TypeOK /\ [Next]_vars => TypeOK'
<1> SUFFICES ASSUME TypeOK, [Next]_vars PROVE TypeOK'
  OBVIOUS
<1> USE Limits
<1>1. CASE Boot
  <2>1. store' \in States
    BY <1>1, AppliedType, SmallUpdates DEF Boot, TypeOK
  <2>2. wake' \subseteq Chats /\ registry' \in Sessions /\ startup' \in BOOLEAN
    BY <1>1 DEF Boot, TypeOK, States
  <2>3. queue' \in Seq(Updates) /\ Len(queue') <= QueueCap
    BY <1>1 DEF Boot
  <2>4. since' \in 0..Debounce - 1
    BY <1>1 DEF Boot
  <2> QED
    BY <1>1, <2>1, <2>2, <2>3, <2>4 DEF Boot, TypeOK
<1>2. CASE SelectState
  <2>1. Head(queue) \in Updates /\ Tail(queue) \in Seq(Updates) /\ Len(Tail(queue)) <= QueueCap
    BY <1>2 DEF SelectState, TypeOK
  <2>2. store' \in States
    BY <1>2, <2>1, AppliedType DEF SelectState, TypeOK
  <2>3. disk' \in States /\ since' \in 0..Debounce - 1 /\ failed' \in BOOLEAN
    BY <1>2, <2>2, PersistType DEF SelectState, TypeOK
  <2>4. wake' \subseteq Chats
    <3>1. Head(queue).kind = "bind" => Head(queue).chat \in Chats
      BY <2>1, UpdateCases DEF Bind, Watermark, MarkDirty, Tick, Batch
    <3> QED
      BY <1>2, <3>1 DEF SelectState, TypeOK
  <2> QED
    BY <1>2, <2>1, <2>2, <2>3, <2>4 DEF SelectState, TypeOK
<1>3. CASE SelectCommand \/ SelectCtrlC \/ Stop
  BY <1>3 DEF SelectCommand, SelectCtrlC, Stop, TypeOK
<1>4. CASE SelectTick
  BY <1>4, OfferFacts, SmallUpdates DEF SelectTick, TypeOK
<1>5. CASE RouteCommand
  BY <1>5, RouteQueue DEF RouteCommand, TypeOK
<1>6. CASE \E k \in Names : PersistNamedSession(k)
  <2> PICK k \in Names : PersistNamedSession(k)
    BY <1>6
  <2> DEFINE b == Batch(Evicted(k), k, prompts + 1)
  <2>1. b \in Updates
    BY EvictedType, BatchUpdate DEF PersistNamedSession, TypeOK
  <2>2. Upsert(registry, b) \in Sessions
    <3>1. prompts + 1 \in 1..MaxPrompts /\ registry \in Sessions
      BY DEF PersistNamedSession, TypeOK
    <3> QED
      BY <3>1, EvictedType, UpsertType
  <2> HIDE DEF b
  <2>3. /\ queue' = Append(queue, b) /\ Room /\ registry' = Upsert(registry, b)
        \/ UNCHANGED <<queue, registry>>
    BY DEF PersistNamedSession, b
  <2>4. /\ queue' \in Seq(Updates) /\ Len(queue') <= QueueCap
        /\ registry' \in Sessions
    BY <2>1, <2>2, <2>3 DEF Room, TypeOK
  <2> QED
    BY <2>4 DEF PersistNamedSession, TypeOK
<1>7. CASE MarkCleanShutdown
  <2>1. store' \in States
    BY <1>7 DEF MarkCleanShutdown, TypeOK, States
  <2>2. disk' \in States /\ since' \in 0..Debounce - 1 /\ failed' \in BOOLEAN
    BY <1>7, <2>1, PersistType DEF MarkCleanShutdown
  <2> QED
    BY <1>7, <2>1, <2>2 DEF MarkCleanShutdown, TypeOK
<1>8. CASE \E n \in 1..MaxMark : PublishWatermark(n)
  BY <1>8, SmallUpdates DEF PublishWatermark, Room, TypeOK
<1>9. CASE UNCHANGED vars
  BY <1>9 DEF vars, TypeOK
<1> QED
  BY <1>1, <1>2, <1>3, <1>4, <1>5, <1>6, <1>7, <1>8, <1>9 DEF Next

(* Every variable of the persisted state keeps its type.                   *)
THEOREM Typing == Spec => []TypeOK
  BY TypeInit, TypeNext, PTL DEF Spec

------------------------------------------------------------------------------
(* The restart banner.  In memory the flag is down as long as main works,  *)
(* so whatever is written meanwhile is dirty.                              *)
MarkedDirty ==
  /\ phase \in {"select", "route", "prompt", "drain"} => ~store.clean
  /\ CleanFlagExact

LEMMA MarkedDirtyInit == Init => MarkedDirty
  BY DEF Init, MarkedDirty, CleanFlagExact

LEMMA MarkedDirtyNext == TypeOK /\ MarkedDirty /\ [Next]_vars => MarkedDirty'
<1> SUFFICES ASSUME TypeOK, MarkedDirty, [Next]_vars PROVE MarkedDirty'
  OBVIOUS
<1> USE DEF MarkedDirty, CleanFlagExact
<1>1. CASE Boot
  <2>1. ~Applied(disk, MarkDirty).clean
    BY AppliedForms DEF TypeOK, States
  <2> QED
    BY <1>1, <2>1 DEF Boot
<1>2. CASE SelectState
  <2>1. ~store.clean => ~Applied(store, Head(queue)).clean
    BY <1>2, AppliedType DEF SelectState, TypeOK
  <2> QED
    BY <1>2, <2>1 DEF SelectState, Persist
<1>3. CASE SelectCommand \/ SelectCtrlC \/ SelectTick \/ Stop \/ RouteCommand
  BY <1>3 DEF SelectCommand, SelectCtrlC, SelectTick, Stop, RouteCommand
<1>4. CASE \E k \in Names : PersistNamedSession(k)
  BY <1>4 DEF PersistNamedSession
<1>5. CASE MarkCleanShutdown
  <2>1. store'.clean = TRUE
    BY <1>5 DEF MarkCleanShutdown, TypeOK, States
  <2> QED
    BY <1>5, <2>1 DEF MarkCleanShutdown, Persist
<1>6. CASE \E n \in 1..MaxMark : PublishWatermark(n)
  BY <1>6 DEF PublishWatermark
<1>7. CASE UNCHANGED vars
  BY <1>7 DEF vars
<1> QED
  BY <1>1, <1>2, <1>3, <1>4, <1>5, <1>6, <1>7 DEF Next

(* The flag on disk tells a clean stop from a crash, whatever fails and    *)
(* whenever the process ends.                                              *)
THEOREM CleanFlagIsExact == Spec => []CleanFlagExact
<1>1. MarkedDirty => CleanFlagExact
  BY DEF MarkedDirty
<1> QED
  BY <1>1, Typing, MarkedDirtyInit, MarkedDirtyNext, PTL DEF Spec

------------------------------------------------------------------------------
(* What the disk may lack of the store.                                    *)
DiskBehind ==
  /\ ForcedIsDurable
  /\ phase # "down" => disk.mark <= store.mark

LEMMA DiskBehindInit == Init => DiskBehind
  BY DEF Init, DiskBehind, ForcedIsDurable

LEMMA MarksAreNumbers == TypeOK => disk.mark \in Nat /\ store.mark \in Nat
  BY Limits DEF TypeOK, States

LEMMA DiskBehindNext ==
  TypeOK /\ DiskBehind /\ [Next]_vars => DiskBehind' /\ disk'.mark >= disk.mark
<1> SUFFICES ASSUME TypeOK, DiskBehind, [Next]_vars
             PROVE  DiskBehind' /\ disk'.mark >= disk.mark
  OBVIOUS
<1> USE MarksAreNumbers DEF DiskBehind, ForcedIsDurable
<1>1. CASE Boot
  <2>1. Applied(disk, MarkDirty).mark = disk.mark
    BY AppliedForms DEF TypeOK, States
  <2> QED
    BY <1>1, <2>1 DEF Boot
<1>2. CASE SelectState
  <2> DEFINE u == Head(queue)
  <2>1. u \in Updates /\ store \in States
    BY <1>2 DEF SelectState, TypeOK
  <2>2. store'.mark \in Nat /\ store'.mark >= store.mark
    BY <1>2, <2>1, AppliedType, Limits DEF SelectState, States
  <2>3. CASE Persist(store')
    BY <1>2, <2>2, <2>3 DEF SelectState, Persist
  <2>4. CASE ~IsForcePersist(u) /\ UNCHANGED <<disk, failed>>
    <3>1. store'.sessions = store.sessions /\ store'.mark = store.mark
      BY <1>2, <2>1, <2>4, AppliedUnforced DEF SelectState
    <3> QED
      BY <1>2, <2>4, <3>1 DEF SelectState
  <2> QED
    BY <1>2, <2>3, <2>4 DEF SelectState
<1>3. CASE SelectCommand \/ SelectCtrlC \/ SelectTick \/ Stop \/ RouteCommand
  BY <1>3 DEF SelectCommand, SelectCtrlC, SelectTick, Stop, RouteCommand
<1>4. CASE \E k \in Names : PersistNamedSession(k)
  BY <1>4 DEF PersistNamedSession
<1>5. CASE MarkCleanShutdown
  <2>1. store'.mark = store.mark /\ store'.sessions = store.sessions
    BY <1>5 DEF MarkCleanShutdown, TypeOK, States
  <2>2. phase # "down" /\ (disk' = store' \/ (disk' = disk /\ failed'))
    BY <1>5 DEF MarkCleanShutdown, Persist
  <2>3. disk.mark <= store.mark
    BY <2>2
  <2>4. CASE disk' = store'
    BY <2>1, <2>3, <2>4
  <2>5. CASE disk' = disk /\ failed'
    BY <2>1, <2>3, <2>5
  <2> QED
    BY <2>2, <2>4, <2>5
<1>6. CASE \E n \in 1..MaxMark : PublishWatermark(n)
  BY <1>6 DEF PublishWatermark
<1>7. CASE UNCHANGED vars
  BY <1>7 DEF vars
<1> QED
  BY <1>1, <1>2, <1>3, <1>4, <1>5, <1>6, <1>7 DEF Next

(* Named sessions and watermarks are on disk as soon as they are applied.  *)
THEOREM ForcedUpdatesAreDurable == Spec => []ForcedIsDurable
<1>1. DiskBehind => ForcedIsDurable
  BY DEF DiskBehind
<1> QED
  BY <1>1, Typing, DiskBehindInit, DiskBehindNext, PTL DEF Spec

(* The persisted watermark only advances, in whatever order live messages  *)
(* and a catchup publish, and across crashes.                              *)
THEOREM WatermarkAdvances == Spec => WatermarkNeverRegresses
<1>1. TypeOK /\ DiskBehind /\ [Next]_vars => [disk'.mark >= disk.mark]_vars
  BY DiskBehindNext
<1> QED
  BY <1>1, Typing, DiskBehindInit, DiskBehindNext, PTL DEF Spec, WatermarkNeverRegresses

------------------------------------------------------------------------------
(* The index of named sessions.  What the channel q and the applied        *)
(* sessions s will make of a name is what the index r says of it.          *)
Last(q, i, k) ==
  Touches(q[i], k) /\ \A j \in DOMAIN q : j > i => ~Touches(q[j], k)

Value(u, k) == IF k = u.name THEN u.stamp ELSE 0

Agrees(q, r, s) ==
  \A k \in Names :
    /\ \A i \in DOMAIN q : Last(q, i, k) => r[k] = Value(q[i], k)
    /\ (\A i \in DOMAIN q : ~Touches(q[i], k)) => r[k] = s[k]

LEMMA NoDriftAgrees == NoDrift <=> (phase # "down" => Agrees(queue, registry, store.sessions))
  BY DEF NoDrift, Decides, Agrees, Last, Value

(* main applies the head of the channel.                                   *)
LEMMA AgreesTail ==
  ASSUME NEW q \in Seq(Updates), q # <<>>, NEW r, NEW s \in States, Agrees(q, r, s.sessions)
  PROVE  Agrees(Tail(q), r, Applied(s, Head(q)).sessions)
<1> DEFINE t == Tail(q)
           a == Applied(s, Head(q)).sessions
<1>1. /\ Head(q) \in Updates /\ Head(q) = q[1] /\ 1 \in DOMAIN q
      /\ \A i \in DOMAIN t : i + 1 \in DOMAIN q /\ t[i] = q[i + 1]
      /\ \A i \in DOMAIN q : i # 1 => i - 1 \in DOMAIN t /\ q[i] = t[i - 1] /\ i > 1
      /\ DOMAIN t \subseteq Nat /\ DOMAIN q \subseteq Nat
  OBVIOUS
<1> HIDE DEF t
<1> SUFFICES ASSUME NEW k \in Names
             PROVE  /\ \A i \in DOMAIN t : Last(t, i, k) => r[k] = Value(t[i], k)
                    /\ (\A i \in DOMAIN t : ~Touches(t[i], k)) => r[k] = a[k]
  BY DEF Agrees, t
<1>2. ASSUME NEW i \in DOMAIN t, Last(t, i, k) PROVE r[k] = Value(t[i], k)
  <2>1. Touches(q[i + 1], k)
    BY <1>1, <1>2 DEF Last
  <2>2. ASSUME NEW j \in DOMAIN q, j > i + 1 PROVE ~Touches(q[j], k)
    <3>1. j - 1 \in DOMAIN t /\ q[j] = t[j - 1] /\ j - 1 > i
      BY <1>1, <2>2
    <3> QED
      BY <1>2, <3>1 DEF Last
  <2>3. Last(q, i + 1, k)
    BY <2>1, <2>2 DEF Last
  <2> QED
    BY <1>1, <2>3 DEF Agrees
<1>3. ASSUME \A i \in DOMAIN t : ~Touches(t[i], k) PROVE r[k] = a[k]
  <2>1. \A i \in DOMAIN q : i # 1 => ~Touches(q[i], k)
    BY <1>1, <1>3
  <2>2. CASE Touches(q[1], k)
    <3>1. Last(q, 1, k)
      BY <1>1, <2>1, <2>2 DEF Last
    <3>2. r[k] = Value(q[1], k)
      BY <1>1, <3>1 DEF Agrees
    <3> QED
      BY <1>1, <2>2, <3>2, AppliedSessions DEF Value
  <2>3. CASE ~Touches(q[1], k)
    <3>1. r[k] = s.sessions[k]
      BY <2>1, <2>3 DEF Agrees
    <3> QED
      BY <1>1, <2>3, <3>1, AppliedSessions
  <2> QED
    BY <2>2, <2>3
<1> QED
  BY <1>2, <1>3

LEMMA AppendFacts ==
  ASSUME NEW q \in Seq(Updates), NEW u \in Updates
  PROVE  /\ DOMAIN Append(q, u) = DOMAIN q \cup {Len(q) + 1}
         /\ \A i \in DOMAIN q : Append(q, u)[i] = q[i] /\ i < Len(q) + 1
         /\ Append(q, u)[Len(q) + 1] = u
         /\ Len(q) \in Nat /\ DOMAIN q \subseteq Nat
  OBVIOUS

(* The channel takes an update that touches no name.                       *)
LEMMA AgreesAppend ==
  ASSUME NEW q \in Seq(Updates), NEW u \in Updates, u.kind # "batch",
         NEW r, NEW s, Agrees(q, r, s)
  PROVE  Agrees(Append(q, u), r, s)
<1> DEFINE p == Append(q, u)
<1>1. \A k \in Names : ~Touches(u, k)
  BY DEF Touches
<1>2. /\ DOMAIN p = DOMAIN q \cup {Len(q) + 1}
      /\ \A i \in DOMAIN q : p[i] = q[i]
      /\ p[Len(q) + 1] = u
  BY AppendFacts
<1> HIDE DEF p
<1>3. \A k \in Names, i \in DOMAIN p : Last(p, i, k) => i \in DOMAIN q /\ Last(q, i, k)
  BY <1>1, <1>2 DEF Last
<1>4. \A k \in Names :
        (\A i \in DOMAIN p : ~Touches(p[i], k)) => \A i \in DOMAIN q : ~Touches(q[i], k)
  BY <1>2
<1>5. Agrees(p, r, s)
  BY <1>2, <1>3, <1>4 DEF Agrees
<1> QED
  BY <1>5 DEF p

(* The channel takes a batch and the index follows.                        *)
LEMMA AgreesBatch ==
  ASSUME NEW q \in Seq(Updates), NEW u \in Updates, u.kind = "batch",
         NEW r \in Sessions, NEW s, Agrees(q, r, s)
  PROVE  Agrees(Append(q, u), Upsert(r, u), s)
<1> DEFINE p == Append(q, u)
           n == Len(q) + 1
<1>1. /\ DOMAIN p = DOMAIN q \cup {n} /\ n \in Nat /\ DOMAIN q \subseteq Nat
      /\ \A i \in DOMAIN q : p[i] = q[i] /\ n > i
      /\ p[n] = u
  BY AppendFacts
<1>2. \A k \in Names :
        Upsert(r, u)[k] = IF k = u.name THEN u.stamp ELSE IF k \in u.out THEN 0 ELSE r[k]
  BY DEF Upsert
<1> HIDE DEF p, n
<1> SUFFICES ASSUME NEW k \in Names
             PROVE  /\ \A i \in DOMAIN p : Last(p, i, k) => Upsert(r, u)[k] = Value(p[i], k)
                    /\ (\A i \in DOMAIN p : ~Touches(p[i], k)) => Upsert(r, u)[k] = s[k]
  BY DEF Agrees, p
<1>3. CASE Touches(u, k)
  <2>1. Upsert(r, u)[k] = Value(u, k)
    BY <1>2, <1>3 DEF Touches, Value
  <2>2. \A i \in DOMAIN p : Last(p, i, k) => i = n
    BY <1>1, <1>3 DEF Last
  <2> QED
    BY <1>1, <1>3, <2>1, <2>2
<1>4. CASE ~Touches(u, k)
  <2>1. Upsert(r, u)[k] = r[k]
    BY <1>2, <1>4 DEF Touches
  <2>2. \A i \in DOMAIN p : Last(p, i, k) => i \in DOMAIN q /\ Last(q, i, k)
    BY <1>1, <1>4 DEF Last
  <2> QED
    BY <1>1, <2>1, <2>2 DEF Agrees
<1> QED
  BY <1>3, <1>4

LEMMA SmallKinds ==
  /\ MarkDirty.kind # "batch" /\ Tick.kind # "batch"
  /\ \A c \in Chats : Bind(c).kind # "batch"
  /\ \A n \in 1..MaxMark : Watermark(n).kind # "batch"
  BY DEF MarkDirty, Tick, Bind, Watermark

LEMMA AgreesOffer ==
  ASSUME NEW q \in Seq(Updates), NEW u \in Updates, u.kind # "batch",
         NEW r, NEW s, Agrees(q, r, s)
  PROVE  Agrees(Offer(q, u), r, s)
  BY AgreesAppend DEF Offer

(* What the channel still holds when main stops reading it.                *)
NoBatchLeft ==
  phase \in {"drain", "stopped"} => \A i \in DOMAIN queue : queue[i].kind # "batch"

Bookkeeping ==
  /\ phase # "down" => Agrees(queue, registry, store.sessions)
  /\ NoBatchLeft

LEMMA BookkeepingInit == Init => Bookkeeping
  BY DEF Init, Bookkeeping, NoBatchLeft

LEMMA BookkeepingNext == TypeOK /\ Bookkeeping /\ [Next]_vars => Bookkeeping'
<1> SUFFICES ASSUME TypeOK, Bookkeeping, [Next]_vars PROVE Bookkeeping'
  OBVIOUS
<1> USE DEF Bookkeeping, NoBatchLeft
<1>0. queue \in Seq(Updates) /\ store \in States /\ disk \in States /\ registry \in Sessions
  BY DEF TypeOK
<1>1. CASE Boot
  <2>1. store'.sessions = disk.sessions
    BY <1>0, <1>1, AppliedForms DEF Boot, States
  <2>2. queue' = <<>> /\ registry' = disk.sessions /\ phase' = "select"
    BY <1>1 DEF Boot
  <2>3. Agrees(<<>>, disk.sessions, disk.sessions)
    BY DEF Agrees
  <2> QED
    BY <2>1, <2>2, <2>3
<1>2. CASE SelectState
  <2>1. /\ queue # <<>> /\ queue' = Tail(queue) /\ registry' = registry
        /\ store' = Applied(store, Head(queue)) /\ phase = "select" /\ phase' = "select"
    BY <1>2 DEF SelectState
  <2> QED
    BY <1>0, <2>1, AgreesTail
<1>3. CASE SelectCommand \/ SelectCtrlC \/ Stop
  BY <1>3 DEF SelectCommand, SelectCtrlC, Stop, Drained
<1>4. CASE SelectTick
  <2>1. /\ queue' = Offer(queue, Tick) /\ phase = "select" /\ phase' = "select"
        /\ store' = store /\ registry' = registry
    BY <1>4 DEF SelectTick
  <2> QED
    BY <1>0, <2>1, AgreesOffer, SmallUpdates, SmallKinds
<1>5. CASE RouteCommand
  <2> DEFINE q == IF dirtySent THEN queue ELSE Offer(queue, MarkDirty)
  <2>1. /\ queue' = IF cur \in Chats \ wake THEN Offer(q, Bind(cur)) ELSE q
        /\ phase = "route" /\ phase' \in {"select", "prompt"}
        /\ store' = store /\ registry' = registry
    BY <1>5 DEF RouteCommand
  <2>2. q \in Seq(Updates)
    BY <1>0, OfferFacts, SmallUpdates DEF TypeOK
  <2>3. Agrees(q, registry, store.sessions)
    BY <1>0, <2>1, AgreesOffer, SmallUpdates, SmallKinds
  <2> HIDE DEF q
  <2>4. Agrees(queue', registry, store.sessions)
    BY <2>1, <2>2, <2>3, AgreesOffer, SmallUpdates, SmallKinds
  <2> QED
    BY <2>1, <2>4
<1>6. CASE \E k \in Names : PersistNamedSession(k)
  <2> PICK k \in Names : PersistNamedSession(k)
    BY <1>6
  <2> DEFINE b == Batch(Evicted(k), k, prompts + 1)
  <2>1. b \in Updates /\ b.kind = "batch"
    <3>1. prompts + 1 \in 1..MaxPrompts
      BY Limits DEF PersistNamedSession, TypeOK
    <3> QED
      BY <3>1, EvictedType, BatchUpdate DEF Batch
  <2> HIDE DEF b
  <2>2. /\ phase = "prompt" /\ phase' = "select" /\ store' = store
        /\ \/ queue' = Append(queue, b) /\ registry' = Upsert(registry, b)
           \/ UNCHANGED <<queue, registry>>
    BY DEF PersistNamedSession, b
  <2> QED
    BY <1>0, <2>1, <2>2, AgreesBatch
<1>7. CASE MarkCleanShutdown
  <2>1. store'.sessions = store.sessions
    BY <1>0, <1>7 DEF MarkCleanShutdown, States
  <2> QED
    BY <1>7, <2>1 DEF MarkCleanShutdown
<1>8. CASE \E n \in 1..MaxMark : PublishWatermark(n)
  <2> PICK n \in 1..MaxMark : PublishWatermark(n)
    BY <1>8
  <2>1. /\ queue' = Append(queue, Watermark(n)) /\ phase # "down" /\ phase' = phase
        /\ store' = store /\ registry' = registry
    BY DEF PublishWatermark
  <2>2. Watermark(n) \in Updates /\ Watermark(n).kind # "batch"
    BY SmallUpdates, SmallKinds
  <2>3. Agrees(queue', registry', store'.sessions)
    BY <1>0, <2>1, <2>2, AgreesAppend
  <2>4. NoBatchLeft'
    BY <1>0, <2>1, <2>2, AppendFacts
  <2> QED
    BY <2>3, <2>4
<1>9. CASE UNCHANGED vars
  BY <1>9 DEF vars
<1> QED
  BY <1>1, <1>2, <1>3, <1>4, <1>5, <1>6, <1>7, <1>8, <1>9 DEF Next

(* The index of named sessions never drifts from the store, whatever the   *)
(* channel drops and wherever the process crashes.                         *)
THEOREM IndexNeverDrifts == Spec => []NoDrift
<1>1. Bookkeeping => NoDrift
  BY NoDriftAgrees DEF Bookkeeping
<1> QED
  BY <1>1, Typing, BookkeepingInit, BookkeepingNext, PTL DEF Spec

(* With no batch left in the channel the index is the store's, and the     *)
(* store's sessions are on disk.                                           *)
THEOREM CleanStopIsComplete == Spec => []CleanStopKeepsSessions
<1>1. TypeOK /\ Bookkeeping /\ DiskBehind => CleanStopKeepsSessions
  <2> SUFFICES ASSUME TypeOK, Bookkeeping, DiskBehind, phase = "stopped", ~failed
               PROVE  disk.sessions = registry
    BY DEF CleanStopKeepsSessions
  <2>1. \A k \in Names, i \in DOMAIN queue : ~Touches(queue[i], k)
    BY DEF Bookkeeping, NoBatchLeft, Touches
  <2>2. \A k \in Names : registry[k] = store.sessions[k]
    BY <2>1 DEF Bookkeeping, Agrees
  <2>3. registry = store.sessions
    BY <2>2 DEF TypeOK, States, Sessions
  <2> QED
    BY <2>3 DEF DiskBehind, ForcedIsDurable
<1> QED
  BY <1>1, Typing, BookkeepingInit, BookkeepingNext, DiskBehindInit, DiskBehindNext, PTL DEF Spec
==============================================================================
