-------------------------- MODULE GapRecovery_proofs --------------------------
(***************************************************************************)
(* NoStaleAck and ToldOrMarked for any chats, platforms, gaps, capacity of *)
(* the broadcast channel, lags and failures.                               *)
(*                                                                         *)
(*   Inv      what becomes of a chat while handle_gap runs: its receiver   *)
(*            opens, fires or is late, and who is late is gone through.    *)
(*   Account  what becomes of a banner: it is broadcast once, so a task    *)
(*            sends it at most once, and the ack the task resolves with it *)
(*            is the only one it pays for, whichever gap installed it.     *)
(***************************************************************************)
EXTENDS GapRecovery, FiniteSetTheorems, TLAPS

Types ==
  /\ pending \in [Chats -> Gaps] /\ rx \in [Chats -> {"none", "open", "fired", "late"}]
  /\ counted \in [Chats -> SUBSET Gaps] /\ owed \in [Chats -> Gaps]
  /\ gap \in Gaps /\ active \subseteq Chats

(* A sender in pending_acks has a receiver that waits, or a chat that the  *)
(* fallback loop has still to come to.                                     *)
Senders ==
  \A c \in Chats : pending[c] # 0 =>
    \/ pc \in {"broadcast", "await"} /\ rx[c] \in {"open", "late"}
    \/ pc \in {"fallback", "forget"} /\ c \in left

(* A chat known when the gap began is waited for, late, or told.           *)
Known ==
  \A c \in active :
    /\ pc \in {"broadcast", "await"} => rx[c] # "none"
    /\ pc \in {"fallback", "forget"} =>
         (c \in left /\ rx[c] = "late") \/ gap \in counted[c] \cup {owed[c]}

Inv == Types /\ Senders /\ Known

LEMMA InitInv == Init => Inv
  BY BoundsAssumption DEF Init, Inv, Types, Senders, Known, Gaps

(* Outside handle_gap.                                                     *)
LEMMA LoopInv ==
  ASSUME Inv,
         \/ \E c \in Chats : StartupBanner(c) \/ Command(c)
         \/ StartupDone \/ GapDetected
         \/ \E e \in {Message, Exited} : Output(e)
  PROVE  Inv'
<1> USE DEF Inv, Types, Senders, Known, Goes, ackVars, mainVars, histVars
<1>1. CASE \E c \in Chats : StartupBanner(c)
  BY <1>1, BoundsAssumption DEF StartupBanner, Gaps
<1>2. CASE \E c \in Chats : Command(c)
  BY <1>2 DEF Command
<1>3. CASE StartupDone
  BY <1>3 DEF StartupDone
<1>4. CASE GapDetected
  BY <1>4, BoundsAssumption DEF GapDetected, Gaps
<1>5. CASE \E e \in {Message, Exited} : Output(e)
  BY <1>5 DEF Output
<1> QED  BY <1>1, <1>2, <1>3, <1>4, <1>5

LEMMA HandleGapInv ==
  ASSUME Inv, HandleGap
  PROVE  Inv'
<1> USE DEF Inv, Types, Senders, Known, Goes, ackVars, mainVars, histVars
<1>1. CASE InstallPending
  BY <1>1 DEF InstallPending
<1>2. CASE \E c \in Chats : BroadcastBanner(c)
  BY <1>2 DEF BroadcastBanner
<1>3. CASE BroadcastDone
  BY <1>3 DEF BroadcastDone
<1>4. CASE \E c \in Chats : AckTimeout(c)
  BY <1>4 DEF AckTimeout
<1>5. CASE AwaitDone
  BY <1>5 DEF AwaitDone
<1>6. CASE \E c \in Chats : FallbackPrefix(c)
  BY <1>6 DEF FallbackPrefix
<1>7. CASE \E c \in Chats : FallbackForget(c)
  BY <1>7, BoundsAssumption DEF FallbackForget, Gaps
<1>8. CASE SpawnAndResume
  BY <1>8 DEF SpawnAndResume
<1> QED
  BY <1>1, <1>2, <1>3, <1>4, <1>5, <1>6, <1>7, <1>8 DEF HandleGap

(* Of what the delivery tasks do, only an ack that is resolved matters.    *)
LEMMA DeliveryInv ==
  ASSUME Inv, NEW p \in Platforms, Delivery(p) \/ CatchupEnds(p)
  PROVE  Inv'
<1> USE DEF Inv, Types, Senders, Known, ackVars, mainVars, histVars
<1>1. CASE ResolveAck(p)
  <2> DEFINE c == hand[p].chat
  <2>1. PICK r \in {"none", "open", "fired", "late"} :
          /\ pending' = [pending EXCEPT ![c] = 0] /\ rx' = [rx EXCEPT ![c] = r]
          /\ c \in Chats => r = rx[c] \/ (rx[c] = "open" /\ r = "fired")
    <3>1. CASE c \in Chats
      BY <1>1, <3>1 DEF ResolveAck
    <3>2. CASE c \notin Chats
      BY <1>1, <3>2 DEF ResolveAck
    <3> QED  BY <3>1, <3>2
  <2> HIDE DEF c
  <2>2. UNCHANGED <<pc, left, gap, active, counted, owed>>
    BY <1>1 DEF ResolveAck
  <2>3. 0 \in Gaps
    BY BoundsAssumption DEF Gaps
  <2>4. Types'
    BY <2>1, <2>2, <2>3
  <2>5. \A d \in Chats : /\ pending'[d] = pending[d] \/ pending'[d] = 0
                         /\ d # c => pending'[d] = pending[d] /\ rx'[d] = rx[d]
                         /\ d = c => pending'[d] = 0
                         /\ rx'[d] = rx[d] \/ (rx[d] = "open" /\ rx'[d] = "fired")
    BY <2>1
  <2> QED  BY <2>2, <2>4, <2>5
<1>2. CASE \/ ReceiveStarted(p) \/ ReceiveExited(p) \/ ReceiveMessage(p)
           \/ ReceiveBanner(p) \/ CatchupEnds(p)
  BY <1>2 DEF ReceiveStarted, ReceiveExited, ReceiveMessage, ReceiveBanner, CatchupEnds
<1>3. CASE TextSent(p) \/ BannerSent(p)
  BY <1>3 DEF TextSent, BannerSent
<1> QED
  BY <1>1, <1>2, <1>3 DEF Delivery

LEMMA NextInv == Inv /\ [Next]_vars => Inv'
<1>1. Inv /\ UNCHANGED vars => Inv'
  BY DEF Inv, Types, Senders, Known, vars, mainVars, ackVars, histVars
<1> QED
  BY <1>1, LoopInv, HandleGapInv, DeliveryInv DEF Next, Main

LEMMA Invariance == Spec => []Inv
  BY InitInv, NextInv, PTL DEF Spec

(* wake.rs takes every ack that timed out from the map again, so no ack of *)
(* one gap resolves that of a later one.                                   *)
THEOREM NoAckIsStale == Spec => []NoStaleAck
<1>1. Inv => NoStaleAck
  BY DEF Inv, Senders, NoStaleAck
<1> QED
  BY <1>1, Invariance, PTL

(* handle_gap (wake.rs) goes through every chat it knew.                   *)
THEOREM NoChatLeftOut == Spec => []NobodyLeftOut
<1>1. Inv => NobodyLeftOut
  BY DEF Inv, Known, NobodyLeftOut
<1> QED
  BY <1>1, Invariance, PTL
------------------------------------------------------------------------------
(* The banners of a chat, each broadcast once, are in the channel of its   *)
(* platform's task, in that task's hand, or came.                          *)
Queued(q, c, g) == \E i \in 1..Len(q) : q[i] = Banner(c, g)

Sound(q, h, B, c, g) ==
  /\ \A i, j \in 1..Len(q) : q[i] = Banner(c, g) /\ q[j] = Banner(c, g) => i = j
  /\ Queued(q, c, g) => g \notin B /\ h # SendBanner(c, g)
  /\ h = SendBanner(c, g) => g \notin B

Out(q, h, B, c, g) == Queued(q, c, g) \/ h = SendBanner(c, g) \/ g \in B

(* The banner of gap g was broadcast to c.                                 *)
Broadcasted(c, g) ==
  \/ g < gap
  \/ /\ g = gap
     /\ pc = "start" => c \in left
     /\ pc = "broadcast" => c \notin left
     /\ pc # "install"

Fresh ==
  \A c \in Chats, g \in 1..MaxGaps :
    LET q == events[PlatformOf[c]]
        h == hand[PlatformOf[c]]
    IN  /\ Sound(q, h, banners[c], c, g)
        /\ Out(q, h, banners[c], c, g) => Broadcasted(c, g)

HandTypes ==
  /\ events \in [Platforms -> Seq(Events)]
  /\ hand \in [Platforms -> Hands] /\ home \in [Platforms -> Chats \cup {NoChat}]
  /\ prefixes \in [Chats -> Gaps] /\ banners \in [Chats -> SUBSET Gaps]
  /\ \A p \in Platforms, c \in Chats : hand[p] = Resolve(c) => PlatformOf[c] = p

(* Each banner that came pays for one ack: the one its task is about to    *)
(* resolve, the one that fired, or the gap that was counted for it.        *)
Paid(K, r, h, B, c) ==
  /\ r # "fired" /\ h # Resolve(c) => Cardinality(K) <= Cardinality(B)
  /\ r = "fired" \/ h = Resolve(c) => Cardinality(K) + 1 <= Cardinality(B)
  /\ r = "fired" /\ h = Resolve(c) => Cardinality(K) + 2 <= Cardinality(B)

AllPaid == \A c \in Chats : Paid(counted[c], rx[c], hand[PlatformOf[c]], banners[c], c)

(* The gap of an unclean restart is the first.                             *)
Numbered == /\ pc = "start" => gap \in {0, 1}
            /\ pc \in {"install", "broadcast"} => gap # 0

Account == HandTypes /\ Fresh /\ AllPaid /\ Numbered

LEMMA GapsFinite ==
  ASSUME NEW S \in SUBSET Gaps
  PROVE  IsFiniteSet(S) /\ Cardinality(S) \in Nat
<1>1. IsFiniteSet(Gaps)
  BY FS_Interval, BoundsAssumption DEF Gaps
<1> QED  BY <1>1, FS_Subset, FS_CardinalityType

LEMMA OneMore ==
  ASSUME NEW S \in SUBSET Gaps, NEW g
  PROVE  /\ Cardinality(S) <= Cardinality(S \cup {g})
         /\ Cardinality(S \cup {g}) <= Cardinality(S) + 1
         /\ g \notin S => Cardinality(S \cup {g}) = Cardinality(S) + 1
<1>1. IsFiniteSet(S) /\ Cardinality(S) \in Nat
  BY GapsFinite
<1>2. Cardinality(S \cup {g}) = IF g \in S THEN Cardinality(S) ELSE Cardinality(S) + 1
  BY <1>1, FS_AddElement
<1> QED  BY <1>1, <1>2

LEMMA HandOf ==
  ASSUME NEW h \in Hands
  PROVE  /\ h.do = "banner" => \E c \in Chats, g \in 1..MaxGaps : h = SendBanner(c, g)
         /\ h.do = "resolve" => \E c \in Chats : h = Resolve(c)
  BY DEF Hands, Idle, SendText, SendBanner, Resolve

LEMMA HandsDiffer ==
  ASSUME NEW c, NEW g
  PROVE  /\ Idle # SendBanner(c, g) /\ Idle # Resolve(c)
         /\ \A d, k : /\ SendText(d, k) # SendBanner(c, g) /\ SendText(d, k) # Resolve(c)
                      /\ Resolve(d) # SendBanner(c, g)
                      /\ Resolve(d) = Resolve(c) => d = c
                      /\ SendBanner(d, k) # Resolve(c)
                      /\ SendBanner(d, k) = SendBanner(c, g) => d = c /\ k = g
<1>1. /\ Idle.do = "idle" /\ SendBanner(c, g).do = "banner" /\ Resolve(c).do = "resolve"
      /\ Resolve(c).chat = c /\ SendBanner(c, g).chat = c /\ SendBanner(c, g).gap = g
  BY DEF Idle, SendBanner, Resolve
<1>2. \A d, k : /\ SendText(d, k).do = "text" /\ Resolve(d).do = "resolve" /\ Resolve(d).chat = d
                /\ SendBanner(d, k).do = "banner" /\ SendBanner(d, k).chat = d
                /\ SendBanner(d, k).gap = k
  BY DEF SendText, SendBanner, Resolve
<1> QED  BY <1>1, <1>2

LEMMA EventOf ==
  ASSUME NEW e \in Events, e.kind = "banner"
  PROVE  \E c \in Chats, g \in 1..MaxGaps : e = Banner(c, g) /\ e.chat = c /\ e.gap = g
  BY DEF Events, Started, Message, Exited, Banner

LEMMA EventsDiffer ==
  ASSUME NEW c, NEW g
  PROVE  /\ Message # Banner(c, g) /\ Exited # Banner(c, g)
         /\ \A d, k : /\ Started(d) # Banner(c, g)
                      /\ Banner(d, k) = Banner(c, g) => d = c /\ k = g
<1>1. Banner(c, g).kind = "banner" /\ Message.kind = "message" /\ Exited.kind = "exited"
  BY DEF Banner, Message, Exited
<1>2. \A d, k : Started(d).kind = "started"
  BY DEF Started
<1>3. \A d, k : Banner(d, k).chat = d /\ Banner(d, k).gap = k
  BY DEF Banner
<1> QED  BY <1>1, <1>2, <1>3

(* The front of a channel leaves it.                                       *)
LEMMA TailQueued ==
  ASSUME NEW q \in Seq(Events), q # <<>>, NEW c, NEW g, NEW h, NEW B, Sound(q, h, B, c, g)
  PROVE  /\ Tail(q) \in Seq(Events)
         /\ Queued(Tail(q), c, g) => Queued(q, c, g) /\ Head(q) # Banner(c, g)
         /\ Head(q) = Banner(c, g) => Queued(q, c, g)
         /\ Sound(Tail(q), h, B, c, g)
<1>1. PICK t : t = Tail(q)
  OBVIOUS
<1>2. /\ t \in Seq(Events) /\ Len(t) = Len(q) - 1 /\ Len(q) \in Nat /\ Len(q) > 0
      /\ \A i \in 1..Len(t) : t[i] = q[i + 1]
      /\ Head(q) = q[1]
  BY <1>1
<1>3. \A i \in 1..Len(t) : i \in Nat /\ i + 1 \in 1..Len(q) /\ i + 1 # 1
  BY <1>2
<1>4. 1 \in 1..Len(q) /\ \A i, j \in 1..Len(t) : i + 1 = j + 1 => i = j
  BY <1>2
<1>5. /\ Queued(t, c, g) => Queued(q, c, g) /\ Head(q) # Banner(c, g)
      /\ Head(q) = Banner(c, g) => Queued(q, c, g)
  BY <1>2, <1>3, <1>4 DEF Queued, Sound
<1>6. \A i, j \in 1..Len(t) : t[i] = Banner(c, g) /\ t[j] = Banner(c, g) => i = j
  BY <1>2, <1>3, <1>4 DEF Sound
<1>7. Sound(t, h, B, c, g)
  BY <1>5, <1>6 DEF Sound
<1> QED  BY <1>1, <1>2, <1>5, <1>7

LEMMA PushQueued ==
  ASSUME NEW q \in Seq(Events), NEW e \in Events, NEW c, NEW g, NEW h, NEW B,
         Sound(q, h, B, c, g),
         e = Banner(c, g) => ~Out(q, h, B, c, g)
  PROVE  /\ Push(q, e) \in Seq(Events)
         /\ Queued(Push(q, e), c, g) => Queued(q, c, g) \/ e = Banner(c, g)
         /\ Sound(Push(q, e), h, B, c, g)
<1>1. PICK t \in Seq(Events) :
        /\ Push(q, e) = Append(t, e)
        /\ Queued(t, c, g) => Queued(q, c, g)
        /\ Sound(t, h, B, c, g)
  <2>1. CASE Len(q) < Cap
    BY <2>1 DEF Push
  <2>2. CASE ~(Len(q) < Cap)
    <3>1. q # <<>>
      BY <2>2, BoundsAssumption
    <3> QED  BY <2>2, <3>1, TailQueued DEF Push
  <2> QED  BY <2>1, <2>2
<1>2. PICK n \in Nat : n = Len(t)
  OBVIOUS
<1>3. PICK a : a = Append(t, e)
  OBVIOUS
<1>4. /\ a \in Seq(Events) /\ Len(a) = n + 1
      /\ \A i \in 1..n : a[i] = t[i]
      /\ a[n + 1] = e
  BY <1>2, <1>3
<1>5. \A i \in 1..n + 1 : i \in 1..n \/ i = n + 1
  OBVIOUS
<1>6. Queued(a, c, g) => Queued(t, c, g) \/ e = Banner(c, g)
  BY <1>2, <1>4, <1>5 DEF Queued
<1>7. \A i, j \in 1..Len(a) : a[i] = Banner(c, g) /\ a[j] = Banner(c, g) => i = j
  <2>1. \A i \in 1..n : a[i] = Banner(c, g) => Queued(t, c, g)
    BY <1>2, <1>4 DEF Queued
  <2>2. a[n + 1] = Banner(c, g) => ~Queued(t, c, g)
    BY <1>1, <1>4 DEF Out
  <2>3. \A i, j \in 1..n : a[i] = Banner(c, g) /\ a[j] = Banner(c, g) => i = j
    BY <1>1, <1>2, <1>4 DEF Sound
  <2> QED  BY <1>4, <1>5, <2>1, <2>2, <2>3
<1>8. Sound(a, h, B, c, g)
  BY <1>1, <1>6, <1>7 DEF Sound, Out
<1> QED  BY <1>1, <1>3, <1>4, <1>6, <1>8

(* What becomes of an ack.                                                 *)
LEMMA PaidLess ==
  ASSUME NEW K \in SUBSET Gaps, NEW B \in SUBSET Gaps, NEW r, NEW h, NEW s, NEW k, NEW c,
         Paid(K, r, h, B, c),
         s # "fired" \/ s = r, k # Resolve(c) \/ k = h
  PROVE  Paid(K, s, k, B, c)
<1>1. Cardinality(K) \in Nat /\ Cardinality(B) \in Nat
  BY GapsFinite
<1> QED  BY <1>1 DEF Paid

LEMMA PaidForCount ==
  ASSUME NEW K \in SUBSET Gaps, NEW B \in SUBSET Gaps, NEW h, NEW c, NEW g,
         Paid(K, "fired", h, B, c)
  PROVE  Paid(K \cup {g}, "none", h, B, c)
<1>1. Cardinality(K) \in Nat /\ Cardinality(B) \in Nat
  BY GapsFinite
<1>2. PICK n : n = Cardinality(K \cup {g})
  OBVIOUS
<1>3. n \in Nat /\ n <= Cardinality(K) + 1
  BY <1>1, <1>2, GapsFinite, FS_AddElement
<1> QED  BY <1>1, <1>2, <1>3 DEF Paid

LEMMA PaidByBanner ==
  ASSUME NEW K \in SUBSET Gaps, NEW B \in SUBSET Gaps, NEW r, NEW h, NEW c, NEW g,
         Paid(K, r, h, B, c), h # Resolve(c), g \notin B
  PROVE  Paid(K, r, Resolve(c), B \cup {g}, c)
<1>1. Cardinality(K) \in Nat /\ Cardinality(B) \in Nat
  BY GapsFinite
<1>2. Cardinality(B \cup {g}) = Cardinality(B) + 1
  BY OneMore
<1> QED  BY <1>1, <1>2 DEF Paid

LEMMA PaidFires ==
  ASSUME NEW K \in SUBSET Gaps, NEW B \in SUBSET Gaps, NEW c,
         Paid(K, "open", Resolve(c), B, c)
  PROVE  Paid(K, "fired", Idle, B, c)
<1>1. Cardinality(K) \in Nat /\ Cardinality(B) \in Nat
  BY GapsFinite
<1>2. Idle # Resolve(c)
  BY HandsDiffer
<1> QED  BY <1>1, <1>2 DEF Paid

(* The steps of main.                                                      *)
More ==
  \A c \in Chats, g \in 1..MaxGaps : Broadcasted(c, g) => Broadcasted(c, g)'

LEMMA FreshStays ==
  ASSUME Fresh, UNCHANGED <<events, hand, banners>>, More
  PROVE  Fresh'
  BY DEF Fresh, More

LEMMA FreshPush ==
  ASSUME HandTypes, Fresh, More, UNCHANGED <<hand, banners>>,
         NEW e \in Events, Broadcast(e),
         \A c \in Chats, g \in 1..MaxGaps :
           e = Banner(c, g) => ~Broadcasted(c, g) /\ Broadcasted(c, g)'
  PROVE  Fresh' /\ events' \in [Platforms -> Seq(Events)]
<1>1. \A p \in Platforms : events[p] \in Seq(Events) /\ events'[p] = Push(events[p], e)
  BY DEF HandTypes, Broadcast
<1>2. ASSUME NEW c \in Chats, NEW g \in 1..MaxGaps
      PROVE  LET q == events'[PlatformOf[c]]
                 h == hand[PlatformOf[c]]
             IN  /\ Sound(q, h, banners[c], c, g)
                 /\ Out(q, h, banners[c], c, g) => Broadcasted(c, g)'
  <2> DEFINE q == events[PlatformOf[c]]
             h == hand[PlatformOf[c]]
  <2>1. /\ q \in Seq(Events) /\ events'[PlatformOf[c]] = Push(q, e)
        /\ Sound(q, h, banners[c], c, g)
        /\ Out(q, h, banners[c], c, g) => Broadcasted(c, g)
    BY <1>1, ChatsAssumption DEF Fresh
  <2> HIDE DEF q, h
  <2>2. /\ Queued(Push(q, e), c, g) => Queued(q, c, g) \/ e = Banner(c, g)
        /\ Sound(Push(q, e), h, banners[c], c, g)
    BY <2>1, PushQueued
  <2>3. Out(Push(q, e), h, banners[c], c, g) => Broadcasted(c, g)'
    BY <2>1, <2>2 DEF Out, More
  <2> QED  BY <2>1, <2>2, <2>3 DEF h
<1>3. events' \in [Platforms -> Seq(Events)]
  <2>1. \A p \in Platforms : Push(events[p], e) \in Seq(Events)
    <3> TAKE p \in Platforms
    <3>1. Append(events[p], e) \in Seq(Events)
      BY <1>1
    <3>2. ~(Len(events[p]) < Cap) => Append(Tail(events[p]), e) \in Seq(Events)
      <4>1. ~(Len(events[p]) < Cap) => events[p] # <<>>
        BY <1>1, BoundsAssumption
      <4> QED  BY <1>1, <4>1
    <3> QED  BY <3>1, <3>2 DEF Push
  <2> QED  BY <2>1 DEF Broadcast
<1> QED  BY <1>2, <1>3 DEF Fresh

LEMMA BroadcastAccount ==
  ASSUME Inv, Account,
         \/ \E c \in Chats : StartupBanner(c) \/ Command(c) \/ BroadcastBanner(c)
         \/ \E e \in {Message, Exited} : Output(e)
  PROVE  Account'
<1>1. UNCHANGED <<hand, home, prefixes, rx, counted, banners>>
  BY DEF StartupBanner, Command, BroadcastBanner, Output, ackVars, histVars
<1>2. AllPaid'
  BY <1>1 DEF Account, AllPaid
<1>3. \A c \in Chats : Started(c) \in Events /\ \A g \in 1..MaxGaps : Banner(c, g) \in Events
  BY DEF Events
<1>4. {Message, Exited} \subseteq Events
  BY DEF Events
<1>5. gap \in Nat /\ MaxGaps \in Nat /\ gap <= MaxGaps
  BY BoundsAssumption DEF Inv, Types, Gaps
<1>6. PICK e \in Events :
        /\ Broadcast(e) /\ More
        /\ \A c \in Chats, g \in 1..MaxGaps :
             e = Banner(c, g) => ~Broadcasted(c, g) /\ Broadcasted(c, g)'
  <2>1. CASE \E c \in Chats : StartupBanner(c)
    <3>1. PICK c \in Chats : StartupBanner(c)
      BY <2>1
    <3>2. 1 \in 1..MaxGaps
      BY <1>5, <3>1 DEF StartupBanner
    <3>3. gap = 0 \/ gap = 1
      BY <3>1 DEF StartupBanner, Account, Numbered
    <3>4. \A d \in Chats, g \in 1..MaxGaps : Banner(c, 1) = Banner(d, g) => d = c /\ g = 1
      BY EventsDiffer
    <3>5. Broadcast(Banner(c, 1)) /\ Banner(c, 1) \in Events
      BY <1>3, <3>1, <3>2 DEF StartupBanner
    <3>6. More
      BY <1>5, <3>1, <3>3 DEF StartupBanner, More, Broadcasted
    <3>7. \A g \in 1..MaxGaps : g = 1 => ~Broadcasted(c, g) /\ Broadcasted(c, g)'
      BY <1>5, <3>1, <3>3 DEF StartupBanner, Broadcasted
    <3> QED  BY <3>4, <3>5, <3>6, <3>7
  <2>2. CASE \E c \in Chats : Command(c)
    <3>1. PICK c \in Chats : Command(c)
      BY <2>2
    <3> QED  BY <1>3, <3>1, EventsDiffer DEF Command, More, Broadcasted
  <2>3. CASE \E c \in Chats : BroadcastBanner(c)
    <3>1. PICK c \in Chats : BroadcastBanner(c)
      BY <2>3
    <3>2. gap \in 1..MaxGaps
      BY <1>5, <3>1 DEF BroadcastBanner, Account, Numbered
    <3>4. \A d \in Chats, g \in 1..MaxGaps : Banner(c, gap) = Banner(d, g) => d = c /\ g = gap
      BY EventsDiffer
    <3>5. Broadcast(Banner(c, gap)) /\ Banner(c, gap) \in Events
      BY <1>3, <3>1, <3>2 DEF BroadcastBanner
    <3>6. More
      BY <1>5, <3>1 DEF BroadcastBanner, More, Broadcasted
    <3>7. \A g \in 1..MaxGaps : g = gap => ~Broadcasted(c, g) /\ Broadcasted(c, g)'
      BY <1>5, <3>1 DEF BroadcastBanner, Broadcasted
    <3> QED  BY <3>4, <3>5, <3>6, <3>7
  <2>4. CASE \E e \in {Message, Exited} : Output(e)
    <3>1. PICK e \in {Message, Exited} : Output(e)
      BY <2>4
    <3> QED  BY <1>4, <3>1, EventsDiffer DEF Output, mainVars, More, Broadcasted
  <2> QED  BY <2>1, <2>2, <2>3, <2>4
<1>7. Fresh' /\ events' \in [Platforms -> Seq(Events)]
  BY <1>1, <1>6, FreshPush DEF Account
<1>8. Numbered'
  BY DEF Account, Numbered, StartupBanner, Command, BroadcastBanner, Output, mainVars
<1> QED  BY <1>1, <1>2, <1>7, <1>8 DEF Account, HandTypes

(* What main does besides leaves the banners where they are.               *)
LEMMA MainAccount ==
  ASSUME Inv, Account,
         \/ StartupDone \/ GapDetected \/ InstallPending \/ BroadcastDone
         \/ AwaitDone \/ SpawnAndResume
         \/ \E c \in Chats : AckTimeout(c) \/ FallbackPrefix(c) \/ FallbackForget(c)
  PROVE  Account'
<1> USE DEF Goes, mainVars, ackVars, taskVars, histVars
<1>1. UNCHANGED <<events, hand, home, banners>>
  BY DEF StartupDone, GapDetected, InstallPending, BroadcastDone, AwaitDone,
         SpawnAndResume, AckTimeout, FallbackPrefix, FallbackForget
<1>2. gap \in Nat
  BY BoundsAssumption DEF Inv, Types, Gaps
<1>3. prefixes' \in [Chats -> Gaps]
  <2>1. prefixes' = prefixes \/ \E c \in Chats : prefixes' = [prefixes EXCEPT ![c] = gap]
    BY DEF StartupDone, GapDetected, InstallPending, BroadcastDone, AwaitDone,
           SpawnAndResume, AckTimeout, FallbackPrefix, FallbackForget
  <2> QED  BY <2>1 DEF Account, HandTypes, Inv, Types
<1>4. HandTypes'
  BY <1>1, <1>3 DEF Account, HandTypes
<1>5. More /\ Numbered'
  <2>1. CASE StartupDone
    <3>1. \A c \in Chats, g \in 1..MaxGaps : Broadcasted(c, g) => Broadcasted(c, g)'
      BY <1>2, <2>1 DEF StartupDone, Broadcasted
    <3> QED  BY <2>1, <3>1 DEF StartupDone, More, Numbered
  <2>2. CASE GapDetected
    BY <1>2, <2>2 DEF GapDetected, More, Broadcasted, Numbered
  <2>3. CASE InstallPending
    BY <1>2, <2>3 DEF InstallPending, More, Broadcasted, Account, Numbered
  <2>4. CASE BroadcastDone \/ AwaitDone \/ SpawnAndResume
    BY <2>4 DEF BroadcastDone, AwaitDone, SpawnAndResume, More, Broadcasted, Numbered
  <2>5. CASE \E c \in Chats : AckTimeout(c) \/ FallbackPrefix(c) \/ FallbackForget(c)
    BY <2>5 DEF AckTimeout, FallbackPrefix, FallbackForget, More, Broadcasted, Account, Numbered
  <2> QED  BY <2>1, <2>2, <2>3, <2>4, <2>5
<1>6. Fresh'
  BY <1>1, <1>5, FreshStays DEF Account
<1>7. \A c \in Chats : counted[c] \in SUBSET Gaps /\ banners[c] \in SUBSET Gaps
  BY DEF Inv, Types, Account, HandTypes
<1>8. AllPaid'
  <2>1. CASE AwaitDone
    <3> SUFFICES ASSUME NEW c \in Chats
                 PROVE  Paid(counted'[c], rx'[c], hand[PlatformOf[c]], banners[c], c)
      BY <1>1 DEF AllPaid
    <3>1. Paid(counted[c], rx[c], hand[PlatformOf[c]], banners[c], c)
      BY DEF Account, AllPaid
    <3>2. CASE rx[c] = "fired"
      <4>1. counted'[c] = counted[c] \cup {gap} /\ rx'[c] = "none"
        BY <2>1, <3>2 DEF AwaitDone
      <4>2. Paid(counted[c], "fired", hand[PlatformOf[c]], banners[c], c)
        BY <3>1, <3>2
      <4>3. Paid(counted[c] \cup {gap}, "none", hand[PlatformOf[c]], banners[c], c)
        BY <1>7, <4>2, PaidForCount
      <4> QED  BY <4>1, <4>3
    <3>3. CASE rx[c] # "fired"
      <4>1. counted'[c] = counted[c] /\ rx'[c] # "fired"
        BY <2>1, <3>3 DEF AwaitDone
      <4> QED  BY <1>7, <3>1, <4>1, PaidLess
    <3> QED  BY <3>2, <3>3
  <2>2. CASE ~AwaitDone
    <3>1. counted' = counted /\ \A c \in Chats : rx'[c] # "fired" \/ rx'[c] = rx[c]
      BY <2>2 DEF StartupDone, GapDetected, InstallPending, BroadcastDone, Inv, Types,
                  SpawnAndResume, AckTimeout, FallbackPrefix, FallbackForget
    <3> SUFFICES ASSUME NEW c \in Chats
                 PROVE  Paid(counted[c], rx'[c], hand[PlatformOf[c]], banners[c], c)
      BY <1>1, <3>1 DEF AllPaid
    <3>2. Paid(counted[c], rx[c], hand[PlatformOf[c]], banners[c], c)
      BY DEF Account, AllPaid
    <3> QED  BY <1>7, <3>1, <3>2, PaidLess
  <2> QED  BY <2>1, <2>2
<1> QED  BY <1>4, <1>5, <1>6, <1>8 DEF Account

------------------------------------------------------------------------------
(* The steps of a delivery task: the hand goes from one thing to another.  *)
MainStays == UNCHANGED <<pc, left, gap, counted>>

LEMMA TakeAccount ==
  ASSUME Inv, Account, MainStays, UNCHANGED <<rx, banners>>,
         NEW p \in Platforms, NEW h \in Hands,
         hand[p] = Idle, events[p] # <<>>, events' = [events EXCEPT ![p] = Tail(@)],
         hand' = [hand EXCEPT ![p] = h],
         \A c \in Chats : h # Resolve(c),
         \A c \in Chats, g \in 1..MaxGaps :
           h = SendBanner(c, g) => Head(events[p]) = Banner(c, g) /\ PlatformOf[c] = p,
         home' \in [Platforms -> Chats \cup {NoChat}], prefixes' \in [Chats -> Gaps]
  PROVE  Account'
<1>1. /\ events \in [Platforms -> Seq(Events)] /\ hand \in [Platforms -> Hands]
      /\ banners \in [Chats -> SUBSET Gaps] /\ PlatformOf \in [Chats -> Platforms]
      /\ \A c \in Chats : counted[c] \in SUBSET Gaps /\ banners[c] \in SUBSET Gaps
  BY ChatsAssumption DEF Inv, Types, Account, HandTypes
<1>2. PICK q \in Seq(Events) : q = events[p] /\ q # <<>>
  BY <1>1
<1>3. Tail(q) \in Seq(Events)
  BY <1>2
<1>4. /\ events'[p] = Tail(q) /\ hand'[p] = h
      /\ \A r \in Platforms : r # p => events'[r] = events[r] /\ hand'[r] = hand[r]
  BY <1>1, <1>2
<1>5. HandTypes'
  <2>1. events' \in [Platforms -> Seq(Events)] /\ hand' \in [Platforms -> Hands]
    BY <1>1, <1>2, <1>3
  <2>2. \A r \in Platforms, c \in Chats : hand'[r] = Resolve(c) => PlatformOf[c] = r
    BY <1>4 DEF Account, HandTypes
  <2> QED  BY <1>1, <2>1, <2>2 DEF HandTypes
<1>6. Fresh'
  <2> SUFFICES ASSUME NEW c \in Chats, NEW g \in 1..MaxGaps
               PROVE  LET s == events'[PlatformOf[c]]
                          k == hand'[PlatformOf[c]]
                      IN  /\ Sound(s, k, banners[c], c, g)
                          /\ Out(s, k, banners[c], c, g) => Broadcasted(c, g)
    BY DEF Fresh, MainStays, Broadcasted
  <2>1. /\ Sound(events[PlatformOf[c]], hand[PlatformOf[c]], banners[c], c, g)
        /\ Out(events[PlatformOf[c]], hand[PlatformOf[c]], banners[c], c, g) => Broadcasted(c, g)
    BY DEF Account, Fresh
  <2>2. CASE PlatformOf[c] = p
    <3>1. Sound(q, Idle, banners[c], c, g) /\ (Out(q, Idle, banners[c], c, g) => Broadcasted(c, g))
      BY <1>2, <2>1, <2>2
    <3>2. /\ Queued(Tail(q), c, g) => Queued(q, c, g) /\ Head(q) # Banner(c, g)
          /\ Head(q) = Banner(c, g) => Queued(q, c, g)
          /\ Sound(Tail(q), Idle, banners[c], c, g)
      BY <1>2, <3>1, TailQueued
    <3>3. h = SendBanner(c, g) => Head(q) = Banner(c, g)
      BY <1>2
    <3>4. Sound(Tail(q), h, banners[c], c, g)
      BY <3>1, <3>2, <3>3 DEF Sound
    <3>5. Out(Tail(q), h, banners[c], c, g) => Broadcasted(c, g)
      BY <3>1, <3>2, <3>3 DEF Out
    <3> QED  BY <1>4, <2>2, <3>4, <3>5
  <2>3. CASE PlatformOf[c] # p
    BY <1>1, <1>4, <2>1, <2>3
  <2> QED  BY <2>2, <2>3
<1>7. AllPaid'
  <2> SUFFICES ASSUME NEW c \in Chats
               PROVE  Paid(counted[c], rx[c], hand'[PlatformOf[c]], banners[c], c)
    BY DEF AllPaid, MainStays
  <2>1. Paid(counted[c], rx[c], hand[PlatformOf[c]], banners[c], c)
    BY DEF Account, AllPaid
  <2>2. hand'[PlatformOf[c]] # Resolve(c) \/ hand'[PlatformOf[c]] = hand[PlatformOf[c]]
    BY <1>1, <1>4
  <2> QED  BY <1>1, <2>1, <2>2, PaidLess
<1>8. Numbered'
  BY DEF Account, Numbered, MainStays
<1> QED  BY <1>5, <1>6, <1>7, <1>8 DEF Account

LEMMA Hand == Idle \in Hands /\ \A c \in Chats : Resolve(c) \in Hands
  BY DEF Hands

(* The task puts a text or a banner down, sent or not.                     *)
LEMMA PutDownAccount ==
  ASSUME Inv, Account, MainStays, UNCHANGED <<rx, banners, events, home, prefixes>>,
         NEW p \in Platforms, hand' = [hand EXCEPT ![p] = Idle]
  PROVE  Account'
<1>1. /\ hand \in [Platforms -> Hands] /\ PlatformOf \in [Chats -> Platforms]
      /\ Idle \in Hands
      /\ \A c \in Chats : counted[c] \in SUBSET Gaps /\ banners[c] \in SUBSET Gaps
  BY ChatsAssumption, Hand DEF Inv, Types, Account, HandTypes
<1>2. hand'[p] = Idle /\ \A r \in Platforms : r # p => hand'[r] = hand[r]
  BY <1>1
<1>3. \A r \in Platforms, c \in Chats : hand'[r] = Resolve(c) => hand[r] = Resolve(c)
  BY <1>2, HandsDiffer
<1>4. \A r \in Platforms, c \in Chats, g \in 1..MaxGaps :
        hand'[r] = SendBanner(c, g) => hand[r] = SendBanner(c, g)
  BY <1>2, HandsDiffer
<1>5. HandTypes'
  BY <1>1, <1>3 DEF Account, HandTypes
<1>6. Fresh'
  BY <1>1, <1>4 DEF Account, Fresh, Sound, Out, Broadcasted, MainStays
<1>7. AllPaid'
  <2> SUFFICES ASSUME NEW c \in Chats
               PROVE  Paid(counted[c], rx[c], hand'[PlatformOf[c]], banners[c], c)
    BY DEF AllPaid, MainStays
  <2>1. Paid(counted[c], rx[c], hand[PlatformOf[c]], banners[c], c)
    BY DEF Account, AllPaid
  <2>2. hand'[PlatformOf[c]] # Resolve(c) \/ hand'[PlatformOf[c]] = hand[PlatformOf[c]]
    BY <1>1, <1>3
  <2> QED  BY <1>1, <2>1, <2>2, PaidLess
<1>8. Numbered'
  BY DEF Account, Numbered, MainStays
<1> QED  BY <1>5, <1>6, <1>7, <1>8 DEF Account

LEMMA BannerCame ==
  ASSUME Inv, Account, MainStays, UNCHANGED <<rx, events, home, prefixes>>,
         NEW p \in Platforms, NEW c \in Chats, NEW g \in 1..MaxGaps,
         PlatformOf[c] = p, hand[p] = SendBanner(c, g),
         hand' = [hand EXCEPT ![p] = Resolve(c)],
         banners' = [banners EXCEPT ![c] = @ \cup {g}]
  PROVE  Account'
<1>0. g \in Gaps
  BY BoundsAssumption DEF Gaps
<1>1. /\ hand \in [Platforms -> Hands] /\ PlatformOf \in [Chats -> Platforms]
      /\ Resolve(c) \in Hands /\ g \in Gaps
      /\ banners \in [Chats -> SUBSET Gaps]
      /\ \A d \in Chats : counted[d] \in SUBSET Gaps /\ banners[d] \in SUBSET Gaps
  BY <1>0, ChatsAssumption, Hand DEF Inv, Types, Account, HandTypes
<1>2. hand'[p] = Resolve(c) /\ \A r \in Platforms : r # p => hand'[r] = hand[r]
  BY <1>1
<1>3. /\ banners' \in [Chats -> SUBSET Gaps] /\ banners'[c] = banners[c] \cup {g}
      /\ \A d \in Chats : d # c => banners'[d] = banners[d]
  BY <1>1
<1>4. \A d \in Chats : hand'[p] = Resolve(d) => d = c
  BY <1>2, HandsDiffer
<1>5. HandTypes'
  <2>1. \A r \in Platforms, d \in Chats : hand'[r] = Resolve(d) => PlatformOf[d] = r
    BY <1>2, <1>4 DEF Account, HandTypes
  <2> QED  BY <1>1, <1>3, <2>1 DEF Account, HandTypes
<1>6. \A d \in Chats, k \in 1..MaxGaps :
        /\ hand'[p] # SendBanner(d, k)
        /\ hand[p] = SendBanner(d, k) => d = c /\ k = g
  BY <1>2, HandsDiffer
<1>7. Fresh'
  <2> SUFFICES ASSUME NEW d \in Chats, NEW k \in 1..MaxGaps
               PROVE  LET s == events[PlatformOf[d]]
                          h == hand'[PlatformOf[d]]
                      IN  /\ Sound(s, h, banners'[d], d, k)
                          /\ Out(s, h, banners'[d], d, k) => Broadcasted(d, k)
    BY DEF Fresh, MainStays, Broadcasted
  <2>1. /\ Sound(events[PlatformOf[d]], hand[PlatformOf[d]], banners[d], d, k)
        /\ Out(events[PlatformOf[d]], hand[PlatformOf[d]], banners[d], d, k) => Broadcasted(d, k)
    BY DEF Account, Fresh
  <2>2. CASE PlatformOf[d] # p
    BY <1>1, <1>2, <1>3, <2>1, <2>2
  <2>3. CASE PlatformOf[d] = p
    <3>1. k \in banners'[d] => k \in banners[d] \/ hand[p] = SendBanner(d, k)
      BY <1>3
    <3> QED  BY <1>6, <2>1, <2>3, <3>1 DEF Sound, Out
  <2> QED  BY <2>2, <2>3
<1>8. AllPaid'
  <2> SUFFICES ASSUME NEW d \in Chats
               PROVE  Paid(counted[d], rx[d], hand'[PlatformOf[d]], banners'[d], d)
    BY DEF AllPaid, MainStays
  <2>1. Paid(counted[d], rx[d], hand[PlatformOf[d]], banners[d], d)
    BY DEF Account, AllPaid
  <2>2. CASE d = c
    <3>1. g \notin banners[c]
      BY DEF Account, Fresh, Sound
    <3>2. hand[p] # Resolve(c)
      BY HandsDiffer
    <3> QED  BY <1>1, <1>2, <1>3, <2>1, <2>2, <3>1, <3>2, PaidByBanner
  <2>3. CASE d # c
    <3>1. hand'[PlatformOf[d]] # Resolve(d) \/ hand'[PlatformOf[d]] = hand[PlatformOf[d]]
      BY <1>1, <1>2, <1>4, <2>3
    <3> QED  BY <1>1, <1>3, <2>1, <2>3, <3>1, PaidLess
  <2> QED  BY <2>2, <2>3
<1>9. Numbered'
  BY DEF Account, Numbered, MainStays
<1> QED  BY <1>5, <1>7, <1>8, <1>9 DEF Account

(* The ack that is resolved was paid for by the banner that came.          *)
LEMMA ResolveAccount ==
  ASSUME Inv, Account, NEW p \in Platforms, ResolveAck(p)
  PROVE  Account'
<1>1. PICK c \in Chats : hand[p] = Resolve(c) /\ hand[p].chat = c
  <2>1. hand[p] \in Hands /\ hand[p].do = "resolve"
    BY DEF Account, HandTypes, ResolveAck
  <2> QED  BY <2>1, HandOf DEF Resolve
<1>2. PICK r :
        /\ rx' = [rx EXCEPT ![c] = r]
        /\ r = rx[c] \/ (rx[c] = "open" /\ r = "fired")
  BY <1>1 DEF ResolveAck, Inv, Types
<1>3. /\ UNCHANGED <<pc, left, gap, counted, banners, events, home, prefixes>>
      /\ hand' = [hand EXCEPT ![p] = Idle]
  BY DEF ResolveAck, mainVars, histVars, Hold
<1>4. PlatformOf[c] = p /\ PlatformOf \in [Chats -> Platforms]
  BY <1>1, ChatsAssumption DEF Account, HandTypes
<1>5. /\ hand \in [Platforms -> Hands] /\ Idle \in Hands
      /\ rx \in [Chats -> {"none", "open", "fired", "late"}]
      /\ \A d \in Chats : counted[d] \in SUBSET Gaps /\ banners[d] \in SUBSET Gaps
  BY Hand DEF Inv, Types, Account, HandTypes
<1>6. hand'[p] = Idle /\ \A q \in Platforms : q # p => hand'[q] = hand[q]
  BY <1>3, <1>5
<1>7. \A q \in Platforms, d \in Chats : hand'[q] = Resolve(d) => hand[q] = Resolve(d)
  BY <1>6, HandsDiffer
<1>8. \A q \in Platforms, d \in Chats, g \in 1..MaxGaps :
        hand'[q] = SendBanner(d, g) => hand[q] = SendBanner(d, g)
  BY <1>6, HandsDiffer
<1>9. HandTypes'
  BY <1>3, <1>5, <1>7 DEF Account, HandTypes
<1>10. Fresh'
  BY <1>3, <1>4, <1>8 DEF Account, Fresh, Sound, Out, Broadcasted
<1>11. AllPaid'
  <2> SUFFICES ASSUME NEW d \in Chats
               PROVE  Paid(counted[d], rx'[d], hand'[PlatformOf[d]], banners[d], d)
    BY <1>3 DEF AllPaid
  <2>1. Paid(counted[d], rx[d], hand[PlatformOf[d]], banners[d], d)
    BY DEF Account, AllPaid
  <2>2. CASE d = c /\ rx[c] = "open" /\ r = "fired"
    <3>1. rx'[c] = "fired"
      BY <1>2, <1>5, <2>2
    <3> QED  BY <1>1, <1>4, <1>5, <1>6, <2>1, <2>2, <3>1, PaidFires
  <2>3. CASE ~(d = c /\ rx[c] = "open" /\ r = "fired")
    <3>1. rx'[d] = rx[d]
      BY <1>2, <1>5, <2>3
    <3>2. hand'[PlatformOf[d]] # Resolve(d) \/ hand'[PlatformOf[d]] = hand[PlatformOf[d]]
      BY <1>4, <1>6, <1>7
    <3> QED  BY <1>5, <2>1, <3>1, <3>2, PaidLess
  <2> QED  BY <2>2, <2>3
<1>12. Numbered'
  BY <1>3 DEF Account, Numbered
<1> QED  BY <1>9, <1>10, <1>11, <1>12 DEF Account

LEMMA NotHeld ==
  \A c, g : /\ Idle # Resolve(c) /\ Idle # SendBanner(c, g)
           /\ \A d, k : SendText(d, k) # Resolve(c) /\ SendText(d, k) # SendBanner(c, g)
  BY HandsDiffer

LEMMA DeliveryAccount ==
  ASSUME Inv, Account, NEW p \in Platforms, Delivery(p) \/ CatchupEnds(p)
  PROVE  Account'
<1> USE DEF mainVars, ackVars, histVars
<1>1. /\ events \in [Platforms -> Seq(Events)] /\ hand \in [Platforms -> Hands]
      /\ home \in [Platforms -> Chats \cup {NoChat}] /\ prefixes \in [Chats -> Gaps]
      /\ 0 \in Gaps
  BY BoundsAssumption DEF Account, HandTypes, Gaps
<1>2. CASE ReceiveStarted(p)
  <2>1. PICK e : e = Head(events[p]) /\ e \in Events /\ e.kind = "started"
    BY <1>1, <1>2 DEF ReceiveStarted, Receives
  <2>2. e.chat \in Chats
    BY <2>1 DEF Events, Started, Message, Exited, Banner
  <2>3. home' \in [Platforms -> Chats \cup {NoChat}]
    BY <1>1, <1>2, <2>1, <2>2 DEF ReceiveStarted
  <2>4. hand' = [hand EXCEPT ![p] = Idle]
    BY <1>1, <1>2 DEF ReceiveStarted, Receives
  <2>5. /\ hand[p] = Idle /\ events[p] # <<>> /\ events' = [events EXCEPT ![p] = Tail(@)]
        /\ MainStays /\ UNCHANGED <<rx, banners, prefixes>>
    BY <1>2 DEF ReceiveStarted, Receives, MainStays
  <2>6. Idle \in Hands /\ prefixes' \in [Chats -> Gaps]
    BY <1>1, <2>5, Hand
  <2>7. /\ \A c \in Chats : Idle # Resolve(c)
        /\ \A c \in Chats, g \in 1..MaxGaps :
             Idle = SendBanner(c, g) => Head(events[p]) = Banner(c, g) /\ PlatformOf[c] = p
    BY NotHeld
  <2> QED  BY <2>3, <2>4, <2>5, <2>6, <2>7, TakeAccount
<1>3. CASE ReceiveExited(p)
  <2>1. home' \in [Platforms -> Chats \cup {NoChat}]
    BY <1>1, <1>3 DEF ReceiveExited
  <2>2. hand' = [hand EXCEPT ![p] = Idle]
    BY <1>1, <1>3 DEF ReceiveExited, Receives
  <2>5. /\ hand[p] = Idle /\ events[p] # <<>> /\ events' = [events EXCEPT ![p] = Tail(@)]
        /\ MainStays /\ UNCHANGED <<rx, banners, prefixes>>
    BY <1>3 DEF ReceiveExited, Receives, MainStays
  <2>6. Idle \in Hands /\ prefixes' \in [Chats -> Gaps]
    BY <1>1, <2>5, Hand
  <2>7. /\ \A c \in Chats : Idle # Resolve(c)
        /\ \A c \in Chats, g \in 1..MaxGaps :
             Idle = SendBanner(c, g) => Head(events[p]) = Banner(c, g) /\ PlatformOf[c] = p
    BY NotHeld
  <2> QED  BY <2>1, <2>2, <2>5, <2>6, <2>7, TakeAccount
<1>4. CASE ReceiveMessage(p)
  <2>1. /\ hand[p] = Idle /\ events[p] # <<>> /\ events' = [events EXCEPT ![p] = Tail(@)]
        /\ MainStays /\ UNCHANGED <<rx, banners, home>>
    BY <1>4 DEF ReceiveMessage, Receives, MainStays
  <2>2. PICK h \in Hands :
          /\ hand' = [hand EXCEPT ![p] = h]
          /\ h = Idle \/ \E c, g : h = SendText(c, g)
          /\ prefixes' \in [Chats -> Gaps]
    <3>1. CASE home[p] = NoChat
      <4>1. UNCHANGED <<hand, prefixes>> /\ hand = [hand EXCEPT ![p] = Idle]
        BY <1>1, <1>4, <2>1, <3>1 DEF ReceiveMessage
      <4> QED  BY <1>1, <4>1, Hand
    <3>2. CASE home[p] # NoChat
      <4>1. PICK c \in Chats : c = home[p]
        BY <1>1, <3>2
      <4>2. SendText(c, prefixes[c]) \in Hands
        BY <1>1, <4>1 DEF Hands
      <4>3. /\ hand' = [hand EXCEPT ![p] = SendText(c, prefixes[c])]
            /\ prefixes' = [prefixes EXCEPT ![c] = 0]
        BY <1>4, <3>2, <4>1 DEF ReceiveMessage, Hold
      <4> QED  BY <1>1, <4>2, <4>3
    <3> QED  BY <3>1, <3>2
  <2>3. /\ \A c \in Chats : h # Resolve(c)
        /\ \A c \in Chats, g \in 1..MaxGaps :
             h = SendBanner(c, g) => Head(events[p]) = Banner(c, g) /\ PlatformOf[c] = p
    BY <2>2, NotHeld
  <2>4. home' \in [Platforms -> Chats \cup {NoChat}]
    BY <1>1, <2>1
  <2> QED  BY <2>1, <2>2, <2>3, <2>4, TakeAccount
<1>5. CASE ReceiveBanner(p)
  <2>1. PICK e \in Events : e = Head(events[p]) /\ e.kind = "banner"
    BY <1>1, <1>5 DEF ReceiveBanner, Receives
  <2>2. PICK c \in Chats, g \in 1..MaxGaps : e = Banner(c, g) /\ e.chat = c /\ e.gap = g
    BY <2>1, EventOf
  <2>3. /\ hand[p] = Idle /\ events[p] # <<>> /\ events' = [events EXCEPT ![p] = Tail(@)]
        /\ MainStays /\ UNCHANGED <<rx, banners, home, prefixes>>
    BY <1>5 DEF ReceiveBanner, Receives, MainStays
  <2>4. PICK h \in Hands :
          /\ hand' = [hand EXCEPT ![p] = h]
          /\ h = Idle \/ (h = SendBanner(c, g) /\ PlatformOf[c] = p)
    <3>1. SendBanner(c, g) \in Hands
      BY DEF Hands
    <3>2. hand = [hand EXCEPT ![p] = Idle]
      BY <1>1, <2>3
    <3> QED  BY <1>5, <2>1, <2>2, <3>1, <3>2, Hand DEF ReceiveBanner, Hold
  <2>5. /\ \A d \in Chats : h # Resolve(d)
        /\ \A d \in Chats, k \in 1..MaxGaps :
             h = SendBanner(d, k) => Head(events[p]) = Banner(d, k) /\ PlatformOf[d] = p
    <3>1. CASE h = Idle
      BY <3>1, NotHeld
    <3>2. CASE h = SendBanner(c, g) /\ PlatformOf[c] = p
      <4>1. \A d, k : h # Resolve(d) /\ (h = SendBanner(d, k) => d = c /\ k = g)
        BY <3>2, HandsDiffer
      <4> QED  BY <2>1, <2>2, <3>2, <4>1
    <3> QED  BY <2>4, <3>1, <3>2
  <2>6. home' \in [Platforms -> Chats \cup {NoChat}] /\ prefixes' \in [Chats -> Gaps]
    BY <1>1, <2>3
  <2> QED  BY <2>3, <2>4, <2>5, <2>6, TakeAccount
<1>6. CASE TextSent(p)
  BY <1>6, PutDownAccount DEF TextSent, Hold, MainStays
<1>7. CASE BannerSent(p)
  <2>1. PICK c \in Chats, g \in 1..MaxGaps : hand[p] = SendBanner(c, g)
    BY <1>1, <1>7, HandOf DEF BannerSent
  <2>2. hand[p].chat = c /\ hand[p].gap = g
    BY <2>1 DEF SendBanner
  <2>3. MainStays /\ UNCHANGED <<rx, events, home, prefixes>>
    BY <1>7 DEF BannerSent, MainStays
  <2>4. CASE /\ PlatformOf[c] = p /\ hand' = [hand EXCEPT ![p] = Resolve(c)]
             /\ banners' = [banners EXCEPT ![c] = @ \cup {g}]
    BY <2>1, <2>3, <2>4, BannerCame
  <2>5. CASE hand' = [hand EXCEPT ![p] = Idle] /\ UNCHANGED banners
    BY <2>3, <2>5, PutDownAccount
  <2> QED  BY <1>7, <2>2, <2>4, <2>5 DEF BannerSent, CanSend, Hold
<1>8. CASE ResolveAck(p)
  BY <1>8, ResolveAccount
<1>9. CASE CatchupEnds(p)
  <2>1. UNCHANGED <<pc, left, gap, rx, events, home, prefixes, hand, counted, banners>>
    BY <1>9 DEF CatchupEnds, taskVars
  <2> QED
    BY <2>1 DEF Account, HandTypes, Fresh, Broadcasted, AllPaid, Numbered
<1> QED  BY <1>2, <1>3, <1>4, <1>5, <1>6, <1>7, <1>8, <1>9 DEF Delivery

LEMMA InitAccount == Init => Account
<1> SUFFICES ASSUME Init PROVE Account
  OBVIOUS
<1>1. HandTypes
  <2>1. /\ events = [p \in Platforms |-> <<>>] /\ home = [p \in Platforms |-> NoChat]
        /\ hand = [p \in Platforms |-> Idle] /\ prefixes = [c \in Chats |-> 0]
        /\ banners = [c \in Chats |-> {}]
    BY DEF Init
  <2>2. 0 \in Gaps /\ <<>> \in Seq(Events)
    BY BoundsAssumption DEF Gaps
  <2> QED  BY <2>1, <2>2, Hand, HandsDiffer DEF HandTypes
<1>2. \A c \in Chats : /\ events[PlatformOf[c]] = <<>> /\ hand[PlatformOf[c]] = Idle
                       /\ banners[c] = {} /\ counted[c] = {} /\ rx[c] = "none"
  BY ChatsAssumption DEF Init
<1>3. Fresh
  <2>1. \A c \in Chats, g \in 1..MaxGaps :
          Sound(<<>>, Idle, {}, c, g) /\ ~Out(<<>>, Idle, {}, c, g)
    BY HandsDiffer DEF Sound, Out, Queued
  <2> QED  BY <1>2, <2>1 DEF Fresh
<1>4. AllPaid
  <2>1. \A c \in Chats : Paid({}, "none", Idle, {}, c)
    BY HandsDiffer, GapsFinite DEF Paid
  <2> QED  BY <1>2, <2>1 DEF AllPaid
<1> QED  BY <1>1, <1>3, <1>4 DEF Account, Numbered, Init

LEMMA NextAccount == Inv /\ Account /\ [Next]_vars => Account'
<1> SUFFICES ASSUME Inv, Account, [Next]_vars PROVE Account'
  OBVIOUS
<1>1. CASE UNCHANGED vars
  BY <1>1 DEF vars, mainVars, ackVars, taskVars, histVars, Account, HandTypes, Fresh,
              Broadcasted, AllPaid, Numbered
<1>2. CASE Main
  BY <1>2, BroadcastAccount, MainAccount DEF Main, HandleGap
<1>3. CASE \E p \in Platforms : Delivery(p) \/ CatchupEnds(p)
  BY <1>3, DeliveryAccount
<1> QED  BY <1>1, <1>2, <1>3 DEF Next

(* handle_gap (wake.rs) leaves no chat it knew untold, and whatever lags,  *)
(* fails or answers late in the delivery tasks (delivery.rs), it takes no  *)
(* more banners as delivered than the chat got.                            *)
THEOREM EveryChatTold == Spec => []ToldOrMarked
<1>1. Init => Inv /\ Account
  BY InitInv, InitAccount
<1>2. Inv /\ Account /\ [Next]_vars => (Inv /\ Account)'
  BY NextInv, NextAccount
<1>3. Inv /\ Account => ToldOrMarked
  <2> SUFFICES ASSUME Inv, Account, NEW c \in Chats
               PROVE  Cardinality(counted[c]) <= Cardinality(banners[c])
    BY DEF Inv, Known, NobodyLeftOut, ToldOrMarked
  <2>1. Paid(counted[c], rx[c], hand[PlatformOf[c]], banners[c], c)
    BY DEF Account, AllPaid
  <2>2. Cardinality(counted[c]) \in Nat /\ Cardinality(banners[c]) \in Nat
    BY GapsFinite DEF Inv, Types, Account, HandTypes
  <2> QED  BY <2>1, <2>2 DEF Paid
<1> QED  BY <1>1, <1>2, <1>3, PTL DEF Spec
==============================================================================
