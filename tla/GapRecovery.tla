----------------------------- MODULE GapRecovery -----------------------------
(***************************************************************************)
(* Telling the chats about a gap: handle_gap and the banners of an unclean *)
(* restart (wake.rs), the acks and the fallback prefixes (banner.rs) and   *)
(* the delivery task of each platform, which reads the broadcast of stream *)
(* events (delivery.rs).                                                   *)
(*                                                                         *)
(* handle_gap runs inline on the main loop: nothing else that main does    *)
(* happens until it returns.  The delivery tasks run all the time.  A gap  *)
(* is its number; the output of one session stands for all output.         *)
(***************************************************************************)
EXTENDS Naturals, Sequences, FiniteSets

CONSTANTS Chats,        \* chat ids
          Platforms,    \* those enabled, of "telegram", "slack" and "discord"
          PlatformOf,   \* the platform of each chat
          NoChat,       \* session_chat_ids has no entry
          Cap,          \* capacity of the broadcast channel
          MaxGaps,      \* bound on the gaps
          MaxEvents,    \* bound on what the main loop broadcasts besides
          SendFaults    \* TRUE: send_message may fail

ASSUME ChatsAssumption == NoChat \notin Chats /\ PlatformOf \in [Chats -> Platforms]
ASSUME PlatformsAssumption == Platforms \subseteq {"telegram", "slack", "discord"}
ASSUME BoundsAssumption ==
  {MaxGaps, MaxEvents} \subseteq Nat /\ Cap \in Nat \ {0} /\ SendFaults \in BOOLEAN

Gaps == 0..MaxGaps

VARIABLES
  pc,        \* main: "start", "loop", or where handle_gap is
  left,      \* chats the current loop of handle_gap has not come to
  gap,       \* the latest gap (0: none yet)
  active,    \* the wake coordinator's chats
  paused,    \* paused adapters
  catching,  \* platforms with catchup_in_progress
  pending,   \* pending_acks: the gap whose oneshot sender is installed, or 0
  rx,        \* the oneshot receivers: "none", "open", "fired", "late"
  prefixes,  \* prefixes: the gap to mention before the next message, or 0
  events,    \* what each delivery task has still to receive
  home,      \* session_chat_ids[session] of each delivery task
  hand,      \* the event each delivery task is handling
  sent,      \* events main broadcast besides banners
  counted,   \* the gaps handle_gap took each chat's banner as delivered for
  banners,   \* the gaps whose banner each chat got
  owed,      \* the latest gap each chat was to be told of by a prefix
  marked     \* the gaps each chat saw the prefix of

mainVars == <<pc, left, gap, active, paused, catching>>
ackVars  == <<pending, rx, prefixes>>
taskVars == <<events, home, hand>>
histVars == <<counted, banners, owed, marked>>
vars == <<mainVars, ackVars, taskVars, sent, histVars>>

Started(c)   == [kind |-> "started", chat |-> c]
Message      == [kind |-> "message"]
Exited       == [kind |-> "exited"]
Banner(c, g) == [kind |-> "banner", chat |-> c, gap |-> g]

Events ==
  {Started(c) : c \in Chats} \cup {Message, Exited}
    \cup {Banner(c, g) : c \in Chats, g \in 1..MaxGaps}

(* What a delivery task does with an event: send a message under the mark  *)
(* of a gap (0: none), send a banner, or resolve the ack of one.           *)
Idle             == [do |-> "idle"]
SendText(c, g)   == [do |-> "text", chat |-> c, gap |-> g]
SendBanner(c, g) == [do |-> "banner", chat |-> c, gap |-> g]
Resolve(c)       == [do |-> "resolve", chat |-> c]

Hands ==
  {Idle} \cup {SendText(c, g) : c \in Chats, g \in Gaps}
    \cup {SendBanner(c, g) : c \in Chats, g \in 1..MaxGaps}
    \cup {Resolve(c) : c \in Chats}

Init ==
  /\ pc = "start" /\ left = {} /\ gap = 0
  /\ active \in SUBSET Chats
  /\ paused = {} /\ catching = {}
  /\ pending = [c \in Chats |-> 0]
  /\ rx = [c \in Chats |-> "none"]
  /\ prefixes = [c \in Chats |-> 0]
  /\ events = [p \in Platforms |-> <<>>]
  /\ home = [p \in Platforms |-> NoChat]
  /\ hand = [p \in Platforms |-> Idle]
  /\ sent = 0
  /\ counted = [c \in Chats |-> {}] /\ banners = [c \in Chats |-> {}]
  /\ owed = [c \in Chats |-> 0] /\ marked = [c \in Chats |-> {}]

------------------------------------------------------------------------------
(* A broadcast reaches every delivery task; one that lags by the capacity  *)
(* loses its oldest event.                                                 *)
Push(q, e) == Append(IF Len(q) < Cap THEN q ELSE Tail(q), e)

Broadcast(e) == events' = [p \in Platforms |-> Push(events[p], e)]

Goes(from, to) == pc = from /\ pc' = to

(* emit_startup_gap_banners, after an unclean restart: nobody waits for    *)
(* these banners.                                                          *)
StartupBanner(c) ==
  /\ pc = "start" /\ c \in active \ left
  /\ MaxGaps > 0
  /\ gap' = 1 /\ left' = left \cup {c}
  /\ Broadcast(Banner(c, 1))
  /\ UNCHANGED <<pc, active, paused, catching, ackVars, home, hand, sent, histVars>>

StartupDone ==
  /\ Goes("start", "loop")
  /\ left = {} \/ left = active
  /\ left' = {}
  /\ UNCHANGED <<gap, active, paused, catching, ackVars, taskVars, sent, histVars>>

(* The main loop at work: a command from chat c, the output of the session *)
(* or its end.                                                             *)
Command(c) ==
  /\ pc = "loop" /\ sent < MaxEvents /\ sent' = sent + 1
  /\ active' = active \cup {c}
  /\ Broadcast(Started(c))
  /\ UNCHANGED <<pc, left, gap, paused, catching, ackVars, home, hand, histVars>>

Output(e) ==
  /\ pc = "loop" /\ sent < MaxEvents /\ sent' = sent + 1
  /\ Broadcast(e)
  /\ UNCHANGED <<mainVars, ackVars, home, hand, histVars>>

------------------------------------------------------------------------------
(* handle_gap.                                                             *)
GapDetected ==
  /\ Goes("loop", "install")
  /\ gap < MaxGaps /\ gap' = gap + 1
  /\ paused' = Platforms
  /\ UNCHANGED <<left, active, catching, ackVars, taskVars, sent, histVars>>

(* install_pending, before any banner is broadcast.                        *)
InstallPending ==
  /\ Goes("install", "broadcast")
  /\ pending' = [c \in Chats |-> IF c \in active THEN gap ELSE pending[c]]
  /\ rx' = [c \in Chats |-> IF c \in active THEN "open" ELSE "none"]
  /\ left' = active
  /\ UNCHANGED <<gap, active, paused, catching, prefixes, taskVars, sent, histVars>>

BroadcastBanner(c) ==
  /\ pc = "broadcast" /\ c \in left
  /\ left' = left \ {c}
  /\ Broadcast(Banner(c, gap))
  /\ UNCHANGED <<pc, gap, active, paused, catching, ackVars, home, hand, sent, histVars>>

BroadcastDone ==
  /\ Goes("broadcast", "await") /\ left = {}
  /\ UNCHANGED <<left, gap, active, paused, catching, ackVars, taskVars, sent, histVars>>

(* Mutant: an ack is waited for as long as it takes.                       *)
NoAckTimeout(c) == FALSE /\ UNCHANGED vars

(* ACK_TIMEOUT, for each chat on its own; the receiver is dropped.         *)
AckTimeout(c) ==
  /\ pc = "await" /\ rx[c] = "open"
  /\ rx' = [rx EXCEPT ![c] = "late"]
  /\ UNCHANGED <<mainVars, pending, prefixes, taskVars, sent, histVars>>

(* join_all returns; the fallback loop goes through the late chats.        *)
AwaitDone ==
  /\ Goes("await", "fallback")
  /\ \A c \in Chats : rx[c] # "open"
  /\ left' = {c \in Chats : rx[c] = "late"}
  /\ rx' = [c \in Chats |-> IF rx[c] = "late" THEN "late" ELSE "none"]
  /\ counted' = [c \in Chats |-> IF rx[c] = "fired" THEN counted[c] \cup {gap} ELSE counted[c]]
  /\ UNCHANGED <<gap, active, paused, catching, pending, prefixes, taskVars, sent,
                 banners, owed, marked>>

(* The prefix under one lock, then the stale ack under the other.          *)
FallbackPrefix(c) ==
  /\ Goes("fallback", "forget") /\ c \in left
  /\ rx' = [rx EXCEPT ![c] = "none"]
  /\ prefixes' = [prefixes EXCEPT ![c] = gap]
  /\ owed' = [owed EXCEPT ![c] = gap]
  /\ UNCHANGED <<left, gap, active, paused, catching, pending, taskVars, sent,
                 counted, banners, marked>>

(* Mutant: the stale ack stays in the map.                                 *)
FallbackKeepsAck(c) ==
  /\ Goes("forget", "fallback") /\ c \in left /\ rx[c] = "none"
  /\ left' = left \ {c}
  /\ UNCHANGED <<gap, active, paused, catching, ackVars, taskVars, sent, histVars>>

FallbackForget(c) ==
  /\ Goes("forget", "fallback") /\ c \in left /\ rx[c] = "none"
  /\ left' = left \ {c}
  /\ pending' = [pending EXCEPT ![c] = 0]
  /\ UNCHANGED <<gap, active, paused, catching, rx, prefixes, taskVars, sent, histVars>>

(* A catchup that still runs is not started again.  Slack's needs a chat.  *)
Catchups ==
  {p \in Platforms : \/ p = "discord"
                     \/ p = "slack" /\ \E c \in active : PlatformOf[c] = p}

SpawnAndResume ==
  /\ Goes("fallback", "loop") /\ left = {}
  /\ catching' = catching \cup Catchups
  /\ paused' = {}
  /\ UNCHANGED <<left, gap, active, ackVars, taskVars, sent, histVars>>

CatchupEnds(p) ==
  /\ p \in catching /\ catching' = catching \ {p}
  /\ UNCHANGED <<pc, left, gap, active, paused, ackVars, taskVars, sent, histVars>>

------------------------------------------------------------------------------
(* The delivery task of platform p: handle_stream_event.                   *)
Receives(p, kind) ==
  /\ hand[p] = Idle /\ events[p] # <<>> /\ Head(events[p]).kind = kind
  /\ events' = [events EXCEPT ![p] = Tail(@)]

Hold(p, h) == hand' = [hand EXCEPT ![p] = h]

ReceiveStarted(p) ==
  /\ Receives(p, "started")
  /\ home' = [home EXCEPT ![p] = Head(events[p]).chat]
  /\ UNCHANGED <<mainVars, ackVars, hand, sent, histVars>>

(* The end of a session is told, if it can be, and its entry removed.      *)
ReceiveExited(p) ==
  /\ Receives(p, "exited")
  /\ home' = [home EXCEPT ![p] = NoChat]
  /\ UNCHANGED <<mainVars, ackVars, hand, sent, histVars>>

(* A message takes the prefix of its chat, whoever the platform is.        *)
ReceiveMessage(p) ==
  /\ Receives(p, "message")
  /\ IF home[p] = NoChat THEN UNCHANGED <<hand, prefixes>>
     ELSE /\ Hold(p, SendText(home[p], prefixes[home[p]]))
          /\ prefixes' = [prefixes EXCEPT ![home[p]] = 0]
  /\ UNCHANGED <<mainVars, pending, rx, home, sent, histVars>>

(* Banners of other platforms are skipped.                                 *)
ReceiveBanner(p) ==
  /\ Receives(p, "banner")
  /\ LET e == Head(events[p])
     IN  IF PlatformOf[e.chat] = p THEN Hold(p, SendBanner(e.chat, e.gap)) ELSE UNCHANGED hand
  /\ UNCHANGED <<mainVars, ackVars, home, sent, histVars>>

(* send_message: no platform knows a chat of another one.                  *)
CanSend(p, c)  == PlatformOf[c] = p
MayFail(p, c)  == SendFaults \/ PlatformOf[c] # p

TextSent(p) ==
  /\ hand[p].do = "text"
  /\ LET c == hand[p].chat
     IN  \/ CanSend(p, c) /\ marked' = [marked EXCEPT ![c] = @ \cup ({hand[p].gap} \ {0})]
         \/ MayFail(p, c) /\ UNCHANGED marked
  /\ Hold(p, Idle)
  /\ UNCHANGED <<mainVars, ackVars, events, home, sent, counted, banners, owed>>

(* Mutant: the ack is resolved whatever send_message returned.             *)
BannerSentOrNot(p) ==
  /\ hand[p].do = "banner"
  /\ LET c == hand[p].chat
     IN  /\ \/ CanSend(p, c) /\ banners' = [banners EXCEPT ![c] = @ \cup {hand[p].gap}]
            \/ MayFail(p, c) /\ UNCHANGED banners
         /\ Hold(p, Resolve(c))
  /\ UNCHANGED <<mainVars, ackVars, events, home, sent, counted, owed, marked>>

(* A failure does not resolve the ack: the timeout and the prefix do.      *)
BannerSent(p) ==
  /\ hand[p].do = "banner"
  /\ LET c == hand[p].chat
     IN  \/ /\ CanSend(p, c)
            /\ banners' = [banners EXCEPT ![c] = @ \cup {hand[p].gap}]
            /\ Hold(p, Resolve(c))
         \/ /\ MayFail(p, c)
            /\ Hold(p, Idle)
            /\ UNCHANGED banners
  /\ UNCHANGED <<mainVars, ackVars, events, home, sent, counted, owed, marked>>

(* The sender is removed and fired, whichever gap it was installed for; a  *)
(* receiver that timed out does not see it.                                *)
ResolveAck(p) ==
  /\ hand[p].do = "resolve"
  /\ LET c == hand[p].chat
     IN  /\ pending' = [pending EXCEPT ![c] = 0]
         /\ rx' = [rx EXCEPT ![c] = IF pending[c] > 0 /\ @ = "open" THEN "fired" ELSE @]
  /\ Hold(p, Idle)
  /\ UNCHANGED <<mainVars, prefixes, events, home, sent, histVars>>

------------------------------------------------------------------------------
HandleGap ==
  \/ InstallPending \/ (\E c \in Chats : BroadcastBanner(c)) \/ BroadcastDone
  \/ (\E c \in Chats : AckTimeout(c)) \/ AwaitDone
  \/ (\E c \in Chats : FallbackPrefix(c) \/ FallbackForget(c))
  \/ SpawnAndResume

Main ==
  \/ (\E c \in Chats : StartupBanner(c)) \/ StartupDone
  \/ (\E c \in Chats : Command(c)) \/ (\E e \in {Message, Exited} : Output(e))
  \/ GapDetected \/ HandleGap

Delivery(p) ==
  \/ ReceiveStarted(p) \/ ReceiveExited(p) \/ ReceiveMessage(p) \/ ReceiveBanner(p)
  \/ TextSent(p) \/ BannerSent(p) \/ ResolveAck(p)

Next == Main \/ \E p \in Platforms : Delivery(p) \/ CatchupEnds(p)

Spec == Init /\ [][Next]_vars

(* handle_gap is polled until it returns, and its timers fire; nothing is  *)
(* assumed of the delivery tasks.                                          *)
FairSpec == Spec /\ WF_vars(HandleGap)

------------------------------------------------------------------------------
TypeOK ==
  /\ pc \in {"start", "loop", "install", "broadcast", "await", "fallback", "forget"}
  /\ left \subseteq Chats /\ gap \in Gaps /\ active \subseteq Chats
  /\ paused \in {{}, Platforms} /\ catching \subseteq Platforms
  /\ pending \in [Chats -> Gaps] /\ prefixes \in [Chats -> Gaps]
  /\ rx \in [Chats -> {"none", "open", "fired", "late"}]
  /\ events \in [Platforms -> Seq(Events)]
  /\ \A p \in Platforms : Len(events[p]) <= Cap
  /\ home \in [Platforms -> Chats \cup {NoChat}] /\ hand \in [Platforms -> Hands]
  /\ sent \in 0..MaxEvents
  /\ {counted, banners, marked} \subseteq [Chats -> SUBSET Gaps]
  /\ owed \in [Chats -> Gaps]

(* When handle_gap returns no oneshot is left behind: an ack that races    *)
(* the timeout is either counted or removed, never kept for a later gap.   *)
NoStaleAck ==
  pc \in {"start", "loop", "install"} => \A c \in Chats : pending[c] = 0

(* Before handle_gap resumes, each chat it knew is one whose banner was    *)
(* acknowledged or one whose next message is to have the prefix.           *)
NobodyLeftOut ==
  pc = "fallback" /\ left = {} => \A c \in active : gap \in counted[c] \cup {owed[c]}

(* handle_gap leaves no chat it knew untold, and it counts no banner as    *)
(* delivered twice, nor one that was lost, late or failed.                 *)
ToldOrMarked ==
  NobodyLeftOut /\ \A c \in Chats : Cardinality(counted[c]) <= Cardinality(banners[c])

(* handle_gap returns and resumes the adapters even if no delivery task    *)
(* ever answers.                                                           *)
AdaptersResume == (pc = "install") ~> (pc = "loop" /\ paused = {})

(* wake.rs on the fallback: the next outbound message for that chat        *)
(* carries the gap marker.  A marker that was not shown waits for the next *)
(* message or is with the task that can send it.                           *)
MarkerReachesChat ==
  \A c \in Chats :
    \/ owed[c] \in marked[c] \cup {0, prefixes[c]}
    \/ hand[PlatformOf[c]] = SendText(c, owed[c])
==============================================================================
