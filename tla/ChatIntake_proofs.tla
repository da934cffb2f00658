--------------------------- MODULE ChatIntake_proofs ---------------------------
EXTENDS ChatIntake, Integers, FiniteSetTheorems, TLAPS

(***************************************************************************)
(* What main is given of a chat, for any number of messages, window, page, *)
(* answer and channel sizes: the three safety properties that the run      *)
(* chat_intake checks.                                                     *)
(*                                                                         *)
(*   NoUpdateForgotten     Telegram: an update below any offset that can   *)
(*                         be asked with was handed over or skipped        *)
(*                         (TelegramInv).                                  *)
(*   PassedOverByLiveOnly  Discord: whatever is in the window or below the *)
(*                         cursor or a watermark has begun, or is foreign, *)
(*                         or lies below a live message (DiscordInv).      *)
(*   RepeatedOnlyIfForgotten  Discord: who begins with a message takes a   *)
(*                         place in the window for it, and no place is     *)
(*                         free again without an eviction (OnceEach);      *)
(*                         Telegram: what was given to main is below the   *)
(*                         offset (HandsOnce).                             *)
(***************************************************************************)

------------------------------------------------------------------------------
(* Telegram: what the server forgets.                                      *)

(* Everything below o is an update that was handed to main or skipped.     *)
Behind(o) ==
  /\ o \in Nat
  /\ \A m \in Nat : 0 < m /\ m < o => m <= posted /\ (m \in handed \/ m \in skipped)

(* Wherever the next request may take its offset from.                     *)
OffsetsBehind ==
  /\ Behind(offset) /\ Behind(Telegram!Seed(held)) /\ Behind(Telegram!Seed(saved))
  /\ states \in Seq(Nat) /\ \A i \in 1..Len(states) : Behind(states[i])

(* What is left of an answer goes on where the offset has come to.         *)
BatchInOrder ==
  /\ batch \in Seq(Nat) /\ \A i \in 1..Len(batch) : batch[i] <= posted
  /\ \A i \in 1..Len(batch) - 1 : batch[i + 1] = batch[i] + 1
  /\ batch # <<>> => Behind(batch[1])

TelegramInv ==
  /\ posted \in Nat /\ Behind(confirmed + 1) /\ confirmed \in Nat
  /\ OffsetsBehind
  /\ BatchInOrder

(* Seeding makes an offset no worse.                                       *)
LEMMA SeedBehind ==
  ASSUME NEW o, Behind(o), posted \in Nat
  PROVE  Behind(Telegram!Seed(o))
<1>1. Behind(0)
  BY DEF Behind
<1>2. Telegram!Seed(o) = o \/ Telegram!Seed(o) = 0
  BY DEF Telegram!Seed
<1> QED  BY <1>1, <1>2

LEMMA TelegramInit ==
  ASSUME Telegram!NoOffsetAtFirst, Telegram!Init
  PROVE  TelegramInv
<1>1. Telegram!Seed(saved) = 0
  BY DEF Telegram!NoOffsetAtFirst, Telegram!Init
<1> QED  BY <1>1 DEF Telegram!Init, Telegram!MainInit, TelegramInv, OffsetsBehind,
                     BatchInOrder, Behind

(* The steps that neither handle an update nor move an offset.             *)
LEMMA IdleInv ==
  ASSUME TelegramInv, posted <= posted', posted' \in Nat,
         UNCHANGED <<skipped, handed, confirmed, offset, held, saved, states>>,
         batch' = batch \/ batch' = <<>>
  PROVE  TelegramInv'
<1>1. posted \in Nat /\ handed' = handed /\ skipped' = skipped
  BY DEF TelegramInv
<1>2. ASSUME NEW o, Behind(o)  PROVE Behind(o)'
  <2>1. \A m \in Nat : m <= posted => m <= posted'
    BY <1>1
  <2> QED  BY <1>1, <1>2, <2>1 DEF Behind
<1>3. OffsetsBehind'
  BY <1>2 DEF TelegramInv, OffsetsBehind, Telegram!Seed
<1>4. BatchInOrder'
  <2>1. CASE batch' = <<>>
    BY <2>1 DEF BatchInOrder
  <2>2. CASE batch' = batch
    <3>1. batch \in Seq(Nat) /\ \A i \in 1..Len(batch) : batch[i] \in Nat /\ batch[i] <= posted
      BY DEF TelegramInv, BatchInOrder
    <3>2. \A i \in 1..Len(batch) : batch[i] <= posted'
      BY <1>1, <3>1
    <3> QED  BY <1>2, <2>2, <3>1, <3>2 DEF TelegramInv, BatchInOrder
  <2> QED  BY <2>1, <2>2
<1> QED  BY <1>2, <1>3, <1>4 DEF TelegramInv

LEMMA RestartInv ==
  ASSUME TelegramInv, Telegram!Restart
  PROVE  TelegramInv'
<1> USE DEF Telegram!Restart, Telegram!MainRestarts, Telegram!serverVars
<1>1. ASSUME NEW o, Behind(o)  PROVE Behind(o)'
  BY <1>1 DEF Behind, TelegramInv
<1>4. OffsetsBehind'
  BY <1>1 DEF TelegramInv, OffsetsBehind, Telegram!Seed
<1>5. BatchInOrder'
  BY DEF BatchInOrder
<1> QED  BY <1>1, <1>4, <1>5 DEF TelegramInv

(* An answer is in order.                                                  *)
LEMMA Answered ==
  ASSUME NEW c \in Nat, NEW n \in Nat, NEW p \in Nat, c + n <= p,
         NEW b, b = [i \in 1..n |-> c + i]
  PROVE  /\ b \in Seq(Nat) /\ \A i \in 1..Len(b) : b[i] <= p
         /\ \A i \in 1..Len(b) - 1 : b[i + 1] = b[i] + 1
         /\ b # <<>> => b[1] = c + 1
<1>1. \A i \in 1..n : c + i \in Nat
  OBVIOUS
<1>2. b \in Seq(Nat) /\ Len(b) = n
  BY <1>1
<1>3. b # <<>> => n > 0
  BY <1>2
<1> QED  BY <1>2, <1>3

(* The server forgets up to the offset and answers from there.             *)
LEMMA AnswerInv ==
  ASSUME Telegram!NoOffsetAtFirst, TelegramInv, Telegram!Answer
  PROVE  TelegramInv'
<1>1. UNCHANGED <<posted, skipped, handed, offset, held, saved, states>>
  BY DEF Telegram!Answer, Telegram!mainVars
<1>2. ASSUME NEW o, Behind(o)  PROVE Behind(o)'
  BY <1>1, <1>2 DEF Behind
<1>3. PICK c \in Nat : confirmed' = c /\ c <= posted /\ Behind(c + 1)
  <2>1. /\ posted \in Nat /\ confirmed \in Nat /\ Behind(confirmed + 1)
        /\ offset \in Nat /\ Behind(offset)
    BY DEF TelegramInv, OffsetsBehind, Behind
  <2>2. CASE offset > confirmed + 1
    <3>1. offset - 1 \in Nat /\ (offset - 1) + 1 = offset
      BY <2>1, <2>2
    <3>2. confirmed' = offset - 1
      BY <2>2 DEF Telegram!Answer
    <3>3. offset - 1 <= posted
      BY <2>1, <2>2, <3>1 DEF Behind
    <3> QED  BY <2>1, <3>1, <3>2, <3>3
  <2>3. CASE ~(offset > confirmed + 1)
    <3>1. confirmed <= posted
      BY <2>1 DEF Behind
    <3> QED  BY <2>1, <2>3, <3>1 DEF Telegram!Answer
  <2> QED  BY <2>2, <2>3
<1>4. PICK n \in Nat : c + n <= posted /\ batch' = [i \in 1..n |-> c + i]
  <2>1. posted \in Nat /\ PollLimit \in Nat
    BY SizesAssumption DEF TelegramInv
  <2>2. batch' = [i \in 1..(IF posted - c < PollLimit THEN posted - c ELSE PollLimit) |-> c + i]
    BY <1>3 DEF Telegram!Answer
  <2>3. CASE posted - c < PollLimit
    <3>1. posted - c \in Nat /\ c + (posted - c) <= posted
      BY <1>3, <2>1
    <3> QED  BY <2>2, <2>3, <3>1
  <2>4. CASE ~(posted - c < PollLimit)
    <3>1. c + PollLimit <= posted
      BY <1>3, <2>1, <2>4
    <3> QED  BY <2>1, <2>2, <2>4, <3>1
  <2> QED  BY <2>3, <2>4
<1>5. /\ batch' \in Seq(Nat) /\ \A i \in 1..Len(batch') : batch'[i] <= posted
      /\ \A i \in 1..Len(batch') - 1 : batch'[i + 1] = batch'[i] + 1
      /\ batch' # <<>> => batch'[1] = c + 1
  <2>1. posted \in Nat
    BY DEF TelegramInv
  <2> QED  BY <1>4, <2>1, Answered
<1>6. BatchInOrder'
  BY <1>1, <1>2, <1>3, <1>5 DEF BatchInOrder
<1>7. OffsetsBehind'
  BY <1>1, <1>2 DEF TelegramInv, OffsetsBehind, Telegram!Seed
<1>8. Behind(confirmed + 1)' /\ confirmed' \in Nat
  BY <1>1, <1>2, <1>3 DEF Behind
<1> QED  BY <1>1, <1>6, <1>7, <1>8 DEF TelegramInv

(* What is left of an answer in order is in order.                         *)
LEMMA TailInOrder ==
  ASSUME NEW b \in Seq(Nat), NEW p, b # <<>>,
         \A i \in 1..Len(b) : b[i] <= p,
         \A i \in 1..Len(b) - 1 : b[i + 1] = b[i] + 1
  PROVE  /\ Tail(b) \in Seq(Nat) /\ \A i \in 1..Len(Tail(b)) : Tail(b)[i] <= p
         /\ \A i \in 1..Len(Tail(b)) - 1 : Tail(b)[i + 1] = Tail(b)[i] + 1
         /\ Tail(b) # <<>> => Tail(b)[1] = b[1] + 1
<1>1. PICK t : t = Tail(b)
  OBVIOUS
<1>2. /\ t \in Seq(Nat) /\ Len(t) \in Nat /\ Len(b) = Len(t) + 1
      /\ \A i \in 1..Len(t) : t[i] = b[i + 1]
  BY <1>1
<1>3. \A i \in 1..Len(t) : i + 1 \in 1..Len(b)
  BY <1>2
<1>4. ASSUME NEW i \in 1..Len(t) - 1  PROVE t[i + 1] = t[i] + 1
  <2>1. i \in 1..Len(t) /\ i + 1 \in 1..Len(t) /\ i + 1 \in 1..Len(b) - 1
    BY <1>2
  <2>2. t[i] = b[i + 1] /\ t[i + 1] = b[(i + 1) + 1]
    BY <1>2, <2>1
  <2> QED  BY <2>1, <2>2
<1>5. t # <<>> => t[1] = b[1] + 1
  BY <1>2
<1> QED  BY <1>1, <1>2, <1>3, <1>4, <1>5

(* The offset moves past the update that is handed over or skipped.        *)
LEMMA HandleInv ==
  ASSUME TelegramInv, Telegram!Handle
  PROVE  TelegramInv'
<1>1. PICK m : /\ UNCHANGED <<posted, skipped, confirmed, held, saved, states>>
               /\ batch # <<>> /\ m = Head(batch)
               /\ batch' = Tail(batch) /\ offset' = m + 1
               /\ handed \subseteq handed' /\ (m \in handed' \/ m \in skipped')
  BY DEF Telegram!Handle, Telegram!Send, Telegram!idleMain, Telegram!mainVars,
         Telegram!serverVars
<1>2. m = batch[1] /\ m \in Nat /\ m <= posted /\ Behind(m)
  BY <1>1 DEF TelegramInv, BatchInOrder
<1>3. ASSUME NEW o, Behind(o)  PROVE Behind(o)'
  BY <1>1, <1>3 DEF Behind
<1>4. Behind(m + 1)'
  <2>1. ASSUME NEW k \in Nat, 0 < k, k < m + 1
        PROVE  k <= posted /\ (k \in handed' \/ k \in skipped')
    <3>1. k < m \/ k = m
      BY <1>2, <2>1
    <3> QED  BY <1>1, <1>2, <2>1, <3>1 DEF Behind
  <2>2. m + 1 \in Nat
    BY <1>2
  <2> QED  BY <1>1, <2>1, <2>2 DEF Behind
<1>5. Behind(offset)'
  BY <1>1, <1>4 DEF Behind
<1>6. OffsetsBehind'
  BY <1>1, <1>3, <1>5 DEF TelegramInv, OffsetsBehind, Telegram!Seed
<1>7. /\ batch' \in Seq(Nat) /\ \A i \in 1..Len(batch') : batch'[i] <= posted
      /\ \A i \in 1..Len(batch') - 1 : batch'[i + 1] = batch'[i] + 1
      /\ batch' # <<>> => batch'[1] = m + 1
  BY <1>1, <1>2, TailInOrder DEF TelegramInv, BatchInOrder
<1>8. BatchInOrder'
  BY <1>1, <1>4, <1>7 DEF BatchInOrder
<1> QED  BY <1>1, <1>3, <1>6, <1>8 DEF TelegramInv

LEMMA SaveOffsetInv ==
  ASSUME TelegramInv, Telegram!SaveOffset
  PROVE  TelegramInv'
<1>1. UNCHANGED <<posted, skipped, handed, confirmed, offset, batch, held, saved>>
  BY DEF Telegram!SaveOffset, Telegram!idleMain, Telegram!serverVars
<1>2. ASSUME NEW o, Behind(o)  PROVE Behind(o)'
  BY <1>1, <1>2 DEF Behind
<1>3. states' = states \/ states' = Append(states, offset)
  BY DEF Telegram!SaveOffset
<1>4. offset \in Nat /\ states \in Seq(Nat)
  BY DEF TelegramInv, OffsetsBehind, Behind
<1>5. states' \in Seq(Nat) /\ \A i \in 1..Len(states') : states'[i] = offset \/
        (i \in 1..Len(states) /\ states'[i] = states[i])
  <2>1. CASE states' = states  BY <1>4, <2>1
  <2>2. CASE states' = Append(states, offset)
    <3>1. /\ Len(states') = Len(states) + 1 /\ states' \in Seq(Nat)
          /\ \A i \in 1..Len(states) : states'[i] = states[i]
          /\ states'[Len(states) + 1] = offset
      BY <1>4, <2>2
    <3> QED  BY <1>4, <3>1
  <2> QED  BY <1>3, <2>1, <2>2
<1>6. OffsetsBehind'
  BY <1>1, <1>2, <1>5 DEF TelegramInv, OffsetsBehind, Telegram!Seed
<1>7. BatchInOrder'
  BY <1>1, <1>2 DEF TelegramInv, BatchInOrder
<1> QED  BY <1>1, <1>2, <1>6, <1>7 DEF TelegramInv

(* The store keeps in memory what the channel brings it.                   *)
LEMMA MainStateInv ==
  ASSUME TelegramInv, Telegram!MainState
  PROVE  TelegramInv'
<1>1. /\ UNCHANGED <<posted, skipped, handed, confirmed, offset, batch, saved>>
      /\ states # <<>> /\ states' = Tail(states) /\ held' = Head(states)
  BY DEF Telegram!MainState, Telegram!TakeState, Telegram!serverVars, Telegram!pollVars
<1>2. ASSUME NEW o, Behind(o)  PROVE Behind(o)'
  BY <1>1, <1>2 DEF Behind
<1>3. Behind(held')
  BY <1>1 DEF TelegramInv, OffsetsBehind
<1>4. Behind(Telegram!Seed(held'))
  BY <1>3, SeedBehind DEF TelegramInv
<1>5. states' \in Seq(Nat) /\ \A i \in 1..Len(states') : i + 1 \in 1..Len(states) /\
        states'[i] = states[i + 1]
  BY <1>1 DEF TelegramInv, OffsetsBehind
<1>6. OffsetsBehind'
  BY <1>1, <1>2, <1>4, <1>5 DEF TelegramInv, OffsetsBehind, Telegram!Seed
<1>7. BatchInOrder'
  BY <1>1, <1>2 DEF TelegramInv, BatchInOrder
<1> QED  BY <1>1, <1>2, <1>6, <1>7 DEF TelegramInv

LEMMA FlushInv ==
  ASSUME TelegramInv, Telegram!Flush
  PROVE  TelegramInv'
<1>1. /\ UNCHANGED <<posted, skipped, handed, confirmed, offset, batch, held, states>>
      /\ saved' = held
  BY DEF Telegram!Flush, Telegram!serverVars, Telegram!pollVars
<1>2. ASSUME NEW o, Behind(o)  PROVE Behind(o)'
  BY <1>1, <1>2 DEF Behind
<1>3. OffsetsBehind'
  BY <1>1, <1>2 DEF TelegramInv, OffsetsBehind, Telegram!Seed
<1>4. BatchInOrder'
  BY <1>1, <1>2 DEF TelegramInv, BatchInOrder
<1> QED  BY <1>1, <1>2, <1>3, <1>4 DEF TelegramInv

LEMMA TelegramNext ==
  ASSUME Telegram!NoOffsetAtFirst, TelegramInv, Telegram!Next
  PROVE  TelegramInv'
<1> USE DEF Telegram!mainVars, Telegram!serverVars, Telegram!pollVars, TelegramInv
<1>1. CASE Telegram!Post  BY <1>1, IdleInv DEF Telegram!Post
<1>2. CASE Telegram!Wake  BY <1>2, IdleInv DEF Telegram!Wake, Telegram!Wakes
<1>3. CASE Telegram!Restart  BY <1>3, RestartInv
<1>4. CASE Telegram!Answer  BY <1>4, AnswerInv
<1>5. CASE Telegram!Ask  BY <1>5, IdleInv DEF Telegram!Ask
<1>6. CASE Telegram!Fails  BY <1>6, IdleInv DEF Telegram!Fails
<1>7. CASE Telegram!BackedOff  BY <1>7, IdleInv DEF Telegram!BackedOff
<1>8. CASE Telegram!Receive  BY <1>8, IdleInv DEF Telegram!Receive
<1>9. CASE Telegram!Handle  BY <1>9, HandleInv
<1>10. CASE Telegram!SaveOffset  BY <1>10, SaveOffsetInv
<1>11. CASE Telegram!MainState  BY <1>11, MainStateInv
<1>12. CASE Telegram!Flush  BY <1>12, FlushInv
<1>13. CASE Telegram!MainGap \/ Telegram!MainHangs
  BY <1>13, IdleInv DEF Telegram!MainHangs, Telegram!Hang, Telegram!MainGap, Telegram!StartGap, Telegram!Spawn,
                        Telegram!Resume, Telegram!TakeCommand
<1> QED
  BY <1>1, <1>2, <1>3, <1>4, <1>5, <1>6, <1>7, <1>8, <1>9, <1>10, <1>11, <1>12,
     <1>13 DEF Telegram!Next, Telegram!World, Telegram!Polling, Telegram!Main

------------------------------------------------------------------------------
(* F foreign, B begun, L lived.                                            *)
Passed(x, F, B, L) == \A m \in 1..x : m \in F \/ m \in B \/ \E n \in L : n > m

LEMMA PassedGrows ==
  ASSUME NEW x, NEW F, NEW B, NEW L, NEW B1, NEW L1,
         B \subseteq B1, L \subseteq L1, Passed(x, F, B, L)
  PROVE  Passed(x, F, B1, L1)
  BY DEF Passed

LEMMA PassedNext ==
  ASSUME NEW x \in Nat, NEW F, NEW B, NEW L, Passed(x, F, B, L), x + 1 \in F \cup B
  PROVE  Passed(x + 1, F, B, L)
  BY DEF Passed

LEMMA PassedLive ==
  ASSUME NEW x \in Nat, NEW F, NEW B, NEW L, x \in B, x \in L
  PROVE  Passed(x, F, B, L)
  BY DEF Passed

(* What is left of a page follows on the cursor; while an item is worked   *)
(* at it is still there, and the cursor on it.                             *)
Working == {"mark", "persist", "send"}

Shape(c, p, a) ==
  /\ p \in Seq(Nat) /\ a \in Nat
  /\ c = "item" => \A i \in 1..Len(p) : p[i] = a + i
  /\ c \in Working => p # <<>> /\ \A i \in 1..Len(p) : p[i] = a + (i - 1)

LEMMA ShapeOfPage ==
  ASSUME NEW a \in Nat, NEW n \in Int
  PROVE  Shape("item", [i \in 1..n |-> a + i], a)
<1>1. PICK k \in Nat : 1..n = 1..k
  <2>1. CASE n \in Nat
    BY <2>1
  <2>2. CASE n < 0
    <3>1. 1..n = 1..0
      BY <2>2
    <3> QED  BY <3>1
  <2> QED  BY <2>1, <2>2
<1> DEFINE p == [i \in 1..k |-> a + i]
<1>2. p \in Seq(Nat) /\ Len(p) = k
  OBVIOUS
<1>3. \A i \in 1..k : p[i] = a + i
  OBVIOUS
<1> HIDE DEF p
<1>4. Shape("item", p, a)
  BY <1>2, <1>3 DEF Shape, Working
<1> QED  BY <1>1, <1>4 DEF p

LEMMA ShapeOfItem ==
  ASSUME NEW p, NEW a, Shape("item", p, a), p # <<>>
  PROVE  /\ Head(p) = a + 1
         /\ Shape("item", Tail(p), a + 1)
         /\ Shape("mark", p, a + 1)
<1>1. p \in Seq(Nat) /\ a \in Nat /\ a + 1 \in Nat /\ \A i \in 1..Len(p) : p[i] = a + i
  BY DEF Shape
<1>2. Len(p) > 0 /\ Head(p) = p[1]
  BY <1>1
<1>3. /\ Tail(p) \in Seq(Nat) /\ Len(Tail(p)) = Len(p) - 1
      /\ \A i \in 1..Len(p) - 1 : Tail(p)[i] = p[i + 1]
  BY <1>1
<1>4. \A i \in 1..Len(p) - 1 : Tail(p)[i] = (a + 1) + i
  BY <1>1, <1>3
<1>5. \A i \in 1..Len(p) : p[i] = (a + 1) + (i - 1)
  BY <1>1
<1> QED  BY <1>1, <1>2, <1>3, <1>4, <1>5 DEF Shape, Working

LEMMA ShapeOfSend ==
  ASSUME NEW p, NEW a, Shape("send", p, a)
  PROVE  Shape("item", Tail(p), a) /\ Shape("page", Tail(p), a)
<1>1. p \in Seq(Nat) /\ a \in Nat /\ p # <<>> /\ \A i \in 1..Len(p) : p[i] = a + (i - 1)
  BY DEF Shape, Working
<1>2. /\ Tail(p) \in Seq(Nat) /\ Len(Tail(p)) = Len(p) - 1
      /\ \A i \in 1..Len(p) - 1 : Tail(p)[i] = p[i + 1]
  BY <1>1
<1>3. \A i \in 1..Len(p) - 1 : Tail(p)[i] = a + i
  BY <1>1, <1>2
<1> QED  BY <1>1, <1>2, <1>3 DEF Shape, Working

LEMMA ShapeOfWork ==
  ASSUME NEW p, NEW a, NEW c \in Working, Shape(c, p, a)
  PROVE  Head(p) = a /\ \A d \in Working : Shape(d, p, a)
<1>1. p \in Seq(Nat) /\ a \in Nat /\ p # <<>> /\ \A i \in 1..Len(p) : p[i] = a + (i - 1)
  BY DEF Shape, Working
<1>2. Head(p) = p[1] /\ p[1] = a
  BY <1>1
<1> QED  BY <1>1, <1>2 DEF Shape, Working

------------------------------------------------------------------------------
Steps == {"none", "dropped", "event", "dedup", "mark", "persist", "send"}

Types ==
  /\ posted \in Nat /\ lastSeen \in Nat /\ saved \in Nat
  /\ states \in Seq(Nat)

(* A gateway task that marks has pushed, and one that persists a watermark *)
(* has marked it.                                                          *)
Handlers(h, B, L) ==
  /\ h \in [Discord!Msgs -> Steps]
  /\ \A m \in Discord!Msgs : h[m] \in {"mark", "persist"} => m \in B
  /\ \A m \in Discord!Msgs : h[m] = "persist" => m \in L

Pushed(w, B) == w \in Seq(Nat) /\ \A i \in 1..Len(w) : w[i] \in B

Marked == Handlers(handler, begun, lived) /\ Pushed(window, begun)

IsPassed(x) == Passed(x, foreign, begun, lived)

(* The watermark, what was sent or saved of it, and the cursor.            *)
AllPassed ==
  /\ IsPassed(lastSeen) /\ IsPassed(saved) /\ IsPassed(after)
  /\ \A i \in 1..Len(states) : IsPassed(states[i])

DiscordInv == Types /\ Marked /\ AllPassed /\ Shape(catch, page, after)

LEMMA HandlersStart ==
  ASSUME NEW B, NEW L
  PROVE  Handlers([m \in Discord!Msgs |-> "none"], B, L)
  BY DEF Handlers, Steps

LEMMA HandlersGo ==
  ASSUME NEW B, NEW L, NEW B1, NEW L1, NEW h, Handlers(h, B, L), B \subseteq B1, L \subseteq L1,
         NEW m \in Discord!Msgs, NEW v \in Steps,
         v \in {"mark", "persist"} => m \in B1, v = "persist" => m \in L1
  PROVE  Handlers([h EXCEPT ![m] = v], B1, L1)
<1>1. h \in [Discord!Msgs -> Steps]
  BY DEF Handlers
<1>2. /\ [h EXCEPT ![m] = v] \in [Discord!Msgs -> Steps]
      /\ \A k \in Discord!Msgs : [h EXCEPT ![m] = v][k] = IF k = m THEN v ELSE h[k]
  BY <1>1
<1> QED  BY <1>2 DEF Handlers

LEMMA DiscordInit == Discord!Init => DiscordInv
<1> SUFFICES ASSUME Discord!Init PROVE DiscordInv
  OBVIOUS
<1>1. /\ posted = saved /\ lastSeen = saved /\ saved \in Nat /\ window = <<>>
      /\ states = <<>> /\ begun = 1..saved
      /\ handler = [m \in Discord!Msgs |-> "none"] /\ after = 0 /\ page = <<>> /\ catch = "idle"
  BY SizesAssumption DEF Discord!Init, Discord!MainInit
<1>2. Marked
  BY <1>1, HandlersStart DEF Marked, Pushed
<1>3. Types /\ AllPassed
  BY <1>1 DEF Types, AllPassed, IsPassed, Passed
<1>4. Shape(catch, page, after)
  BY <1>1 DEF Shape, Working
<1> QED  BY <1>2, <1>3, <1>4 DEF DiscordInv

(* Steps that push and mark nothing new, but at most move a value that was *)
(* passed over already.                                                    *)
LEMMA Grows ==
  ASSUME NEW x, IsPassed(x), foreign' = foreign, begun \subseteq begun', lived \subseteq lived'
  PROVE  Passed(x, foreign', begun', lived')
  BY DEF IsPassed, Passed

LEMMA WorldInv ==
  ASSUME DiscordInv, Discord!World
  PROVE  DiscordInv'
<1>1. CASE \E pushed \in BOOLEAN : Discord!Post(pushed)
  <2>1. /\ posted' = posted + 1
        /\ UNCHANGED <<foreign, Discord!mainVars, Discord!markVars, Discord!catchVars,
                       Discord!histVars>>
        /\ \E v \in {"event", "none"} : handler' = [handler EXCEPT ![posted + 1] = v]
    BY <1>1 DEF Discord!Post
  <2>2. posted + 1 \in Nat /\ posted + 1 \in Discord!Msgs
    BY <1>1, SizesAssumption DEF DiscordInv, Types, Discord!Post, Discord!Msgs
  <2>3. PICK v \in {"event", "none"} : handler' = [handler EXCEPT ![posted + 1] = v]
    BY <2>1
  <2>4. Handlers(handler', begun, lived)
    BY <2>2, <2>3, HandlersGo DEF DiscordInv, Marked, Steps
  <2>5. Types' /\ Marked'
    BY <2>1, <2>2, <2>4 DEF DiscordInv, Types, Marked, Discord!mainVars, Discord!markVars,
                            Discord!histVars, Steps
  <2> QED  BY <2>1, <2>5 DEF DiscordInv, AllPassed, IsPassed, Discord!mainVars,
                             Discord!markVars, Discord!catchVars, Discord!histVars
<1>2. CASE Discord!Wake
  BY <1>2 DEF Discord!Wake, Discord!Wakes, DiscordInv, Types, Marked, AllPassed, IsPassed,
              Discord!markVars, Discord!catchVars, Discord!histVars
<1>3. CASE Discord!Restart
  <2>1. /\ states' = <<>> /\ window' = <<>> /\ lastSeen' = saved /\ catch' = "idle"
        /\ handler' = [m \in Discord!Msgs |-> "none"]
        /\ after' = 0 /\ page' = <<>> /\ UNCHANGED <<saved, posted, foreign, begun, lived>>
    BY <1>3 DEF Discord!Restart, Discord!MainRestarts, Discord!CatchIdle,
              Discord!CatchDrops
  <2>2. Passed(0, foreign, begun, lived)
    BY DEF Passed
  <2>3. Types' /\ AllPassed'
    BY <2>1, <2>2 DEF DiscordInv, Types, AllPassed, IsPassed
  <2>4. Marked'
    BY <2>1, HandlersStart DEF Marked, Pushed
  <2>5. Shape(catch, page, after)'
    BY <2>1 DEF Shape, Working
  <2> QED  BY <2>3, <2>4, <2>5 DEF DiscordInv
<1> QED  BY <1>1, <1>2, <1>3 DEF Discord!World

LEMMA PushedWindow ==
  ASSUME DiscordInv, NEW m \in Nat, Discord!Pushes(m)
  PROVE  Pushed(window', begun') /\ begun' = begun \cup {m}
<1> DEFINE w == IF Len(window) < WindowCap THEN window ELSE Tail(window)
<1>1. window \in Seq(Nat) /\ \A i \in 1..Len(window) : window[i] \in begun
  BY DEF DiscordInv, Marked, Pushed
<1>2. window' = Append(w, m) /\ begun' = begun \cup {m}
  <2>1. Len(window) \in Nat /\ WindowCap \in Nat
    BY <1>1, SizesAssumption
  <2>2. CASE Len(window) < WindowCap /\ window' = Append(window, m)
    BY <2>2 DEF Discord!Pushes
  <2>3. CASE Len(window) >= WindowCap /\ window' = Append(Tail(window), m)
    <3>1. ~(Len(window) < WindowCap)
      BY <2>1, <2>3
    <3> QED  BY <2>3, <3>1 DEF Discord!Pushes
  <2> QED  BY <2>2, <2>3 DEF Discord!Pushes
<1>3. w \in Seq(Nat) /\ \A i \in 1..Len(w) : w[i] \in begun
  <2>1. CASE Len(window) < WindowCap
    BY <1>1, <2>1
  <2>2. CASE ~(Len(window) < WindowCap)
    <3>1. w = Tail(window) /\ window # <<>>
      BY <1>1, <2>2, SizesAssumption
    <3>2. /\ Tail(window) \in Seq(Nat) /\ Len(Tail(window)) = Len(window) - 1
          /\ \A i \in 1..Len(window) - 1 : Tail(window)[i] = window[i + 1]
      BY <1>1, <3>1
    <3>3. \A i \in 1..Len(window) - 1 : Tail(window)[i] \in begun
      BY <1>1, <3>2
    <3> QED  BY <3>1, <3>2, <3>3
  <2> QED  BY <2>1, <2>2
<1> HIDE DEF w
<1>4. /\ Append(w, m) \in Seq(Nat) /\ Len(Append(w, m)) = Len(w) + 1
      /\ \A i \in 1..Len(w) + 1 : Append(w, m)[i] = IF i = Len(w) + 1 THEN m ELSE w[i]
  BY <1>3
<1>5. \A i \in 1..Len(w) + 1 : Append(w, m)[i] \in begun \cup {m}
  BY <1>3, <1>4
<1> QED  BY <1>2, <1>4, <1>5 DEF Pushed

LEMMA PersistedStates ==
  ASSUME DiscordInv, NEW m \in Nat, IsPassed(m), Discord!Persists(m)
  PROVE  states' \in Seq(Nat) /\ \A i \in 1..Len(states') : IsPassed(states'[i])
<1>1. states \in Seq(Nat) /\ \A i \in 1..Len(states) : IsPassed(states[i])
  BY DEF DiscordInv, Types, AllPassed
<1>2. CASE states' = Append(states, m)
  <2>1. /\ Append(states, m) \in Seq(Nat) /\ Len(Append(states, m)) = Len(states) + 1
        /\ \A i \in 1..Len(states) + 1 :
             Append(states, m)[i] = IF i = Len(states) + 1 THEN m ELSE states[i]
    BY <1>1
  <2> QED  BY <1>1, <1>2, <2>1
<1>3. CASE UNCHANGED states
  BY <1>1, <1>3
<1> QED  BY <1>2, <1>3 DEF Discord!Persists

LEMMA MarkedBegun ==
  ASSUME DiscordInv, NEW m \in Discord!Msgs, handler[m] \in {"mark", "persist"}
  PROVE  m \in begun /\ (handler[m] = "persist" => m \in lived)
  BY DEF DiscordInv, Marked, Handlers

(* A task for a gateway event.                                             *)
LEMMA LiveInv ==
  ASSUME DiscordInv, NEW m \in Discord!Msgs, Discord!Live(m)
  PROVE  DiscordInv'
<1>0. m \in Nat
  BY SizesAssumption DEF Discord!Msgs
<1>1. CASE Discord!LiveGate(m)
  <2>1. /\ \E v \in {"none", "dropped", "dedup"} : handler' = [handler EXCEPT ![m] = v]
        /\ UNCHANGED <<posted, foreign, Discord!mainVars, Discord!markVars,
                       Discord!catchVars, Discord!histVars>>
    BY <1>1 DEF Discord!LiveGate, Discord!LiveGoes
  <2>2. PICK v \in {"none", "dropped", "dedup"} : handler' = [handler EXCEPT ![m] = v]
    BY <2>1
  <2>3. Handlers(handler', begun, lived)
    BY <2>2, HandlersGo DEF DiscordInv, Marked, Steps
  <2>4. Types' /\ Marked'
    BY <2>1, <2>3 DEF DiscordInv, Types, Marked, Discord!mainVars, Discord!markVars,
                      Discord!histVars
  <2> QED  BY <2>1, <2>4 DEF DiscordInv, AllPassed, IsPassed, Discord!mainVars,
                             Discord!markVars, Discord!catchVars, Discord!histVars
<1>2. CASE Discord!LiveDedup(m)
  <2>1. UNCHANGED <<posted, foreign, Discord!mainVars, lastSeen, Discord!catchVars, lived>>
    BY <1>2 DEF Discord!LiveDedup
  <2>2. CASE Discord!InWindow(m)
    <3>1. handler' = [handler EXCEPT ![m] = "none"] /\ UNCHANGED <<window, begun>>
      BY <1>2, <2>2 DEF Discord!LiveDedup, Discord!LiveGoes
    <3>2. Types' /\ Marked'
      BY <2>1, <3>1, HandlersGo DEF DiscordInv, Types, Marked, Steps, Discord!mainVars
    <3> QED  BY <2>1, <3>1, <3>2 DEF DiscordInv, AllPassed, IsPassed, Discord!mainVars,
                                     Discord!catchVars
  <2>3. CASE ~Discord!InWindow(m)
    <3>1. handler' = [handler EXCEPT ![m] = "mark"] /\ Discord!Pushes(m)
      BY <1>2, <2>3 DEF Discord!LiveDedup, Discord!LiveGoes
    <3>2. Pushed(window', begun') /\ begun' = begun \cup {m}
      BY <1>0, <3>1, PushedWindow
    <3>3. Types'
      BY <2>1 DEF DiscordInv, Types, Discord!mainVars
    <3>4. Marked'
      BY <2>1, <3>1, <3>2, HandlersGo DEF DiscordInv, Marked, Steps
    <3>5. AllPassed'
      BY <2>1, <3>2, Grows DEF DiscordInv, AllPassed, IsPassed, Discord!mainVars,
                               Discord!catchVars
    <3> QED  BY <2>1, <3>3, <3>4, <3>5 DEF DiscordInv, Discord!catchVars
  <2> QED  BY <2>2, <2>3
<1>3. CASE Discord!LiveMark(m)
  <2>1. /\ handler[m] = "mark" /\ handler' = [handler EXCEPT ![m] = "persist"]
        /\ lastSeen' = m /\ lived' = lived \cup {m}
        /\ UNCHANGED <<posted, foreign, Discord!mainVars, Discord!catchVars, begun, window>>
    BY <1>3 DEF Discord!LiveMark, Discord!LiveGoes, Discord!Marks
  <2>2. Types' /\ Marked'
    BY <1>0, <2>1, HandlersGo, MarkedBegun DEF DiscordInv, Types, Marked, Steps,
                                               Discord!mainVars
  <2>3. Passed(m, foreign', begun', lived')
    BY <1>0, <2>1, MarkedBegun, PassedLive
  <2>4. AllPassed'
    BY <2>1, <2>3, Grows DEF DiscordInv, AllPassed, IsPassed, Discord!mainVars,
                             Discord!catchVars
  <2> QED  BY <2>1, <2>2, <2>4 DEF DiscordInv, Discord!catchVars
<1>4. CASE Discord!LivePersist(m)
  <2>1. /\ handler[m] = "persist" /\ handler' = [handler EXCEPT ![m] = "send"]
        /\ Discord!Persists(m) /\ UNCHANGED <<posted, foreign, Discord!catchVars,
                                              Discord!histVars, saved, Discord!markVars>>
    BY <1>4 DEF Discord!LivePersist, Discord!LiveGoes, Discord!Persists, Discord!idleMain,
                Discord!markVars
  <2>2. IsPassed(m)
    BY <1>0, <2>1, MarkedBegun, PassedLive DEF IsPassed
  <2>3. states' \in Seq(Nat) /\ \A i \in 1..Len(states') : IsPassed(states'[i])
    BY <1>0, <2>1, <2>2, PersistedStates
  <2>4. Types' /\ Marked'
    BY <2>1, <2>3, HandlersGo DEF DiscordInv, Types, Marked, Steps, Discord!markVars,
                                  Discord!histVars
  <2>5. AllPassed'
    BY <2>1, <2>3 DEF DiscordInv, AllPassed, IsPassed, Discord!markVars,
                      Discord!catchVars, Discord!histVars
  <2> QED  BY <2>1, <2>4, <2>5 DEF DiscordInv, Discord!catchVars
<1>5. CASE Discord!LiveSend(m)
  <2>1. /\ handler' = [handler EXCEPT ![m] = "none"]
        /\ UNCHANGED <<states, saved, posted, foreign, Discord!markVars,
                       Discord!catchVars, begun, lived>>
    BY <1>5 DEF Discord!LiveSend, Discord!LiveGoes, Discord!Delivers, Discord!Send,
                Discord!idleMain
  <2>2. Types' /\ Marked'
    BY <2>1, HandlersGo DEF DiscordInv, Types, Marked, Steps, Discord!markVars
  <2> QED  BY <2>1, <2>2 DEF DiscordInv, AllPassed, IsPassed, Discord!markVars,
                             Discord!catchVars
<1> QED  BY <1>1, <1>2, <1>3, <1>4, <1>5 DEF Discord!Live

(* The catchup: its cursor goes over what was handled, is in the window    *)
(* and so was, or is foreign.                                              *)
LEMMA ItemInv ==
  ASSUME DiscordInv, Discord!CatchItem
  PROVE  DiscordInv'
<1> DEFINE m == Head(page)
<1>1. /\ catch = "item" /\ page # <<>>
      /\ after' = (IF m > after THEN m ELSE after)
      /\ UNCHANGED <<posted, foreign, Discord!mainVars, handler, lastSeen, lived>>
  BY DEF Discord!CatchItem
<1>2. /\ after \in Nat /\ m = after + 1
      /\ Shape("item", Tail(page), m) /\ Shape("mark", page, m)
  <2>1. Shape("item", page, after)
    BY <1>1 DEF DiscordInv
  <2>2. /\ Head(page) = after + 1
        /\ Shape("item", Tail(page), after + 1) /\ Shape("mark", page, after + 1)
    BY <1>1, <2>1, ShapeOfItem
  <2> QED  BY <2>1, <2>2 DEF Shape
<1>3. m \in Nat /\ after' = m
  BY <1>1, <1>2
<1>4. IsPassed(after) /\ Types'
  BY <1>1 DEF DiscordInv, AllPassed, Types, Discord!mainVars
<1> HIDE DEF m
<1>5. CASE m \in foreign \cup begun /\ Discord!CatchSkips
  <2>1. UNCHANGED <<catch, window, begun>> /\ page' = Tail(page)
    BY <1>5 DEF Discord!CatchSkips
  <2>2. Passed(m, foreign, begun, lived)
    BY <1>2, <1>4, <1>5, PassedNext DEF IsPassed
  <2>3. Marked' /\ Shape(catch, page, after)'
    BY <1>1, <1>2, <1>3, <2>1 DEF DiscordInv, Marked
  <2>4. AllPassed'
    BY <1>1, <1>3, <2>1, <2>2 DEF DiscordInv, AllPassed, IsPassed, Discord!mainVars
  <2> QED  BY <1>4, <2>3, <2>4 DEF DiscordInv
<1>6. CASE Discord!Pushes(m) /\ catch' = "mark" /\ UNCHANGED page
  <2>1. Pushed(window', begun') /\ begun' = begun \cup {m}
    BY <1>3, <1>6, PushedWindow
  <2>2. Handlers(handler', begun', lived')
    BY <1>1, <2>1 DEF DiscordInv, Marked, Handlers
  <2>3. Passed(after, foreign, begun', lived)
    BY <1>1, <1>4, <2>1, Grows
  <2>4. Passed(m, foreign, begun', lived)
    BY <1>2, <2>1, <2>3, PassedNext
  <2>5. AllPassed'
    BY <1>1, <1>3, <2>1, <2>4, Grows DEF DiscordInv, AllPassed, IsPassed, Discord!mainVars
  <2> QED  BY <1>1, <1>2, <1>3, <1>4, <1>6, <2>1, <2>2, <2>5 DEF DiscordInv, Marked
<1>7. ~Discord!Mine(m) \/ Discord!InWindow(m) => m \in foreign \cup begun
  BY DEF Discord!Mine, Discord!InWindow, DiscordInv, Marked, Pushed
<1> QED  BY <1>5, <1>6, <1>7 DEF Discord!CatchItem, m

LEMMA CatchupInv ==
  ASSUME DiscordInv, Discord!Catchup
  PROVE  DiscordInv'
<1>1. CASE Discord!CatchItem
  BY <1>1, ItemInv
<1>2. CASE Discord!CatchMark
  <2>1. /\ catch = "mark" /\ catch' = "persist" /\ lastSeen' = Head(page) /\ UNCHANGED window
        /\ UNCHANGED <<posted, foreign, Discord!mainVars, handler, after, page,
                       Discord!histVars>>
    BY <1>2 DEF Discord!CatchMark, Discord!CatchGoes, Discord!Marks
  <2>2. Head(page) = after /\ Shape("persist", page, after) /\ after \in Nat
    BY <2>1, ShapeOfWork DEF DiscordInv, Shape, Working
  <2>3. Types' /\ Marked'
    BY <2>1, <2>2 DEF DiscordInv, Types, Marked, Discord!mainVars, Discord!histVars
  <2>4. AllPassed'
    BY <2>1, <2>2 DEF DiscordInv, AllPassed, IsPassed, Discord!mainVars, Discord!histVars
  <2> QED  BY <2>1, <2>2, <2>3, <2>4 DEF DiscordInv
<1>3. CASE Discord!CatchPersist
  <2>1. /\ catch = "persist" /\ catch' = "send" /\ Discord!Persists(Head(page))
        /\ UNCHANGED <<posted, foreign, saved, handler, window, lastSeen, after, page,
                       Discord!histVars>>
    BY <1>3 DEF Discord!CatchPersist, Discord!CatchGoes, Discord!Persists, Discord!idleMain,
                Discord!markVars
  <2>2. Head(page) = after /\ Shape("send", page, after) /\ after \in Nat
    BY <2>1, ShapeOfWork DEF DiscordInv, Shape, Working
  <2>3. states' \in Seq(Nat) /\ \A i \in 1..Len(states') : IsPassed(states'[i])
    BY <2>1, <2>2, PersistedStates DEF DiscordInv, AllPassed
  <2>4. Types' /\ Marked'
    BY <2>1, <2>3 DEF DiscordInv, Types, Marked, Discord!histVars
  <2>5. AllPassed'
    BY <2>1, <2>3 DEF DiscordInv, AllPassed, IsPassed, Discord!histVars
  <2> QED  BY <2>1, <2>2, <2>4, <2>5 DEF DiscordInv
<1>4. CASE Discord!CatchSend
  <2>1. /\ catch = "send" /\ catch' \in {"page", "item"} /\ page' = Tail(page)
        /\ UNCHANGED <<posted, foreign, saved, states, handler, Discord!markVars, after,
                       begun, lived>>
    BY <1>4 DEF Discord!CatchSend, Discord!CatchGoes, Discord!Delivers, Discord!Send,
                Discord!idleMain
  <2>2. Shape("item", Tail(page), after) /\ Shape("page", Tail(page), after)
    BY <2>1, ShapeOfSend DEF DiscordInv
  <2>3. Types' /\ Marked' /\ AllPassed'
    BY <2>1 DEF DiscordInv, Types, Marked, AllPassed, IsPassed, Discord!markVars
  <2> QED  BY <2>1, <2>2, <2>3 DEF DiscordInv
<1>5. CASE Discord!CatchBegin \/ Discord!CatchFetch \/ Discord!CatchFails \/ Discord!CatchPage
  <2>1. UNCHANGED <<posted, foreign, Discord!mainVars, handler, Discord!markVars,
      Discord!histVars>>
    BY <1>5 DEF Discord!CatchBegin, Discord!CatchFetch, Discord!CatchFails, Discord!CatchPage
  <2>2. Types' /\ Marked'
    BY <2>1 DEF DiscordInv, Types, Marked, Discord!mainVars, Discord!markVars, Discord!histVars
  <2>3. after \in Nat /\ lastSeen \in Nat /\ posted \in Nat /\ Shape(catch, page, after)
    BY DEF DiscordInv, Types, Shape
  <2>4. after' \in {0, lastSeen, after} /\ Shape(catch', page', after')
    <3>1. CASE catch' = "idle" /\ page' = <<>> /\ after' = 0
      BY <3>1 DEF Shape, Working
    <3>2. CASE catch' = "fetch" /\ page' \in {page, <<>>} /\ after' \in {after, lastSeen}
      <4>1. \A p \in {page, <<>>}, a \in {after, lastSeen} : Shape("fetch", p, a)
        <5>1. page \in Seq(Nat) /\ <<>> \in Seq(Nat)
          BY <2>3 DEF Shape
        <5> SUFFICES ASSUME NEW p \in {page, <<>>}, NEW a \in {after, lastSeen}
                     PROVE  p \in Seq(Nat) /\ a \in Nat
          BY DEF Shape, Working
        <5> QED  BY <2>3, <5>1
      <4> QED  BY <3>2, <4>1
    <3>3. CASE Discord!CatchFetch
      <4>1. Discord!PageLength \in Int
        BY <2>3, SizesAssumption DEF Discord!PageLength
      <4>2. catch' = "item" /\ page' = [i \in 1..Discord!PageLength |-> after + i] /\ after' = after
        BY <3>3 DEF Discord!CatchFetch, Discord!CatchGoes
      <4> QED  BY <2>3, <4>1, <4>2, ShapeOfPage
    <3> QED
      BY <1>5, <3>1, <3>2, <3>3 DEF Discord!CatchBegin, Discord!CatchFails,
                                    Discord!CatchPage, Discord!CatchGoes, Discord!CatchIdle,
                                    Discord!CatchDrops
  <2>5. Passed(0, foreign, begun, lived)
    BY DEF Passed
  <2>6. AllPassed'
    BY <2>1, <2>4, <2>5 DEF DiscordInv, AllPassed, IsPassed, Discord!mainVars,
                            Discord!markVars, Discord!histVars
  <2> QED  BY <2>2, <2>4, <2>6 DEF DiscordInv
<1> QED  BY <1>1, <1>2, <1>3, <1>4, <1>5 DEF Discord!Catchup

LEMMA MainInv ==
  ASSUME DiscordInv, Discord!Main
  PROVE  DiscordInv'
<1>1. UNCHANGED <<posted, foreign, handler, Discord!markVars, Discord!histVars>>
  BY DEF Discord!Main, Discord!MainGap, Discord!MainState, Discord!SpawnCatchup
<1>2. CASE Discord!MainGap
  BY <1>1, <1>2 DEF Discord!MainGap, Discord!StartGap, Discord!Resume,
                    Discord!TakeCommand, DiscordInv, Types, Marked, AllPassed, IsPassed,
                    Discord!markVars, Discord!histVars, Discord!catchVars
<1>3. CASE Discord!SpawnCatchup
  <2>1. /\ UNCHANGED <<states, saved, after, page>>
        /\ catch' = "begin" \/ catch' = catch
    BY <1>3 DEF Discord!SpawnCatchup, Discord!Spawn
  <2>2. Shape(catch', page, after)
    BY <2>1 DEF DiscordInv, Shape, Working
  <2> QED
    BY <1>1, <2>1, <2>2 DEF DiscordInv, Types, Marked, AllPassed, IsPassed,
                            Discord!markVars, Discord!histVars
<1>4. CASE Discord!MainState
  <2>1. /\ states # <<>> /\ states' = Tail(states)
        /\ saved' = Head(states) \/ saved' = saved
        /\ UNCHANGED Discord!catchVars
    BY <1>4 DEF Discord!MainState, Discord!TakeState
  <2>2. /\ states \in Seq(Nat) /\ \A i \in 1..Len(states) : IsPassed(states[i])
    BY DEF DiscordInv, Types, AllPassed
  <2>3. /\ Head(states) \in Nat /\ IsPassed(Head(states))
        /\ Tail(states) \in Seq(Nat) /\ Len(Tail(states)) = Len(states) - 1
        /\ \A i \in 1..Len(states) - 1 : Tail(states)[i] = states[i + 1]
    BY <2>1, <2>2
  <2>4. \A i \in 1..Len(states) - 1 : IsPassed(Tail(states)[i])
    BY <2>2, <2>3
  <2>5. Types' /\ Marked'
    BY <1>1, <2>1, <2>3 DEF DiscordInv, Types, Marked, Discord!markVars, Discord!histVars
  <2>6. AllPassed'
    BY <1>1, <2>1, <2>3, <2>4 DEF DiscordInv, AllPassed, IsPassed, Discord!markVars,
                                  Discord!histVars, Discord!catchVars
  <2> QED  BY <2>1, <2>5, <2>6 DEF DiscordInv, Discord!catchVars
<1> QED  BY <1>2, <1>3, <1>4 DEF Discord!Main

(* A request or a handler that never comes back.                           *)
LEMMA UnansweredInv ==
  ASSUME DiscordInv, Discord!Unanswered
  PROVE  DiscordInv'
<1>1. CASE Discord!CatchStalls
  <2>1. /\ UNCHANGED <<posted, foreign, Discord!mainVars, handler, Discord!markVars,
                       Discord!histVars>>
        /\ catch' = "stalled" /\ page' = <<>> /\ after' = 0
    BY <1>1 DEF Discord!CatchStalls, Discord!CatchDrops
  <2>2. Types' /\ Marked'
    BY <2>1 DEF DiscordInv, Types, Marked, Discord!mainVars, Discord!markVars, Discord!histVars
  <2>3. Passed(0, foreign, begun, lived) /\ Shape("stalled", <<>>, 0)
    BY DEF Passed, Shape, Working
  <2>4. AllPassed'
    BY <2>1, <2>3 DEF DiscordInv, AllPassed, IsPassed, Discord!mainVars, Discord!markVars,
                      Discord!histVars
  <2> QED  BY <2>1, <2>2, <2>3, <2>4 DEF DiscordInv
<1>2. CASE Discord!MainHangs
  BY <1>2 DEF Discord!MainHangs, Discord!Hang, DiscordInv, Types, Marked, AllPassed, IsPassed,
              Discord!markVars, Discord!catchVars, Discord!histVars
<1> QED  BY <1>1, <1>2 DEF Discord!Unanswered

LEMMA DiscordNext ==
  ASSUME DiscordInv, Discord!Next
  PROVE  DiscordInv'
BY WorldInv, UnansweredInv, MainInv, CatchupInv, LiveInv DEF Discord!Next

------------------------------------------------------------------------------
(* The count of a message: g times given to main, h what its gateway task  *)
(* does, c whether the catchup is at it, e times given up by the window, w *)
(* whether the window has it.  Who begins with it takes a place in the     *)
(* window, and the place is free again only after an eviction.             *)
One(b) == IF b THEN 1 ELSE 0

Credit(g, h, c, e, w) ==
  /\ g \in Nat /\ e \in Nat
  /\ g + One(h \in Working) + One(c) <= e + One(w)

IsAt(c, p, m) == c \in Working /\ p # <<>> /\ Head(p) = m

IsIn(w, m) == \E i \in 1..Len(w) : w[i] = m

OnceEach ==
  /\ posted <= MaxMsgs
  /\ window \in Seq(Discord!Msgs) /\ page \in Seq(Discord!Msgs)
  /\ got \in [Discord!Msgs -> Nat] /\ evicted \in [Discord!Msgs -> Nat]
  /\ \A m \in Discord!Msgs :
        Credit(got[m], handler[m], IsAt(catch, page, m), evicted[m], IsIn(window, m))

LEMMA CreditBound ==
  ASSUME NEW g, NEW h, NEW c, NEW e, NEW w, Credit(g, h, c, e, w)
  PROVE  g <= 1 + e
BY DEF Credit, One

(* Tasks may go on, or stop, with what they have.                          *)
LEMMA CreditStays ==
  ASSUME NEW g, NEW h, NEW c, NEW e, NEW w, Credit(g, h, c, e, w),
         NEW h1, NEW c1, h1 \in Working => h \in Working, c1 => c
  PROVE  Credit(g, h1, c1, e, w)
BY DEF Credit, One

(* The window may give a message up.                                       *)
LEMMA CreditKept ==
  ASSUME NEW g, NEW h, NEW c, NEW e, NEW w, Credit(g, h, c, e, w),
         NEW e1 \in Nat, NEW w1, e <= e1, w => w1 \/ e + 1 <= e1
  PROVE  Credit(g, h, c, e1, w1)
BY DEF Credit, One

(* Somebody pushes it, and begins.                                         *)
LEMMA CreditBegins ==
  ASSUME NEW g, NEW h, NEW c, NEW e, Credit(g, h, c, e, FALSE),
         NEW e1 \in Nat, e <= e1
  PROVE  /\ h \notin Working => Credit(g, "mark", c, e1, TRUE)
         /\ ~c => Credit(g, h, TRUE, e1, TRUE)
<1>1. "mark" \in Working
  BY DEF Working
<1> QED  BY <1>1 DEF Credit, One

(* Main gets it, and who had it is at the end.                             *)
LEMMA CreditSpent ==
  ASSUME NEW g, NEW h, NEW c, NEW e, NEW w, Credit(g, h, c, e, w)
  PROVE  /\ h \in Working => Credit(g + 1, "none", c, e, w)
         /\ c => Credit(g + 1, h, FALSE, e, w)
<1>1. "none" \notin Working
  BY DEF Working
<1> QED  BY <1>1 DEF Credit, One

LEMMA WindowTakes ==
  ASSUME window \in Seq(Discord!Msgs), evicted \in [Discord!Msgs -> Nat],
         NEW m \in Discord!Msgs, Discord!Pushes(m)
  PROVE  /\ window' \in Seq(Discord!Msgs) /\ evicted' \in [Discord!Msgs -> Nat]
         /\ IsIn(window', m)
         /\ \A k \in Discord!Msgs :
              /\ evicted[k] <= evicted'[k]
              /\ IsIn(window, k) => IsIn(window', k) \/ evicted[k] + 1 <= evicted'[k]
<1>1. CASE Len(window) < WindowCap /\ window' = Append(window, m) /\ UNCHANGED evicted
  <2>1. PICK a : a = Append(window, m)
    OBVIOUS
  <2>2. /\ a \in Seq(Discord!Msgs) /\ Len(a) = Len(window) + 1 /\ Len(window) \in Nat
        /\ a[Len(window) + 1] = m /\ \A i \in 1..Len(window) : a[i] = window[i]
    BY <2>1
  <2>3. Len(window) + 1 \in 1..Len(a) /\ \A i \in 1..Len(window) : i \in 1..Len(a)
    BY <2>2
  <2>4. IsIn(a, m) /\ \A k : IsIn(window, k) => IsIn(a, k)
    BY <2>2, <2>3 DEF IsIn
  <2>5. \A k \in Discord!Msgs : evicted[k] \in Nat
    OBVIOUS
  <2> QED  BY <1>1, <2>1, <2>2, <2>4, <2>5
<1>2. CASE /\ Len(window) >= WindowCap /\ window' = Append(Tail(window), m)
           /\ evicted' = IF Head(window) = m THEN evicted
                         ELSE [evicted EXCEPT ![Head(window)] = @ + 1]
  <2>1. window # <<>> /\ Len(window) \in Nat
    BY <1>2, SizesAssumption
  <2>2. PICK a : a = Append(Tail(window), m)
    OBVIOUS
  <2>3. PICK t : t = Tail(window)
    OBVIOUS
  <2>4. /\ t \in Seq(Discord!Msgs) /\ Len(t) = Len(window) - 1
        /\ \A i \in 1..Len(t) : t[i] = window[i + 1]
        /\ Head(window) = window[1] /\ Head(window) \in Discord!Msgs
    BY <2>1, <2>3
  <2>5. /\ a \in Seq(Discord!Msgs) /\ Len(a) = Len(t) + 1 /\ Len(t) \in Nat
        /\ a[Len(t) + 1] = m /\ \A i \in 1..Len(t) : a[i] = t[i]
    BY <2>2, <2>3, <2>4
  <2>6. Len(t) + 1 \in 1..Len(a) /\ \A i \in 1..Len(t) : i \in 1..Len(a)
    BY <2>5
  <2>7. IsIn(a, m)
    BY <2>5, <2>6 DEF IsIn
  <2>8. ASSUME NEW k, IsIn(window, k), k # Head(window)
        PROVE  IsIn(a, k)
    <3>1. PICK i \in 1..Len(window) : window[i] = k
      BY <2>8 DEF IsIn
    <3>2. i # 1
      BY <2>4, <2>8, <3>1
    <3>3. i - 1 \in 1..Len(t) /\ (i - 1) + 1 = i
      BY <2>1, <2>4, <3>2
    <3>4. a[i - 1] = k
      BY <2>4, <2>5, <3>1, <3>3
    <3> QED  BY <2>6, <3>3, <3>4 DEF IsIn
  <2>9. /\ evicted' \in [Discord!Msgs -> Nat]
        /\ \A k \in Discord!Msgs :
             evicted'[k] = IF k = Head(window) /\ k # m THEN evicted[k] + 1 ELSE evicted[k]
        /\ \A k \in Discord!Msgs : evicted[k] \in Nat
    BY <1>2, <2>4
  <2>10. \A k \in Discord!Msgs :
           /\ evicted[k] <= evicted'[k]
           /\ IsIn(window, k) => IsIn(a, k) \/ evicted[k] + 1 <= evicted'[k]
    <3> SUFFICES ASSUME NEW k \in Discord!Msgs
                 PROVE  /\ evicted[k] <= evicted'[k]
                        /\ IsIn(window, k) => IsIn(a, k) \/ evicted[k] + 1 <= evicted'[k]
      OBVIOUS
    <3>1. evicted[k] \in Nat
      BY <2>9
    <3>2. CASE k = Head(window)
      BY <2>7, <2>9, <3>1, <3>2
    <3>3. CASE k # Head(window)
      BY <2>8, <2>9, <3>1, <3>3
    <3> QED  BY <3>2, <3>3
  <2> QED  BY <1>2, <2>2, <2>5, <2>7, <2>9, <2>10
<1> QED  BY <1>1, <1>2 DEF Discord!Pushes

LEMMA InitOnce ==
  ASSUME Discord!Init
  PROVE  OnceEach
<1>1. /\ posted \in 0..MaxMsgs /\ window = <<>> /\ page = <<>> /\ catch = "idle"
      /\ evicted = got
      /\ got = [m \in Discord!Msgs |-> 0] /\ handler = [m \in Discord!Msgs |-> "none"]
  BY SizesAssumption DEF Discord!Init, Discord!MainInit
<1>2. window \in Seq(Discord!Msgs) /\ page \in Seq(Discord!Msgs) /\ got \in [Discord!Msgs -> Nat]
  BY <1>1
<1>3. \A m \in Discord!Msgs :
        Credit(got[m], handler[m], IsAt(catch, page, m), evicted[m], IsIn(window, m))
  BY <1>1 DEF Credit, One, Working, IsAt, IsIn
<1> QED  BY <1>1, <1>2, <1>3, SizesAssumption DEF OnceEach

(* A step that gives nothing to main, at which the tasks of at most m go   *)
(* on, with the window as it is.                                           *)
LEMMA OnceStays ==
  ASSUME OnceEach, UNCHANGED <<posted, window, page, got, evicted>>,
         handler' = handler \/ \E m \in Discord!Msgs, v \in Steps :
            /\ handler' = [handler EXCEPT ![m] = v]
            /\ v \in Working => handler[m] \in Working,
         catch' \in Working <=> catch \in Working,
         handler \in [Discord!Msgs -> Steps]
  PROVE  OnceEach'
<1>1. \A m \in Discord!Msgs : handler'[m] \in Working => handler[m] \in Working
  OBVIOUS
<1>2. \A m \in Discord!Msgs :
        Credit(got[m], handler'[m], IsAt(catch', page, m), evicted[m], IsIn(window, m))
  BY <1>1, CreditStays DEF OnceEach, IsAt
<1> QED  BY <1>2 DEF OnceEach

(* A step of the catchup between two messages.                             *)
LEMMA OnceIdle ==
  ASSUME OnceEach, UNCHANGED <<posted, window, got, evicted, handler>>,
         page' \in Seq(Discord!Msgs), catch' \notin Working
  PROVE  OnceEach'
<1>1. \A m \in Discord!Msgs :
        Credit(got[m], handler[m], IsAt(catch', page', m), evicted[m], IsIn(window, m))
  BY CreditStays DEF OnceEach, IsAt
<1> QED  BY <1>1 DEF OnceEach

LEMMA WorldOnce ==
  ASSUME DiscordInv, OnceEach, Discord!World
  PROVE  OnceEach'
<1>1. handler \in [Discord!Msgs -> Steps]
  BY DEF DiscordInv, Marked, Handlers
<1>2. ASSUME NEW pushed \in BOOLEAN, Discord!Post(pushed)
      PROVE  OnceEach'
  <2>1. /\ posted' = posted + 1 /\ posted < MaxMsgs
        /\ UNCHANGED <<window, page, got, evicted, catch>>
        /\ handler' = [handler EXCEPT ![posted + 1] = IF pushed THEN "event" ELSE "none"]
    BY <1>2 DEF Discord!Post, Discord!markVars, Discord!catchVars, Discord!histVars
  <2>2. \A m \in Discord!Msgs : handler'[m] \in Working => handler[m] \in Working
    BY <1>1, <2>1 DEF Working
  <2>3. \A m \in Discord!Msgs :
          Credit(got[m], handler'[m], IsAt(catch, page, m), evicted[m], IsIn(window, m))
    BY <2>2, CreditStays DEF OnceEach
  <2>4. posted' <= MaxMsgs
    <3>1. posted \in Nat /\ MaxMsgs \in Nat
      BY SizesAssumption DEF DiscordInv, Types
    <3> QED  BY <2>1, <3>1
  <2> QED  BY <2>1, <2>3, <2>4 DEF OnceEach
<1>3. CASE Discord!Wake
  BY <1>1, <1>3, OnceStays DEF Discord!Wake, Discord!markVars, Discord!catchVars,
                               Discord!histVars
<1>4. CASE Discord!Restart
  <2>1. /\ window' = <<>> /\ page' = <<>> /\ catch' = "idle" /\ posted' = posted
        /\ got' = [m \in Discord!Msgs |-> 0] /\ evicted' = got'
        /\ handler' = [m \in Discord!Msgs |-> "none"]
    BY <1>4 DEF Discord!Restart, Discord!CatchIdle, Discord!CatchDrops
  <2>2. /\ window' \in Seq(Discord!Msgs) /\ page' \in Seq(Discord!Msgs)
        /\ got' \in [Discord!Msgs -> Nat]
    BY <2>1
  <2>3. \A m \in Discord!Msgs :
          Credit(got'[m], handler'[m], IsAt(catch', page', m), evicted'[m], IsIn(window', m))
    BY <2>1 DEF Credit, One, Working, IsAt, IsIn
  <2> QED  BY <2>1, <2>2, <2>3 DEF OnceEach
<1> QED  BY <1>2, <1>3, <1>4 DEF Discord!World

(* Main gets a message that was begun, and its task is at its end.         *)
LEMMA OnceGiven ==
  ASSUME OnceEach, NEW m \in Discord!Msgs, UNCHANGED <<posted, window, evicted>>,
         got' = [got EXCEPT ![m] = @ + 1],
         Credit(got[m] + 1, handler'[m], IsAt(catch', page', m), evicted[m], IsIn(window, m)),
         page' \in Seq(Discord!Msgs),
         \A k \in Discord!Msgs \ {m} :
            handler'[k] = handler[k] /\ (IsAt(catch', page', k) => IsAt(catch, page, k))
  PROVE  OnceEach'
<1>1. /\ got' \in [Discord!Msgs -> Nat] /\ got'[m] = got[m] + 1
      /\ \A k \in Discord!Msgs \ {m} : got'[k] = got[k]
  BY DEF OnceEach
<1>2. \A k \in Discord!Msgs \ {m} :
        Credit(got'[k], handler'[k], IsAt(catch', page', k), evicted[k], IsIn(window, k))
  BY <1>1, CreditStays DEF OnceEach
<1>3. \A k \in Discord!Msgs :
        Credit(got'[k], handler'[k], IsAt(catch', page', k), evicted[k], IsIn(window, k))
  BY <1>1, <1>2
<1> QED  BY <1>1, <1>3 DEF OnceEach

LEMMA LiveOnce ==
  ASSUME DiscordInv, OnceEach, NEW m \in Discord!Msgs, Discord!Live(m)
  PROVE  OnceEach'
<1>1. handler \in [Discord!Msgs -> Steps]
  BY DEF DiscordInv, Marked, Handlers
<1>2. Credit(got[m], handler[m], IsAt(catch, page, m), evicted[m], IsIn(window, m))
  BY DEF OnceEach
<1>3. CASE Discord!LiveGate(m)
  <2>1. /\ UNCHANGED <<posted, window, page, got, evicted, catch>>
        /\ \E v \in {"none", "dropped", "dedup"} : handler' = [handler EXCEPT ![m] = v]
    BY <1>3 DEF Discord!LiveGate, Discord!LiveGoes, Discord!markVars, Discord!catchVars,
                Discord!histVars
  <2> QED  BY <1>1, <2>1, OnceStays DEF Steps, Working
<1>4. CASE Discord!LiveDedup(m)
  <2>1. handler[m] = "dedup" /\ UNCHANGED <<posted, page, catch, got>>
    BY <1>4 DEF Discord!LiveDedup, Discord!LiveGoes, Discord!catchVars
  <2>2. Discord!InWindow(m) <=> IsIn(window, m)
    <3>1. DOMAIN window = 1..Len(window)
      BY DEF OnceEach
    <3> QED  BY <3>1 DEF Discord!InWindow, IsIn
  <2>3. CASE IsIn(window, m)
    <3>1. handler' = [handler EXCEPT ![m] = "none"] /\ UNCHANGED <<window, evicted>>
      BY <1>4, <2>2, <2>3 DEF Discord!LiveDedup, Discord!LiveGoes
    <3> QED  BY <1>1, <2>1, <3>1, OnceStays DEF Steps, Working
  <2>4. CASE ~IsIn(window, m)
    <3>1. handler' = [handler EXCEPT ![m] = "mark"] /\ Discord!Pushes(m)
      BY <1>4, <2>2, <2>4 DEF Discord!LiveDedup, Discord!LiveGoes
    <3>2. /\ window' \in Seq(Discord!Msgs) /\ evicted' \in [Discord!Msgs -> Nat]
          /\ IsIn(window', m)
          /\ \A k \in Discord!Msgs :
               /\ evicted[k] <= evicted'[k]
               /\ IsIn(window, k) => IsIn(window', k) \/ evicted[k] + 1 <= evicted'[k]
      BY <3>1, WindowTakes DEF OnceEach
    <3>3. \A k \in Discord!Msgs : evicted'[k] \in Nat
      BY <3>2
    <3>4. Credit(got[m], "mark", IsAt(catch, page, m), evicted'[m], IsIn(window', m))
      <4>1. handler[m] \notin Working /\ IsIn(window, m) = FALSE /\ IsIn(window', m) = TRUE
        BY <2>1, <2>4, <3>2 DEF Working, IsIn
      <4>2. Credit(got[m], handler[m], IsAt(catch, page, m), evicted[m], FALSE)
        BY <1>2, <4>1
      <4>3. Credit(got[m], "mark", IsAt(catch, page, m), evicted'[m], TRUE)
        BY <3>2, <3>3, <4>1, <4>2, CreditBegins
      <4> QED  BY <4>1, <4>3
    <3>5. /\ handler'[m] = "mark"
          /\ \A k \in Discord!Msgs \ {m} : handler'[k] = handler[k]
      BY <1>1, <3>1
    <3>6. \A k \in Discord!Msgs \ {m} :
            Credit(got[k], handler[k], IsAt(catch, page, k), evicted'[k], IsIn(window', k))
      BY <3>2, <3>3, CreditKept DEF OnceEach
    <3>7. \A k \in Discord!Msgs :
            Credit(got[k], handler'[k], IsAt(catch, page, k), evicted'[k], IsIn(window', k))
      BY <3>4, <3>5, <3>6
    <3> QED  BY <2>1, <3>2, <3>7 DEF OnceEach
  <2> QED  BY <2>3, <2>4
<1>5. CASE Discord!LiveMark(m) \/ Discord!LivePersist(m)
  <2>1. /\ handler[m] \in Working /\ UNCHANGED <<posted, window, page, got, evicted, catch>>
        /\ \E v \in Working : handler' = [handler EXCEPT ![m] = v]
    BY <1>5 DEF Discord!LiveMark, Discord!LivePersist, Discord!LiveGoes, Discord!Marks,
                Discord!Persists, Discord!markVars, Discord!catchVars, Discord!histVars, Working
  <2> QED  BY <1>1, <2>1, OnceStays DEF Steps, Working
<1>6. CASE Discord!LiveSend(m)
  <2>1. /\ handler[m] = "send" /\ handler' = [handler EXCEPT ![m] = "none"]
        /\ got' = [got EXCEPT ![m] = @ + 1] /\ UNCHANGED <<posted, window, page, evicted, catch>>
    BY <1>6 DEF Discord!LiveSend, Discord!LiveGoes, Discord!Delivers, Discord!markVars,
                Discord!catchVars
  <2>2. Credit(got[m] + 1, "none", IsAt(catch, page, m), evicted[m], IsIn(window, m))
    BY <1>2, <2>1, CreditSpent DEF Working
  <2>3. handler'[m] = "none" /\ \A k \in Discord!Msgs \ {m} : handler'[k] = handler[k]
    BY <1>1, <2>1
  <2>4. page' \in Seq(Discord!Msgs)
    BY <2>1 DEF OnceEach
  <2>5. Credit(got[m] + 1, handler'[m], IsAt(catch', page', m), evicted[m], IsIn(window, m))
    BY <2>1, <2>2, <2>3
  <2>6. \A k : IsAt(catch', page', k) => IsAt(catch, page, k)
    BY <2>1
  <2>7. UNCHANGED <<posted, window, evicted>>
    BY <2>1
  <2> QED  BY <2>1, <2>3, <2>4, <2>5, <2>6, <2>7, OnceGiven
<1> QED  BY <1>3, <1>4, <1>5, <1>6 DEF Discord!Live

LEMMA CatchupOnce ==
  ASSUME DiscordInv, OnceEach, Discord!Catchup
  PROVE  OnceEach'
<1>1. handler \in [Discord!Msgs -> Steps]
  BY DEF DiscordInv, Marked, Handlers
<1>2. page \in Seq(Discord!Msgs) /\ (page # <<>> => Head(page) \in Discord!Msgs)
  BY DEF OnceEach
<1>3. CASE Discord!CatchItem
  <2>1. /\ catch = "item" /\ page # <<>> /\ UNCHANGED <<posted, handler, got>>
    BY <1>3 DEF Discord!CatchItem
  <2>2. CASE Discord!CatchSkips
    <3>1. page' = Tail(page) /\ UNCHANGED <<catch, window, evicted>>
      BY <2>2 DEF Discord!CatchSkips
    <3> QED  BY <1>2, <2>1, <3>1, OnceIdle DEF Working
  <2>3. CASE ~Discord!CatchSkips
    <3> DEFINE m == Head(page)
    <3>1. ~Discord!InWindow(m) /\ Discord!Pushes(m) /\ catch' = "mark" /\ page' = page
      BY <1>3, <2>3 DEF Discord!CatchItem
    <3>2. m \in Discord!Msgs
      BY <1>2, <2>1
    <3> HIDE DEF m
    <3>3. IsIn(window, m) = FALSE
      BY <3>1 DEF Discord!InWindow, IsIn, OnceEach
    <3>4. /\ window' \in Seq(Discord!Msgs) /\ evicted' \in [Discord!Msgs -> Nat]
          /\ IsIn(window', m) = TRUE
          /\ \A k \in Discord!Msgs :
               /\ evicted[k] <= evicted'[k]
               /\ IsIn(window, k) => IsIn(window', k) \/ evicted[k] + 1 <= evicted'[k]
      BY <3>1, <3>2, WindowTakes DEF OnceEach, IsIn
    <3>5. \A k \in Discord!Msgs : evicted'[k] \in Nat
      BY <3>4
    <3>6. \A k : IsAt(catch, page, k) = FALSE
      BY <2>1 DEF IsAt, Working
    <3>7. \A k : IsAt("mark", page, k) = (k = m)
      BY <2>1 DEF IsAt, Working, m
    <3>8. Credit(got[m], handler[m], IsAt("mark", page, m), evicted'[m], IsIn(window', m))
      <4>1. Credit(got[m], handler[m], FALSE, evicted[m], FALSE)
        BY <3>2, <3>3, <3>6 DEF OnceEach
      <4>2. Credit(got[m], handler[m], TRUE, evicted'[m], TRUE)
        BY <3>2, <3>4, <3>5, <4>1, CreditBegins
      <4>3. IsAt("mark", page, m) = TRUE
        BY <3>7
      <4> QED  BY <3>4, <4>2, <4>3
    <3>9. \A k \in Discord!Msgs \ {m} :
            Credit(got[k], handler[k], IsAt("mark", page, k), evicted'[k], IsIn(window', k))
      <4>1. ASSUME NEW k \in Discord!Msgs \ {m}
            PROVE  Credit(got[k], handler[k], FALSE, evicted'[k], IsIn(window', k))
        <5>1. Credit(got[k], handler[k], FALSE, evicted[k], IsIn(window, k))
          BY <3>6 DEF OnceEach
        <5>2. evicted'[k] \in Nat /\ evicted[k] <= evicted'[k]
          BY <3>4, <3>5
        <5>3. IsIn(window, k) => IsIn(window', k) \/ evicted[k] + 1 <= evicted'[k]
          BY <3>4
        <5> QED  BY <5>1, <5>2, <5>3, CreditKept
      <4>2. \A k \in Discord!Msgs \ {m} : IsAt("mark", page, k) = FALSE
        BY <3>7
      <4> QED  BY <4>1, <4>2
    <3>10. \A k \in Discord!Msgs :
             Credit(got[k], handler[k], IsAt("mark", page, k), evicted'[k], IsIn(window', k))
      BY <3>8, <3>9
    <3> QED  BY <2>1, <3>1, <3>4, <3>10 DEF OnceEach
  <2> QED  BY <2>2, <2>3
<1>4. CASE Discord!CatchMark \/ Discord!CatchPersist
  <2>1. /\ catch \in Working /\ catch' \in Working
        /\ UNCHANGED <<posted, window, page, got, evicted, handler>>
    BY <1>4 DEF Discord!CatchMark, Discord!CatchPersist, Discord!CatchGoes, Discord!Marks,
                Discord!Persists, Discord!markVars, Discord!histVars, Working
  <2> QED  BY <1>1, <2>1, OnceStays
<1>5. CASE Discord!CatchSend
  <2> DEFINE m == Head(page)
  <2>1. /\ catch = "send" /\ catch' \in {"page", "item"} /\ page' = Tail(page)
        /\ got' = [got EXCEPT ![m] = @ + 1] /\ UNCHANGED <<posted, window, evicted, handler>>
    BY <1>5 DEF Discord!CatchSend, Discord!CatchGoes, Discord!Delivers, Discord!markVars
  <2>2. page # <<>> /\ m \in Discord!Msgs /\ Tail(page) \in Seq(Discord!Msgs)
    BY <1>2, <2>1 DEF DiscordInv, Shape, Working
  <2>3. IsAt(catch, page, m)
    BY <2>1, <2>2 DEF IsAt, Working
  <2> HIDE DEF m
  <2>4. \A k : IsAt(catch', page', k) = FALSE
    BY <2>1 DEF IsAt, Working
  <2>5. Credit(got[m], handler[m], IsAt(catch, page, m), evicted[m], IsIn(window, m))
    BY <2>2 DEF OnceEach
  <2>6. Credit(got[m] + 1, handler[m], FALSE, evicted[m], IsIn(window, m))
    BY <2>3, <2>5, CreditSpent
  <2>7. Credit(got[m] + 1, handler'[m], IsAt(catch', page', m), evicted[m], IsIn(window, m))
    BY <2>1, <2>4, <2>6
  <2> QED  BY <2>1, <2>2, <2>4, <2>7, OnceGiven
<1>6. CASE Discord!CatchBegin \/ Discord!CatchFails \/ Discord!CatchPage
  <2>1. /\ catch' \in {"idle", "fetch"} /\ page' \in {page, <<>>}
        /\ UNCHANGED <<posted, window, got, evicted, handler>>
    BY <1>6 DEF Discord!CatchBegin, Discord!CatchFails, Discord!CatchPage, Discord!CatchIdle,
                Discord!CatchDrops, Discord!CatchGoes, Discord!markVars, Discord!histVars
  <2>2. page' \in Seq(Discord!Msgs)
    <3>1. <<>> \in Seq(Discord!Msgs)
      OBVIOUS
    <3> QED  BY <1>2, <2>1, <3>1
  <2> QED  BY <2>1, <2>2, OnceIdle DEF Working
<1>7. CASE Discord!CatchFetch
  <2> DEFINE n == Discord!PageLength
  <2>1. /\ catch' = "item" /\ page' = [i \in 1..n |-> after + i]
        /\ UNCHANGED <<posted, window, got, evicted, handler>>
    BY <1>7 DEF Discord!CatchFetch, Discord!CatchGoes, Discord!markVars, Discord!histVars
  <2>2. after \in Nat /\ posted \in Nat /\ posted <= MaxMsgs /\ PageSize \in Nat /\ MaxMsgs \in Nat
    BY SizesAssumption DEF DiscordInv, Types, Shape, OnceEach
  <2>3. n \in Int /\ n <= posted - after
    BY <2>2 DEF Discord!PageLength
  <2> HIDE DEF n
  <2>4. [i \in 1..n |-> after + i] \in Seq(Discord!Msgs)
    <3>1. \A i \in 1..n : after + i \in Discord!Msgs
      BY <2>2, <2>3 DEF Discord!Msgs
    <3>2. PICK k \in Nat : 1..n = 1..k
      <4>1. CASE n \in Nat
        BY <4>1
      <4>2. CASE n < 0
        <5>1. 1..n = 1..0
          BY <2>3, <4>2
        <5> QED  BY <5>1
      <4>3. n \in Nat \/ n < 0
        BY <2>3
      <4> QED  BY <4>1, <4>2, <4>3
    <3>3. [i \in 1..k |-> after + i] \in Seq(Discord!Msgs)
      <4>1. \A i \in 1..k : after + i \in Discord!Msgs
        BY <3>1, <3>2
      <4>2. [i \in 1..k |-> after + i] \in [1..k -> Discord!Msgs]
        BY <4>1
      <4> QED  BY <4>2
    <3> QED  BY <3>2, <3>3
  <2> QED  BY <2>1, <2>4, OnceIdle DEF Working
<1> QED  BY <1>3, <1>4, <1>5, <1>6, <1>7 DEF Discord!Catchup

LEMMA MainOnce ==
  ASSUME DiscordInv, OnceEach, Discord!Main
  PROVE  OnceEach'
<1>1. /\ UNCHANGED <<posted, window, page, got, evicted, handler>>
      /\ catch' = catch \/ (catch = "idle" /\ catch' = "begin")
  BY DEF Discord!Main, Discord!MainGap, Discord!MainState, Discord!SpawnCatchup,
         Discord!markVars,
         Discord!catchVars, Discord!histVars
<1>2. handler \in [Discord!Msgs -> Steps]
  BY DEF DiscordInv, Marked, Handlers
<1> QED  BY <1>1, <1>2, OnceStays DEF Working

LEMMA UnansweredOnce ==
  ASSUME DiscordInv, OnceEach, Discord!Unanswered
  PROVE  OnceEach'
<1>1. CASE Discord!CatchStalls
  <2>1. /\ catch' = "stalled" /\ page' = <<>>
        /\ UNCHANGED <<posted, window, got, evicted, handler>>
    BY <1>1 DEF Discord!CatchStalls, Discord!CatchDrops, Discord!markVars, Discord!histVars
  <2>2. page' \in Seq(Discord!Msgs)
    BY <2>1
  <2> QED  BY <2>1, <2>2, OnceIdle DEF Working
<1>2. CASE Discord!MainHangs
  <2>1. UNCHANGED <<posted, window, page, got, evicted, handler, catch>>
    BY <1>2 DEF Discord!MainHangs, Discord!markVars, Discord!catchVars, Discord!histVars
  <2> QED  BY <2>1, OnceStays DEF DiscordInv, Marked, Handlers
<1> QED  BY <1>1, <1>2 DEF Discord!Unanswered

LEMMA DiscordOnce ==
  ASSUME DiscordInv, OnceEach, Discord!Next
  PROVE  OnceEach'
BY WorldOnce, UnansweredOnce, MainOnce, CatchupOnce, LiveOnce DEF Discord!Next

------------------------------------------------------------------------------
(* What is left of an answer begins at the offset or after it, and what    *)
(* this process has sent to main is below: also when the server is behind  *)
(* the state file, or ahead of it.                                         *)
Ordered(b, p) ==
  /\ b \in Seq(Nat) /\ \A i \in 1..Len(b) : b[i] <= p
  /\ \A i \in 1..Len(b) - 1 : b[i + 1] = b[i] + 1

SentBelow(s, o) == \A m \in Telegram!Msgs : s[m] <= 1 /\ (s[m] = 1 => m < o)

HandsOnce ==
  /\ {posted, confirmed, offset} \subseteq Nat
  /\ Ordered(batch, posted) /\ (batch # <<>> => offset <= batch[1])
  /\ sent \in [Telegram!Msgs -> Nat] /\ SentBelow(sent, offset)

LEMMA SeedIsNat ==
  ASSUME NEW raw
  PROVE  Telegram!Seed(raw) \in Nat
BY SizesAssumption DEF Telegram!Seed

LEMMA InitHandsOnce == Telegram!Init => HandsOnce
<1> SUFFICES ASSUME Telegram!Init PROVE HandsOnce
  OBVIOUS
<1>1. /\ posted = 0 /\ confirmed = 0 /\ offset = Telegram!Seed(saved) /\ batch = <<>>
      /\ sent = [m \in Telegram!Msgs |-> 0]
  BY DEF Telegram!Init
<1>2. offset \in Nat
  BY <1>1, SeedIsNat
<1> QED  BY <1>1, <1>2 DEF HandsOnce, Ordered, SentBelow

(* The steps that do not move the offset, and answer nothing.              *)
LEMMA HandsNothing ==
  ASSUME HandsOnce, posted' \in Nat, posted <= posted', UNCHANGED <<confirmed, offset, sent>>,
         batch' = batch \/ batch' = <<>>
  PROVE  HandsOnce'
<1>1. posted \in Nat /\ Ordered(batch, posted)
  BY DEF HandsOnce
<1>2. Ordered(batch, posted')
  <2>1. \A i \in 1..Len(batch) : batch[i] \in Nat /\ batch[i] <= posted
    BY <1>1 DEF Ordered
  <2>2. \A i \in 1..Len(batch) : batch[i] <= posted'
    BY <1>1, <2>1
  <2> QED  BY <1>1, <2>2 DEF Ordered
<1>3. Ordered(<<>>, posted')
  BY DEF Ordered
<1> QED  BY <1>2, <1>3 DEF HandsOnce

LEMMA AnswerHands ==
  ASSUME HandsOnce, Telegram!Answer
  PROVE  HandsOnce'
<1>1. /\ UNCHANGED <<posted, offset, sent>>
      /\ posted \in Nat /\ offset \in Nat /\ confirmed \in Nat /\ PollLimit \in Nat
  BY SizesAssumption DEF Telegram!Answer, HandsOnce
<1>2. PICK c \in Nat : confirmed' = c /\ offset <= c + 1
  <2>1. CASE offset > confirmed + 1
    <3>1. offset - 1 \in Nat /\ offset <= (offset - 1) + 1
      BY <1>1, <2>1
    <3> QED  BY <2>1, <3>1 DEF Telegram!Answer
  <2>2. CASE ~(offset > confirmed + 1)
    <3>1. confirmed \in Nat /\ offset <= confirmed + 1
      BY <1>1, <2>2
    <3> QED  BY <2>2, <3>1 DEF Telegram!Answer
  <2> QED  BY <2>1, <2>2
<1>3. batch' = [i \in 1..(IF posted - c < PollLimit THEN posted - c ELSE PollLimit) |-> c + i]
  BY <1>2 DEF Telegram!Answer
<1>4. Ordered(batch', posted) /\ (batch' # <<>> => batch'[1] = c + 1)
  <2>1. CASE posted - c < 0
    <3>1. batch' = [i \in 1..(posted - c) |-> c + i] /\ 1..(posted - c) = 1..0
      BY <1>1, <1>3, <2>1
    <3>2. batch' = <<>>
      BY <3>1
    <3> QED  BY <3>2 DEF Ordered
  <2>2. CASE ~(posted - c < 0)
    <3>1. PICK n \in Nat : c + n <= posted /\ batch' = [i \in 1..n |-> c + i]
      <4>1. CASE posted - c < PollLimit
        <5>1. posted - c \in Nat /\ c + (posted - c) <= posted
          BY <1>1, <2>2
        <5> QED  BY <1>3, <4>1, <5>1
      <4>2. CASE ~(posted - c < PollLimit)
        <5>1. c + PollLimit <= posted
          BY <1>1, <4>2
        <5> QED  BY <1>1, <1>3, <4>2, <5>1
      <4> QED  BY <4>1, <4>2
    <3> QED  BY <1>1, <3>1, Answered DEF Ordered
  <2> QED  BY <2>1, <2>2
<1>5. batch' # <<>> => offset <= batch'[1]
  BY <1>1, <1>2, <1>4
<1> QED  BY <1>1, <1>2, <1>4, <1>5 DEF HandsOnce

LEMMA HandleHands ==
  ASSUME HandsOnce, Telegram!Handle
  PROVE  HandsOnce'
<1>1. PICK m : /\ UNCHANGED <<posted, confirmed>>
               /\ batch # <<>> /\ m = Head(batch)
               /\ batch' = Tail(batch) /\ offset' = m + 1
               /\ sent' = sent \/ sent' = [sent EXCEPT ![m] = @ + 1]
  BY DEF Telegram!Handle, Telegram!serverVars
<1>2. m = batch[1] /\ m \in Nat /\ offset \in Nat /\ posted \in Nat /\ offset <= m
  BY <1>1 DEF HandsOnce, Ordered
<1>3. Ordered(Tail(batch), posted) /\ (Tail(batch) # <<>> => Tail(batch)[1] = m + 1)
  BY <1>1, <1>2, TailInOrder DEF HandsOnce, Ordered
<1>4. PICK o \in Nat : o = m + 1 /\ \A k \in Nat : k < offset => k < o
  BY <1>2
<1>5. SentBelow(sent, o) /\ (m \in Telegram!Msgs => sent[m] = 0)
  <2>1. \A k \in Telegram!Msgs : k \in Nat
    BY SizesAssumption DEF Telegram!Msgs
  <2>2. m \in Telegram!Msgs => sent[m] # 1
    BY <1>2, <2>1 DEF HandsOnce, SentBelow
  <2> QED  BY <1>4, <2>1, <2>2 DEF HandsOnce, SentBelow
<1>6. sent' \in [Telegram!Msgs -> Nat] /\ SentBelow(sent', o)
  <2>1. CASE sent' = sent
    BY <1>5, <2>1 DEF HandsOnce
  <2>2. CASE sent' = [sent EXCEPT ![m] = @ + 1]
    <3>1. /\ sent' \in [Telegram!Msgs -> Nat]
          /\ \A k \in Telegram!Msgs : sent'[k] = IF k = m THEN 1 ELSE sent[k]
      <4>1. sent \in [Telegram!Msgs -> Nat]
        BY DEF HandsOnce
      <4>2. CASE m \in Telegram!Msgs
        <5>1. sent[m] + 1 = 1
          BY <1>5, <4>2
        <5>2. sent' = [sent EXCEPT ![m] = 1]
          BY <2>2, <5>1
        <5> QED  BY <4>1, <4>2, <5>2
      <4>3. CASE m \notin Telegram!Msgs
        <5>1. sent' = sent
          BY <2>2, <4>1, <4>3
        <5> QED  BY <4>1, <4>3, <5>1
      <4> QED  BY <4>2, <4>3
    <3>2. m < o
      BY <1>2, <1>4
    <3> QED  BY <1>5, <3>1, <3>2 DEF SentBelow
  <2> QED  BY <1>1, <2>1, <2>2
<1>7. posted' \in Nat /\ confirmed' \in Nat /\ offset' = o
  BY <1>1, <1>4 DEF HandsOnce
<1>8. Ordered(batch', posted') /\ (batch' # <<>> => offset' <= batch'[1])
  BY <1>1, <1>3, <1>4, <1>7
<1> QED  BY <1>4, <1>6, <1>7, <1>8 DEF HandsOnce

LEMMA TelegramHands ==
  ASSUME HandsOnce, Telegram!Next
  PROVE  HandsOnce'
<1> USE DEF Telegram!mainVars, Telegram!serverVars, Telegram!pollVars
<1>0. posted \in Nat
  BY DEF HandsOnce
<1>1. CASE Telegram!Answer
  BY <1>1, AnswerHands
<1>2. CASE Telegram!Handle
  BY <1>2, HandleHands
<1>3. CASE Telegram!Restart
  <2>1. /\ UNCHANGED <<posted, confirmed>> /\ batch' = <<>> /\ offset' = Telegram!Seed(saved)
        /\ sent' = [m \in Telegram!Msgs |-> 0]
    BY <1>3 DEF Telegram!Restart
  <2>2. offset' \in Nat
    BY <2>1, SeedIsNat
  <2> QED  BY <2>1, <2>2 DEF HandsOnce, Ordered, SentBelow
<1>4. CASE Telegram!Post
  BY <1>0, <1>4, HandsNothing DEF Telegram!Post
<1>5. CASE Telegram!Wake \/ Telegram!MainHangs
  BY <1>0, <1>5, HandsNothing DEF Telegram!Wake, Telegram!MainHangs
<1>6. CASE Telegram!Main
  BY <1>0, <1>6, HandsNothing DEF Telegram!Main, Telegram!MainState, Telegram!Flush,
                                  Telegram!MainGap
<1>7. CASE Telegram!Ask \/ Telegram!Fails \/ Telegram!BackedOff \/ Telegram!Receive
  BY <1>0, <1>7, HandsNothing DEF Telegram!Ask, Telegram!Fails, Telegram!BackedOff,
                                  Telegram!Receive
<1>8. CASE Telegram!SaveOffset
  BY <1>0, <1>8, HandsNothing DEF Telegram!SaveOffset
<1> QED
  BY <1>1, <1>2, <1>3, <1>4, <1>5, <1>6, <1>7, <1>8 DEF Telegram!Next, Telegram!World,
                                                        Telegram!Polling

------------------------------------------------------------------------------
(* Each platform has its invariant where it is configured, and nothing     *)
(* happens to its state where it is not.                                   *)
IdleDiscord == lastSeen = 0 /\ got = [m \in Msgs |-> 0] /\ evicted = got
IdleTelegram == confirmed = 0 /\ sent = [m \in Msgs |-> 0]

Absent ==
  /\ platform \in {"discord", "telegram"}
  /\ platform = "discord" => IdleTelegram
  /\ platform = "telegram" => IdleDiscord

LEMMA InitAbsent == Init => Absent
BY DEF Init, Absent, NoDiscord, NoTelegram, IdleDiscord, IdleTelegram

LEMMA NextAbsent ==
  ASSUME Absent, [Next]_vars
  PROVE  Absent'
<1>1. CASE DiscordStep
  BY <1>1 DEF DiscordStep, Absent, IdleDiscord, IdleTelegram, telegramVars
<1>2. CASE TelegramStep
  BY <1>2 DEF TelegramStep, Absent, IdleDiscord, IdleTelegram, discordVars
<1>3. CASE UNCHANGED vars
  BY <1>3 DEF vars, Absent, IdleDiscord, IdleTelegram, telegramVars, discordVars
<1> QED  BY <1>1, <1>2, <1>3 DEF Next

(* What Discord passes over, and what is in the window.                    *)
DiscordSide == platform = "discord" => DiscordInv

LEMMA InitDiscordSide == Init => DiscordSide
BY DiscordInit DEF Init, DiscordSide

LEMMA NextDiscordSide ==
  ASSUME DiscordSide, [Next]_vars
  PROVE  DiscordSide'
<1>1. CASE DiscordStep
  BY <1>1, DiscordNext DEF DiscordStep, DiscordSide
<1>2. CASE TelegramStep
  BY <1>2 DEF TelegramStep, DiscordSide
<1>3. CASE UNCHANGED vars
  BY <1>3 DEF vars, discordVars, mainVars, DiscordSide, DiscordInv, Types, Marked,
              AllPassed, IsPassed
<1> QED  BY <1>1, <1>2, <1>3 DEF Next

LEMMA StayOnce ==
  ASSUME OnceEach, UNCHANGED vars
  PROVE  OnceEach'
BY DEF vars, discordVars, OnceEach

LEMMA StayHandsOnce ==
  ASSUME HandsOnce, UNCHANGED vars
  PROVE  HandsOnce'
BY DEF vars, telegramVars, HandsOnce

LEMMA StayTelegram ==
  ASSUME TelegramInv, UNCHANGED vars
  PROVE  TelegramInv'
BY DEF vars, telegramVars, mainVars, TelegramInv, OffsetsBehind, BatchInOrder, Behind

(* Discord: no error, cap, crash, page boundary or race of a gateway task  *)
(* with a catchup makes the watermark pass over a message that nobody has  *)
(* handled; only a later live message does.                                *)
THEOREM PassedOverByLiveOnly == Spec => []PassedOverLive
<1>1. Init => Absent /\ DiscordSide
  BY InitAbsent, InitDiscordSide
<1>2. Absent /\ DiscordSide /\ [Next]_vars => (Absent /\ DiscordSide)'
  BY NextAbsent, NextDiscordSide
<1>3. Absent /\ DiscordSide => PassedOverLive
  <2> SUFFICES ASSUME Absent, DiscordSide PROVE PassedOverLive
    OBVIOUS
  <2>1. CASE platform = "discord"
    BY <2>1 DEF DiscordSide, DiscordInv, AllPassed, IsPassed, Passed, PassedOverLive,
                Discord!PassedOverLive, Discord!Mine
  <2>2. CASE platform = "telegram"
    BY <2>2 DEF Absent, IdleDiscord, PassedOverLive, Discord!PassedOverLive
  <2> QED  BY <2>1, <2>2 DEF Absent
<1> QED  BY <1>1, <1>2, <1>3, PTL DEF Spec

(* The server never forgets an update of the user that main was not given  *)
(* (chat_adapters/telegram.rs: the offset moves past an update only with   *)
(* the update, and a dropped or stale offset is only ever a lower one),    *)
(* when the state file began without an offset.                            *)
THEOREM NoUpdateForgotten ==
  ASSUME Telegram!NoOffsetAtFirst
  PROVE  Spec => []NothingForgotten
<1> DEFINE TelegramSide == platform = "telegram" => TelegramInv
<1>1. Init => Absent /\ TelegramSide
  BY InitAbsent, TelegramInit DEF Init
<1>2. Absent /\ TelegramSide /\ [Next]_vars => (Absent /\ TelegramSide)'
  <2> SUFFICES ASSUME TelegramSide, [Next]_vars PROVE TelegramSide'
    BY NextAbsent
  <2>1. CASE TelegramStep
    BY <2>1, TelegramNext DEF TelegramStep
  <2>2. CASE DiscordStep
    BY <2>2 DEF DiscordStep
  <2>3. CASE UNCHANGED vars
    BY <2>3, StayTelegram DEF vars
  <2> QED  BY <2>1, <2>2, <2>3 DEF Next
<1>3. Absent /\ TelegramSide => NothingForgotten
  BY DEF Absent, IdleTelegram, TelegramInv, Behind, NothingForgotten, Telegram!NothingForgotten
<1> QED  BY <1>1, <1>2, <1>3, PTL DEF Spec

(* Discord: for every time that main is given a message again by one       *)
(* process, the dedup window (chat_adapters/discord.rs, 200 ids) had given *)
(* it up for others, whatever gateway tasks and catchups handle it at the  *)
(* same time.  Telegram: no update is given twice, whatever answers are    *)
(* repeated, and wherever the state file begins.                           *)
THEOREM RepeatedOnlyIfForgotten == Spec => []GotOnce
<1> DEFINE Counted == /\ platform = "discord" => OnceEach
                      /\ platform = "telegram" => HandsOnce
           I == Absent /\ DiscordSide /\ Counted
<1>1. Init => I
  BY InitAbsent, InitDiscordSide, InitOnce, InitHandsOnce DEF Init
<1>2. I /\ [Next]_vars => I'
  <2> SUFFICES ASSUME I, [Next]_vars PROVE Counted'
    BY NextAbsent, NextDiscordSide
  <2>1. CASE TelegramStep
    BY <2>1, TelegramHands DEF TelegramStep
  <2>2. CASE DiscordStep
    BY <2>2, DiscordOnce DEF DiscordStep, DiscordSide
  <2>3. CASE UNCHANGED vars
    BY <2>3, StayOnce, StayHandsOnce DEF vars
  <2> QED  BY <2>1, <2>2, <2>3 DEF Next
<1>3. I => GotOnce
  <2> SUFFICES ASSUME I PROVE GotOnce
    OBVIOUS
  <2>1. Discord!Msgs = Msgs /\ Telegram!Msgs = Msgs
    BY DEF Discord!Msgs, Telegram!Msgs, Msgs
  <2>2. CASE platform = "discord"
    <3>1. \A m \in Msgs : got[m] <= 1 + evicted[m]
      BY <2>1, <2>2, CreditBound DEF OnceEach
    <3> QED  BY <2>1, <2>2, <3>1 DEF Absent, IdleTelegram, GotOnce, Discord!GotOnce,
                                     Telegram!HandedOnce
  <2>3. CASE platform = "telegram"
    BY <2>1, <2>3 DEF Absent, IdleDiscord, HandsOnce, SentBelow, GotOnce, Discord!GotOnce,
                      Telegram!HandedOnce
  <2> QED  BY <2>2, <2>3 DEF Absent
<1> QED  BY <1>1, <1>2, <1>3, PTL DEF Spec
==============================================================================
