------------------------- MODULE SlackCatchup_proofs -------------------------
(***************************************************************************)
(* EmittedOnce and GapCovered for any number of messages, sleeps and       *)
(* restarts, page, window and channel sizes, and failing requests.         *)
(*                                                                         *)
(*   Behind   a catchup that may still come starts at or after whatever    *)
(*            was replayed: wherever it may start from, the watermark, or  *)
(*            the one that is about to be set, is at or after it.          *)
(*   Working  what a running catchup has in hand: the page goes up to the  *)
(*            cursor, what was found lies from the cursor to the new       *)
(*            watermark, and nothing in there is missing.                  *)
(***************************************************************************)
EXTENDS SlackCatchup, FiniteSetTheorems, TLAPS

Types ==
  /\ posted \in Nat /\ posted <= MaxMsgs
  /\ {lastSeen, saved, oldest, before, top, tick, from, liveTs} \subseteq Nat
  /\ signals \in Seq(Nat) /\ states \in Seq(Nat) /\ frames \in Seq(Nat)
  /\ window \in Seq(Nat)
  /\ catch \in {"idle", "begin", "fetch", "page", "emit", "save", "stalled"}

(* E counts the replays, l is the watermark, c and t are catch and top.    *)
Behind(E, s, l, c, t) ==
  \A m \in Msgs : E[m] # 0 => m <= s \/ m <= l \/ (c = "emit" /\ m <= t)

Sent(E, p) ==
  /\ E \in [Msgs -> {0, 1}]
  /\ \A m \in Msgs : E[m] # 0 => m <= p

Starts ==
  /\ Behind(emitted, tick, lastSeen, catch, top)
  /\ \A i \in 1..Len(signals) : Behind(emitted, signals[i], lastSeen, catch, top)
  /\ main = "gap" => Behind(emitted, from, lastSeen, catch, top)
  /\ catch = "begin" => Behind(emitted, oldest, lastSeen, catch, top)

Seen == \A i \in 1..Len(window) : window[i] \in Msgs => window[i] \in lived

In(row, m) == \E i \in 1..Len(row) : row[i] = m

(* Row has each of its messages once; they are from b to t, and not        *)
(* replayed.                                                               *)
Rows(row, b, t, E) ==
  /\ row \in Seq(Msgs)
  /\ \A i, j \in 1..Len(row) : row[i] = row[j] => i = j
  /\ \A i \in 1..Len(row) : b <= row[i] /\ row[i] <= t /\ E[row[i]] = 0

(* The messages from b to t come, or came.                                 *)
Complete(b, t, row, E, L) ==
  \A m \in Msgs : b <= m /\ m <= t => In(row, m) \/ E[m] # 0 \/ m \in L

(* The page has the messages after a, n of them.                           *)
Paged(q, a, n) ==
  /\ q \in Seq(Nat) /\ Len(q) = n
  /\ \A i \in 1..n : q[i] = a + i

Pages ==
  /\ page = <<>> \/ catch = "page"
  /\ catch = "page" =>
       \E a, n \in Nat :
         /\ Paged(page, a, n)
         /\ oldest <= a
         /\ n # 0 => a + n < before /\ a + n <= posted
         /\ top # 0 => n # 0 /\ a + n = before - 1

Working ==
  /\ catch \in {"idle", "begin"} => top = 0 /\ found = <<>>
  /\ catch \in {"fetch", "page", "emit", "save"} => top <= posted
  /\ catch \in {"fetch", "page"} =>
       /\ \A m \in Msgs : emitted[m] # 0 => m <= oldest
       /\ Rows(found, before, top, emitted)
       /\ top = 0 => before = MaxMsgs + 1
       /\ top # 0 => before <= top /\ Complete(before, top, found, emitted, lived)
  /\ catch = "fetch" /\ top # 0 => oldest + 1 < before
  /\ catch = "emit" =>
       /\ Rows(found, oldest + 1, top, emitted)
       /\ Complete(oldest + 1, top, found, emitted, lived)
  /\ catch = "save" => found = <<>> /\ Complete(oldest + 1, top, <<>>, emitted, lived)

Inv == Types /\ Sent(emitted, posted) /\ Starts /\ Seen /\ Pages /\ Working

------------------------------------------------------------------------------
(* A row in order has every element of its set, once.                      *)
LEMMA RowOf ==
  ASSUME NEW S \in SUBSET Msgs, NEW row \in InOrder(S)
  PROVE  /\ row \in Seq(S)
         /\ \A i, j \in 1..Len(row) : row[i] = row[j] => i = j
         /\ \A m \in S : In(row, m)
<1>1. IsFiniteSet(S) /\ Cardinality(S) \in Nat
  <2>1. IsFiniteSet(Msgs)
    BY FS_Interval, BoundsAssumption DEF Msgs
  <2> QED  BY <2>1, FS_Subset, FS_CardinalityType
<1>2. PICK N \in Nat : N = Cardinality(S)
  BY <1>1
<1>3. /\ row \in [1..N -> S] /\ DOMAIN row = 1..N
      /\ \A i, j \in 1..N : i < j => row[i] < row[j]
  BY <1>2 DEF InOrder
<1>4. \A i, j \in 1..N : row[i] = row[j] => i = j
  <2>1. \A i \in 1..N : row[i] \in Nat
    <3>1. S \subseteq Nat
      BY BoundsAssumption DEF Msgs
    <3> QED  BY <1>3, <3>1
  <2>2. SUFFICES ASSUME NEW i \in 1..N, NEW j \in 1..N, row[i] = row[j], i # j PROVE FALSE
    OBVIOUS
  <2>3. i < j \/ j < i
    BY <1>2, <2>2
  <2>4. row[i] < row[j] \/ row[j] < row[i]
    BY <1>3, <2>3
  <2> QED  BY <2>1, <2>2, <2>4
<1>5. row \in Seq(S) /\ Len(row) = N
  BY <1>2, <1>3
<1>6. row \in Surjection(1..N, S)
  <2>1. Cardinality(1..N) = IF 1 > N THEN 0 ELSE N - 1 + 1
    BY FS_Interval
  <2>2. Cardinality(1..N) = Cardinality(S) /\ IsFiniteSet(1..N)
    BY <1>2, <2>1, FS_Interval
  <2>3. row \in Injection(1..N, S)
    BY <1>3, <1>4 DEF Injection, IsInjective
  <2> QED  BY <1>1, <2>1, <2>2, <2>3, FS_Injection
<1> QED  BY <1>4, <1>5, <1>6 DEF Surjection, In

LEMMA RowJoins ==
  ASSUME NEW f \in Seq(Msgs), NEW r \in Seq(Msgs)
  PROVE  /\ f \o r \in Seq(Msgs)
         /\ \A m : In(f \o r, m) <=> In(f, m) \/ In(r, m)
         /\ \A i \in 1..Len(f \o r) : In(f, (f \o r)[i]) \/ In(r, (f \o r)[i])
         /\ ( /\ \A i, j \in 1..Len(f) : f[i] = f[j] => i = j
              /\ \A i, j \in 1..Len(r) : r[i] = r[j] => i = j
              /\ \A m : In(f, m) => ~In(r, m) )
            => \A i, j \in 1..Len(f \o r) : (f \o r)[i] = (f \o r)[j] => i = j
<1>1. PICK u : u = f \o r
  OBVIOUS
<1>2. PICK k \in Nat, n \in Nat : k = Len(f) /\ n = Len(r)
  OBVIOUS
<1>3. /\ u \in Seq(Msgs) /\ Len(u) = k + n
      /\ \A i \in 1..k : u[i] = f[i]
      /\ \A i \in 1..n : u[k + i] = r[i]
  BY <1>1, <1>2
<1>4. \A i \in 1..k + n : i \in 1..k \/ \E j \in 1..n : i = k + j
  <2> TAKE i \in 1..k + n
  <2>1. i \notin 1..k => i - k \in 1..n /\ i = k + (i - k)
    BY <1>2
  <2> QED  BY <2>1
<1>5. /\ \A i \in 1..k : i \in 1..k + n
      /\ \A j \in 1..n : k + j \in 1..k + n
  BY <1>2
<1>6. \A m : In(u, m) <=> In(f, m) \/ In(r, m)
  <2>1. \A m : In(f, m) => In(u, m)
    BY <1>2, <1>3, <1>5 DEF In
  <2>2. \A m : In(r, m) => In(u, m)
    <3> SUFFICES ASSUME NEW j \in 1..n PROVE \E i \in 1..Len(u) : u[i] = r[j]
      BY <1>2 DEF In
    <3> QED  BY <1>3, <1>5
  <2>3. \A m : In(u, m) => In(f, m) \/ In(r, m)
    <3> SUFFICES ASSUME NEW i \in 1..k + n PROVE In(f, u[i]) \/ In(r, u[i])
      BY <1>3 DEF In
    <3> QED  BY <1>2, <1>3, <1>4 DEF In
  <2> QED  BY <2>1, <2>2, <2>3
<1>7. \A i \in 1..k + n : In(f, u[i]) \/ In(r, u[i])
  BY <1>2, <1>3, <1>4 DEF In
<1>8. ASSUME \A i, j \in 1..k : f[i] = f[j] => i = j,
             \A i, j \in 1..n : r[i] = r[j] => i = j,
             \A m : In(f, m) => ~In(r, m),
             NEW i \in 1..k + n, NEW j \in 1..k + n, u[i] = u[j]
      PROVE  i = j
  <2>1. CASE i \in 1..k /\ j \in 1..k
    BY <1>3, <1>8, <2>1
  <2>2. CASE i \notin 1..k /\ j \notin 1..k
    <3>1. PICK a \in 1..n, b \in 1..n : i = k + a /\ j = k + b
      BY <1>4, <2>2
    <3>2. r[a] = r[b]
      BY <1>3, <1>8, <3>1
    <3> QED  BY <1>8, <3>1, <3>2
  <2>3. CASE i \in 1..k /\ j \notin 1..k
    <3>1. PICK b \in 1..n : j = k + b
      BY <1>4, <2>3
    <3>2. f[i] = r[b]
      BY <1>3, <1>8, <2>3, <3>1
    <3>3. In(f, f[i]) /\ In(r, r[b])
      BY <1>2, <2>3 DEF In
    <3> QED  BY <1>8, <3>2, <3>3
  <2>4. CASE i \notin 1..k /\ j \in 1..k
    <3>1. PICK a \in 1..n : i = k + a
      BY <1>4, <2>4
    <3>2. f[j] = r[a]
      BY <1>3, <1>8, <2>4, <3>1
    <3>3. In(f, f[j]) /\ In(r, r[a])
      BY <1>2, <2>4 DEF In
    <3> QED  BY <1>8, <3>2, <3>3
  <2> QED  BY <2>1, <2>2, <2>3, <2>4
<1> QED  BY <1>1, <1>2, <1>3, <1>6, <1>7, <1>8

LEMMA TailRow ==
  ASSUME NEW f \in Seq(Msgs), f # <<>>,
         \A i, j \in 1..Len(f) : f[i] = f[j] => i = j
  PROVE  /\ Tail(f) \in Seq(Msgs)
         /\ \A i, j \in 1..Len(Tail(f)) : Tail(f)[i] = Tail(f)[j] => i = j
         /\ \A i \in 1..Len(Tail(f)) : Tail(f)[i] # Head(f) /\ In(f, Tail(f)[i])
         /\ \A m : In(f, m) => m = Head(f) \/ In(Tail(f), m)
         /\ In(f, Head(f)) /\ Head(f) \in Msgs
<1>1. PICK t : t = Tail(f)
  OBVIOUS
<1>2. PICK n \in Nat : n = Len(t) /\ Len(f) = n + 1
  BY <1>1
<1>3. /\ t \in Seq(Msgs) /\ Head(f) = f[1] /\ f[1] \in Msgs
      /\ \A i \in 1..n : t[i] = f[i + 1]
  BY <1>1, <1>2
<1>4. /\ \A i \in 1..n : i + 1 \in 1..n + 1 /\ i + 1 # 1
      /\ \A i, j \in 1..n : i + 1 = j + 1 => i = j
      /\ 1 \in 1..n + 1
      /\ \A i \in 1..n + 1 : i = 1 \/ \E j \in 1..n : i = j + 1
  <2>1. \A i \in 1..n + 1 : i # 1 => i - 1 \in 1..n /\ i = (i - 1) + 1
    BY <1>2
  <2> QED  BY <1>2, <2>1
<1>5. \A i, j \in 1..n : t[i] = t[j] => i = j
  BY <1>2, <1>3, <1>4
<1>6. \A i \in 1..n : t[i] # f[1] /\ In(f, t[i])
  BY <1>2, <1>3, <1>4 DEF In
<1>7. \A m : In(f, m) => m = f[1] \/ In(t, m)
  BY <1>2, <1>3, <1>4 DEF In
<1> QED  BY <1>1, <1>2, <1>3, <1>4, <1>5, <1>6, <1>7 DEF In
------------------------------------------------------------------------------
(* What a step can do to where a catchup may start.                        *)
LEMMA BehindLater ==
  ASSUME NEW E \in [Msgs -> {0, 1}], NEW s \in Nat, NEW l \in Nat, NEW c, NEW t \in Nat,
         NEW s1 \in Nat, NEW l1 \in Nat, s <= s1, l <= l1, Behind(E, s, l, c, t)
  PROVE  Behind(E, s1, l1, c, t)
<1>1. Msgs \subseteq Nat
  BY BoundsAssumption DEF Msgs
<1>2. \A m \in Nat : (m <= s => m <= s1) /\ (m <= l => m <= l1)
  OBVIOUS
<1> QED  BY <1>1, <1>2 DEF Behind

LEMMA BehindSent ==
  ASSUME NEW E, NEW p \in Nat, Sent(E, p), NEW s \in Nat, p <= s, NEW l, NEW c, NEW t
  PROVE  Behind(E, s, l, c, t)
<1>1. Msgs \subseteq Nat
  BY BoundsAssumption DEF Msgs
<1>2. \A m \in Nat : m <= p => m <= s
  OBVIOUS
<1> QED  BY <1>1, <1>2 DEF Behind, Sent

LEMMA LaterIs ==
  ASSUME NEW a \in Nat, NEW b \in Nat
  PROVE  Later(a, b) \in Nat /\ a <= Later(a, b) /\ b <= Later(a, b)
  BY DEF Later

LEMMA AppendNat ==
  ASSUME NEW q \in Seq(Nat), NEW n \in Nat
  PROVE  Append(q, n) \in Seq(Nat)
  OBVIOUS

LEMMA TailNat ==
  ASSUME NEW q \in Seq(Nat), q # <<>>
  PROVE  /\ Tail(q) \in Seq(Nat) /\ Head(q) \in Nat /\ \E j \in 1..Len(q) : Head(q) = q[j]
         /\ \A i \in 1..Len(Tail(q)) : \E j \in 1..Len(q) : Tail(q)[i] = q[j]
<1>1. PICK t : t = Tail(q)
  OBVIOUS
<1>2. /\ t \in Seq(Nat) /\ Len(q) \in Nat /\ Len(t) = Len(q) - 1 /\ Head(q) = q[1]
      /\ \A i \in 1..Len(t) : i + 1 \in 1..Len(q) /\ t[i] = q[i + 1]
      /\ 1 \in 1..Len(q) /\ q[1] \in Nat
  BY <1>1
<1> QED  BY <1>1, <1>2

LEMMA IntervalPaged ==
  ASSUME NEW a \in Nat, NEW b \in Nat
  PROVE  \E n \in Nat : /\ Paged(Interval(a, b), a, n)
                        /\ a <= b => n = b - a
                        /\ b < a => n = 0
<1>1. CASE a <= b
  <2>1. PICK n \in Nat : n = b - a
    BY <1>1
  <2>2. Interval(a, b) = [i \in 1..n |-> a + i]
    BY <2>1 DEF Interval
  <2>3. Paged([i \in 1..n |-> a + i], a, n)
    BY DEF Paged
  <2> QED  BY <1>1, <2>1, <2>2, <2>3
<1>2. CASE b < a
  <2>1. 1..(b - a) = 1..0
    BY <1>2
  <2>2. Interval(a, b) = [i \in 1..0 |-> a + i]
    BY <2>1 DEF Interval
  <2>3. Paged([i \in 1..0 |-> a + i], a, 0)
    BY DEF Paged
  <2> QED  BY <1>2, <2>2, <2>3
<1> QED  BY <1>1, <1>2

(* What happens besides the catchup leaves its work alone.                 *)
LEMMA WorkStays ==
  ASSUME Inv, UNCHANGED <<catchVars, emitted>>, posted' \in Nat, posted <= posted',
         lived \subseteq lived'
  PROVE  Pages' /\ Working'
<1>1. UNCHANGED <<catch, oldest, before, page, top, found, emitted>>
  BY DEF catchVars
<1>2. posted \in Nat /\ top \in Nat
  BY DEF Inv, Types
<1>3. \A k \in Nat : k <= posted => k <= posted'
  BY <1>2
<1>4. Pages'
  <2>1. ASSUME NEW a \in Nat, NEW n \in Nat, a + n <= posted PROVE a + n <= posted'
    BY <1>2, <2>1
  <2> QED  BY <1>1, <2>1 DEF Inv, Pages
<1>5. Working'
  <2>1. \A b, t, f : Complete(b, t, f, emitted, lived) => Complete(b, t, f, emitted, lived')
    BY DEF Complete
  <2> QED  BY <1>1, <1>2, <1>3, <2>1 DEF Inv, Working
<1> QED  BY <1>4, <1>5

LEMMA StartsStay ==
  ASSUME Inv, UNCHANGED <<catch, oldest, top, emitted>>,
         tick' \in Nat, lastSeen' \in Nat, lastSeen <= lastSeen',
         tick' = tick \/ posted <= tick',
         signals' = signals \/ signals' = Append(signals, tick),
         main' = "gap" => main = "gap" /\ from' = from
  PROVE  Starts'
<1> DEFINE L == lastSeen'
<1>1. /\ posted \in Nat /\ tick \in Nat /\ lastSeen \in Nat /\ from \in Nat /\ oldest \in Nat
      /\ top \in Nat /\ signals \in Seq(Nat) /\ emitted \in [Msgs -> {0, 1}]
      /\ Sent(emitted, posted) /\ Starts
  BY DEF Inv, Types, Sent
<1>2. L \in Nat /\ lastSeen <= L
  OBVIOUS
<1>3. \A s \in Nat : Behind(emitted, s, lastSeen, catch, top) => Behind(emitted, s, L, catch, top)
  <2> TAKE s \in Nat
  <2>1. s <= s
    OBVIOUS
  <2> HIDE DEF L
  <2> QED  BY <1>1, <1>2, <2>1, BehindLater
<1>4. Behind(emitted, tick', L, catch, top)
  <2>1. CASE tick' = tick
    BY <1>1, <1>3, <2>1 DEF Starts
  <2>2. CASE posted <= tick'
    BY <1>1, <2>2, BehindSent
  <2> QED  BY <2>1, <2>2
<1>5. \A i \in 1..Len(signals') : Behind(emitted, signals'[i], L, catch, top)
  <2>1. \A i \in 1..Len(signals) : Behind(emitted, signals[i], L, catch, top)
    BY <1>1, <1>3 DEF Starts
  <2>2. Behind(emitted, tick, L, catch, top)
    BY <1>1, <1>3 DEF Starts
  <2>3. CASE signals' = signals
    BY <2>1, <2>3
  <2>4. CASE signals' = Append(signals, tick)
    <3>1. PICK q : q = signals'
      OBVIOUS
    <3>2. \A i \in 1..Len(q) : q[i] = tick \/ \E j \in 1..Len(signals) : q[i] = signals[j]
      BY <1>1, <2>4, <3>1
    <3> QED  BY <2>1, <2>2, <3>1, <3>2
  <2> QED  BY <2>3, <2>4
<1>6. main' = "gap" => Behind(emitted, from', L, catch, top)
  BY <1>1, <1>3 DEF Starts
<1>7. catch = "begin" => Behind(emitted, oldest, L, catch, top)
  BY <1>1, <1>3 DEF Starts
<1> QED  BY <1>4, <1>5, <1>6, <1>7 DEF Starts

LEMMA WorldInv ==
  ASSUME Inv, World, ~Restart
  PROVE  Inv'
<1> USE DEF chatVars, liveVars, chanVars, mainVars, sleepVars, histVars
<1>1. /\ posted' \in Nat /\ posted <= posted' /\ posted' <= MaxMsgs
      /\ tick' \in Nat
      /\ tick' = tick \/ posted <= tick'
      /\ signals' = signals \/ signals' = Append(signals, tick)
      /\ UNCHANGED <<catchVars, emitted, lived, lastSeen, main, from, window, saved, states, liveTs>>
  <2>0. posted \in Nat /\ MaxMsgs \in Nat /\ posted <= MaxMsgs /\ tick \in Nat
    BY BoundsAssumption DEF Inv, Types
  <2>1. CASE Post
    BY <2>0, <2>1 DEF Post
  <2>2. CASE Disconnect \/ Reconnect
    BY <2>0, <2>2 DEF Disconnect, Reconnect
  <2>3. CASE Tick
    BY <2>0, <2>3 DEF Tick
  <2>4. CASE \E n \in Times : Sleep(n)
    BY <2>0, <2>4 DEF Sleep, Times
  <2> QED  BY <2>1, <2>2, <2>3, <2>4 DEF World
<1>2. frames' \in Seq(Nat)
  <2>0. posted \in Nat /\ frames \in Seq(Nat)
    BY DEF Inv, Types
  <2>1. CASE Post
    <3>1. posted + 1 \in Nat
      BY <2>0
    <3>2. Append(frames, posted + 1) \in Seq(Nat)
      BY <2>0, <3>1
    <3> QED  BY <2>0, <2>1, <3>2 DEF Post
  <2>2. CASE Disconnect \/ Reconnect \/ Tick
    <3>1. <<>> \in Seq(Nat)
      OBVIOUS
    <3> QED  BY <2>0, <2>2, <3>1 DEF Disconnect, Reconnect, Tick
  <2>3. CASE \E n \in Times : Sleep(n)
    <3>1. PICK n \in Nat : frames' = frames \o Interval(posted, n) \/ frames' = <<>>
      <4>1. Times \subseteq Nat
        BY BoundsAssumption DEF Times
      <4> QED  BY <2>3, <4>1 DEF Sleep
    <3>2. PICK r : r = Interval(posted, n) /\ r \in Seq(Nat)
      BY <2>0, IntervalPaged DEF Paged
    <3>3. frames \o r \in Seq(Nat) /\ <<>> \in Seq(Nat)
      BY <2>0, <3>2
    <3> QED  BY <3>1, <3>2, <3>3
  <2> QED  BY <2>1, <2>2, <2>3 DEF World
<1>3. UNCHANGED <<catch, oldest, before, page, top, found>>
  BY <1>1 DEF catchVars
<1>4. signals' \in Seq(Nat)
  <2>1. signals \in Seq(Nat) /\ tick \in Nat
    BY DEF Inv, Types
  <2>2. Append(signals, tick) \in Seq(Nat)
    BY <2>1
  <2> QED  BY <1>1, <2>1, <2>2
<1>5. Types'
  BY <1>1, <1>2, <1>3, <1>4 DEF Inv, Types
<1>6. Sent(emitted, posted)' /\ Seen'
  <2>1. \A m \in Nat : m <= posted => m <= posted'
    BY <1>1 DEF Inv, Types
  <2>2. Msgs \subseteq Nat
    BY BoundsAssumption DEF Msgs
  <2> QED  BY <1>1, <2>1, <2>2 DEF Inv, Sent, Seen
<1>7. Pages' /\ Working'
  BY <1>1, WorkStays
<1>8. Starts'
  <2>1. lastSeen' \in Nat /\ lastSeen <= lastSeen'
    BY <1>1 DEF Inv, Types
  <2> QED  BY <1>1, <1>3, <2>1, StartsStay
<1> QED  BY <1>5, <1>6, <1>7, <1>8 DEF Inv

LEMMA LiveInv ==
  ASSUME Inv, Live
  PROVE  Inv'
<1> USE DEF chatVars, liveVars, chanVars, mainVars, sleepVars, histVars
<1>0. /\ liveTs \in Nat /\ lastSeen \in Nat /\ frames \in Seq(Nat) /\ window \in Seq(Nat)
      /\ posted \in Nat
  BY DEF Inv, Types
<1>1. /\ UNCHANGED <<posted, catchVars, emitted, tick, signals, main, from, saved, states>>
      /\ lived \subseteq lived'
  BY DEF Live, ReadFrame, PushWindow, AdvanceSeen, SendLive
<1>2. UNCHANGED <<catch, oldest, before, page, top, found>>
  BY <1>1 DEF catchVars
<1>3. lastSeen' \in Nat /\ lastSeen <= lastSeen'
  <2>1. lastSeen' = lastSeen \/ lastSeen' = Later(lastSeen, liveTs)
    BY DEF Live, ReadFrame, PushWindow, AdvanceSeen, SendLive
  <2>2. lastSeen <= lastSeen
    BY <1>0
  <2> QED  BY <1>0, <2>1, <2>2, LaterIs
<1>4. frames' \in Seq(Nat) /\ liveTs' \in Nat
  <2>1. CASE ReadFrame
    BY <1>0, <2>1, TailNat DEF ReadFrame
  <2>2. CASE ~ReadFrame
    BY <1>0, <2>2 DEF Live, PushWindow, AdvanceSeen, SendLive
  <2> QED  BY <2>1, <2>2
<1>5. window' \in Seq(Nat) /\ Seen'
  <2>1. CASE PushWindow
    <3>1. PICK w \in Seq(Nat) : /\ window' = Append(w, liveTs)
                                /\ \A i \in 1..Len(w) : \E j \in 1..Len(window) : w[i] = window[j]
      <4>1. CASE Len(window) < WindowCap
        BY <1>0, <2>1, <4>1 DEF PushWindow
      <4>2. CASE ~(Len(window) < WindowCap)
        <5>1. window # <<>>
          BY <4>2, BoundsAssumption
        <5> QED  BY <1>0, <2>1, <4>2, <5>1, TailNat DEF PushWindow
      <4> QED  BY <4>1, <4>2
    <3>2. PICK a : a = window'
      OBVIOUS
    <3>3. /\ a \in Seq(Nat)
          /\ \A i \in 1..Len(a) : a[i] = liveTs \/ \E j \in 1..Len(w) : a[i] = w[j]
      <4>1. /\ Len(w) \in Nat /\ Len(a) = Len(w) + 1 /\ a[Len(w) + 1] = liveTs
            /\ \A i \in 1..Len(w) : a[i] = w[i]
        BY <1>0, <3>1, <3>2
      <4>2. \A i \in 1..Len(w) + 1 : i = Len(w) + 1 \/ i \in 1..Len(w)
        BY <4>1
      <4> QED  BY <1>0, <3>1, <3>2, <4>1, <4>2, AppendNat
    <3>4. lived' = lived \cup {liveTs}
      BY <2>1 DEF PushWindow
    <3>5. \A i \in 1..Len(a) : a[i] \in Msgs => a[i] \in lived'
      BY <3>1, <3>3, <3>4 DEF Inv, Seen
    <3> QED  BY <3>2, <3>3, <3>5 DEF Seen
  <2>2. CASE ~PushWindow
    <3>1. UNCHANGED <<window, lived>>
      BY <2>2 DEF Live, ReadFrame, AdvanceSeen, SendLive
    <3> QED  BY <1>0, <3>1 DEF Inv, Seen
  <2> QED  BY <2>1, <2>2
<1>6. Types'
  BY <1>1, <1>2, <1>3, <1>4, <1>5 DEF Inv, Types
<1>7. Pages' /\ Working'
  <2>1. posted' \in Nat /\ posted <= posted'
    BY <1>0, <1>1
  <2> QED  BY <1>1, <2>1, WorkStays
<1>8. Starts'
  <2>1. tick' \in Nat
    BY <1>1 DEF Inv, Types
  <2> QED  BY <1>1, <1>2, <1>3, <2>1, StartsStay
<1> QED  BY <1>1, <1>5, <1>6, <1>7, <1>8 DEF Inv, Sent

LEMMA MainInv ==
  ASSUME Inv, Main
  PROVE  Inv'
<1> USE DEF chatVars, liveVars, chanVars, mainVars, sleepVars, histVars
<1>0. /\ posted \in Nat /\ signals \in Seq(Nat) /\ states \in Seq(Nat) /\ saved \in Nat
      /\ from \in Nat /\ oldest \in Nat
  BY DEF Inv, Types
<1>1. UNCHANGED <<posted, frames, liveTs, window, lastSeen, tick, before, page, top, found,
                  emitted, lived>>
  BY DEF Main, StartGap, TakeState, TakeCommand, SpawnCatchup, Resume, catchVars
<1>2. Sent(emitted, posted)' /\ Seen'
  BY <1>1 DEF Inv, Sent, Seen
<1>3. CASE StartGap
  <2>1. /\ signals # <<>> /\ from' = Head(signals) /\ signals' = Tail(signals)
        /\ UNCHANGED <<catchVars, saved, states>>
    BY <1>3 DEF StartGap
  <2>2. UNCHANGED <<catch, oldest>>
    BY <2>1 DEF catchVars
  <2>3. /\ Tail(signals) \in Seq(Nat) /\ Head(signals) \in Nat
        /\ \E j \in 1..Len(signals) : Head(signals) = signals[j]
        /\ \A i \in 1..Len(Tail(signals)) : \E j \in 1..Len(signals) : Tail(signals)[i] = signals[j]
    BY <1>0, <2>1, TailNat
  <2>4. Types'
    BY <1>1, <2>1, <2>2, <2>3 DEF Inv, Types
  <2>5. Starts'
    BY <1>1, <2>1, <2>2, <2>3 DEF Inv, Starts
  <2>6. Pages' /\ Working'
    BY <1>1, <2>2 DEF Inv, Pages, Working
  <2> QED  BY <1>2, <2>4, <2>5, <2>6 DEF Inv
<1>4. CASE SpawnCatchup
  <2>1. /\ main = "gap" /\ main' = "resume" /\ from' = 0
        /\ UNCHANGED <<signals, saved, states>>
        /\ \/ catch = "idle" /\ catch' = "begin" /\ oldest' = from
           \/ UNCHANGED <<catch, oldest>>
    BY <1>4 DEF SpawnCatchup
  <2>2. Types'
    BY <1>0, <1>1, <2>1 DEF Inv, Types
  <2>3. Starts'
    BY <1>1, <2>1 DEF Inv, Starts, Behind
  <2>4. Pages' /\ Working'
    BY <1>1, <2>1 DEF Inv, Pages, Working
  <2> QED  BY <1>2, <2>2, <2>3, <2>4 DEF Inv
<1>5. CASE TakeState \/ TakeCommand \/ Resume
  <2>1. /\ UNCHANGED <<catchVars, signals, from>>
        /\ main' = "gap" => main = "gap"
        /\ states' \in Seq(Nat) /\ saved' \in Nat
    BY <1>0, <1>5, LaterIs, TailNat DEF TakeState, TakeCommand, Resume
  <2>2. UNCHANGED <<catch, oldest>>
    BY <2>1 DEF catchVars
  <2>3. Types'
    BY <1>1, <2>1, <2>2 DEF Inv, Types
  <2>4. Starts'
    BY <1>1, <2>1, <2>2 DEF Inv, Starts
  <2>5. Pages' /\ Working'
    BY <1>1, <2>2 DEF Inv, Pages, Working
  <2> QED  BY <1>2, <2>3, <2>4, <2>5 DEF Inv
<1> QED  BY <1>3, <1>4, <1>5 DEF Main

(* Nothing is at work, wherever the detector is now.                       *)
LEMMA RestartInv ==
  ASSUME Inv, Restart
  PROVE  Inv'
<1>1. /\ catch' = "idle" /\ oldest' = 0 /\ before' = 0 /\ page' = <<>> /\ top' = 0 /\ found' = <<>>
      /\ tick' = posted /\ signals' = <<>> /\ main' = "loop" /\ from' = 0
      /\ lastSeen' = saved /\ states' = <<>> /\ frames' = <<>> /\ window' = <<>> /\ liveTs' = 0
      /\ UNCHANGED <<posted, saved, emitted, lived>>
  BY DEF Restart, histVars
<1>2. posted \in Nat /\ saved \in Nat /\ <<>> \in Seq(Nat) /\ Len(<<>>) = 0
  BY DEF Inv, Types
<1>3. Types'
  BY <1>1, <1>2 DEF Inv, Types
<1>4. Sent(emitted, posted)' /\ Seen' /\ Pages' /\ Working'
  BY <1>1, <1>2 DEF Inv, Sent, Seen, Pages, Working
<1>5. Behind(emitted, posted, saved, "idle", 0)
  <2>1. posted <= posted
    BY <1>2
  <2> QED  BY <1>2, <2>1, BehindSent DEF Inv
<1> QED  BY <1>1, <1>2, <1>3, <1>4, <1>5 DEF Inv, Starts

LEMMA InitInv == Init => Inv
<1> SUFFICES ASSUME Init PROVE Inv
  OBVIOUS
<1>1. /\ catch = "idle" /\ oldest = 0 /\ before = 0 /\ page = <<>> /\ top = 0 /\ found = <<>>
      /\ tick = 0 /\ signals = <<>> /\ main = "loop" /\ from = 0 /\ posted = 0 /\ saved = 0
      /\ lastSeen = 0 /\ states = <<>> /\ frames = <<>> /\ window = <<>> /\ liveTs = 0
      /\ emitted = [m \in Msgs |-> 0]
  BY DEF Init
<1>2. <<>> \in Seq(Nat) /\ Len(<<>>) = 0 /\ MaxMsgs \in Nat
  BY BoundsAssumption
<1> QED  BY <1>1, <1>2 DEF Inv, Types, Sent, Starts, Behind, Seen, Pages, Working

------------------------------------------------------------------------------
(* The catchup.  It moves no signal and no detector.                       *)
CatchLeaves ==
  UNCHANGED <<posted, frames, liveTs, window, saved, tick, signals, main, from, lived>>

LEMMA BeginInv ==
  ASSUME Inv, Begin
  PROVE  Inv'
<1> DEFINE o == Later(oldest, lastSeen)
<1>1. /\ CatchLeaves /\ UNCHANGED <<lastSeen, states, emitted, page, top, found>>
      /\ catch = "begin" /\ catch' = "fetch" /\ oldest' = o /\ before' = MaxMsgs + 1
  BY DEF Begin, CatchGoes, CatchLeaves, chatVars, liveVars, chanVars, mainVars, sleepVars,
         histVars
<1>2. oldest \in Nat /\ lastSeen \in Nat /\ MaxMsgs + 1 \in Nat
  <2>1. MaxMsgs \in Nat
    BY BoundsAssumption
  <2> QED  BY <2>1 DEF Inv, Types
<1>3. o \in Nat /\ oldest <= o /\ lastSeen <= o
  BY <1>2, LaterIs
<1> HIDE DEF o
<1>4. Types'
  BY <1>1, <1>2, <1>3 DEF Inv, Types, CatchLeaves
<1>5. Sent(emitted, posted)' /\ Seen'
  BY <1>1 DEF Inv, Sent, Seen, CatchLeaves
<1>6. Starts'
  BY <1>1 DEF Inv, Starts, Behind, CatchLeaves
<1>7. \A m \in Msgs : emitted[m] # 0 => m <= o
  <2>1. Msgs \subseteq Nat
    BY BoundsAssumption DEF Msgs
  <2>2. \A m \in Nat : m <= oldest \/ m <= lastSeen => m <= o
    BY <1>2, <1>3
  <2> QED  BY <1>1, <2>1, <2>2 DEF Inv, Starts, Behind
<1>8. Rows(<<>>, MaxMsgs + 1, 0, emitted)
  <2>1. <<>> \in Seq(Msgs) /\ Len(<<>>) = 0
    OBVIOUS
  <2> QED  BY <2>1 DEF Rows
<1>9. Pages' /\ Working'
  BY <1>1, <1>7, <1>8 DEF Inv, Types, Pages, Working, CatchLeaves
<1> QED  BY <1>4, <1>5, <1>6, <1>9 DEF Inv

LEMMA FetchInv ==
  ASSUME Inv, Fetch
  PROVE  Inv'
<1> DEFINE newest == IF posted < before THEN posted ELSE before - 1
           least  == IF newest > PageSize THEN newest - PageSize ELSE 0
           start  == Later(oldest, least)
<1>1. /\ CatchLeaves /\ UNCHANGED <<lastSeen, states, emitted, oldest, before, top, found>>
      /\ catch = "fetch" /\ catch' = "page" /\ page' = Interval(start, newest)
  BY DEF Fetch, CatchGoes, CatchLeaves, chatVars, liveVars, chanVars, mainVars, sleepVars,
         histVars
<1>2. posted \in Nat /\ before \in Nat /\ oldest \in Nat /\ PageSize \in Nat \ {0} /\ top \in Nat
  BY BoundsAssumption DEF Inv, Types
<1>3. top # 0 => top <= posted /\ before <= top /\ oldest + 1 < before
  BY <1>1 DEF Inv, Working
<1>4. 0 < before
  <2>1. top = 0 => before = MaxMsgs + 1
    BY <1>1 DEF Inv, Working
  <2> QED  BY <1>2, <1>3, <2>1, BoundsAssumption
<1>5. newest \in Nat /\ newest < before /\ newest <= posted
  BY <1>2, <1>4
<1>6. top # 0 => newest = before - 1 /\ oldest < newest
  BY <1>2, <1>3
<1> HIDE DEF newest
<1>7. least \in Nat /\ (0 < newest => least < newest)
  BY <1>2, <1>5
<1>8. start \in Nat /\ oldest <= start /\ (oldest < newest => start < newest)
  <2>1. 0 < newest \/ ~(oldest < newest)
    BY <1>2, <1>5
  <2> HIDE DEF least
  <2> QED  BY <1>2, <1>5, <1>7, <2>1 DEF Later
<1> HIDE DEF start
<1>9. PICK n \in Nat : /\ Paged(Interval(start, newest), start, n)
                       /\ start <= newest => n = newest - start
                       /\ newest < start => n = 0
  BY <1>5, <1>8, IntervalPaged
<1>10. /\ n # 0 => start + n < before /\ start + n <= posted
       /\ top # 0 => n # 0 /\ start + n = before - 1
  <2>1. n # 0 => start <= newest /\ start + n = newest
    BY <1>5, <1>8, <1>9
  <2>2. top # 0 => start < newest
    BY <1>6, <1>8
  <2>3. start < newest => n # 0
    BY <1>5, <1>8, <1>9
  <2> QED  BY <1>5, <1>6, <2>1, <2>2, <2>3
<1>11. Types'
  BY <1>1 DEF Inv, Types, CatchLeaves
<1>12. Sent(emitted, posted)' /\ Seen'
  BY <1>1 DEF Inv, Sent, Seen, CatchLeaves
<1>13. Starts'
  BY <1>1 DEF Inv, Starts, Behind, CatchLeaves
<1>14. Pages'
  BY <1>1, <1>8, <1>9, <1>10 DEF Pages, CatchLeaves
<1>15. Working'
  BY <1>1 DEF Inv, Working, CatchLeaves
<1> QED  BY <1>11, <1>12, <1>13, <1>14, <1>15 DEF Inv

(* A catchup that fails has sent nothing.                                  *)
LEMMA FetchFailsInv ==
  ASSUME Inv, FetchFails
  PROVE  Inv'
<1>1. /\ CatchLeaves /\ UNCHANGED <<lastSeen, states, emitted>>
      /\ catch = "fetch" /\ catch' = "idle"
      /\ oldest' = 0 /\ before' = 0 /\ page' = <<>> /\ top' = 0 /\ found' = <<>>
  BY DEF FetchFails, Finish, CatchLeaves, chatVars, liveVars, chanVars, mainVars, sleepVars
<1>2. Types'
  BY <1>1 DEF Inv, Types, CatchLeaves
<1>3. Sent(emitted, posted)' /\ Seen' /\ Pages' /\ Working'
  BY <1>1 DEF Inv, Sent, Seen, Pages, Working, CatchLeaves
<1>4. Starts'
  BY <1>1 DEF Inv, Starts, Behind, CatchLeaves
<1> QED  BY <1>2, <1>3, <1>4 DEF Inv

(* What is kept of a page goes before what was found.                      *)
LEMMA PageJoins ==
  ASSUME NEW f, NEW b \in Nat, NEW t \in Nat, NEW E, NEW L, NEW q, NEW a \in Nat, NEW n \in Nat,
         NEW S, NEW row \in InOrder(S), NEW t1 \in Nat,
         Rows(f, b, t, E), Paged(q, a, n), n # 0, a + n < b,
         \A m \in Msgs : E[m] # 0 => m <= a,
         S \subseteq Msgs, \A m \in S : In(q, m),
         \A m \in Msgs : In(q, m) => m \in S \/ m \in L,
         \/ t = 0 /\ t1 = a + n
         \/ t # 0 /\ t1 = t /\ b <= t /\ a + n = b - 1 /\ Complete(b, t, f, E, L)
  PROVE  Rows(f \o row, a + 1, t1, E) /\ Complete(a + 1, t1, f \o row, E, L)
<1>1. Msgs \subseteq Nat /\ \A m \in Msgs : m # 0
  BY BoundsAssumption DEF Msgs
<1>2. /\ row \in Seq(S) /\ row \in Seq(Msgs)
      /\ \A i, j \in 1..Len(row) : row[i] = row[j] => i = j
      /\ \A m \in S : In(row, m)
      /\ \A i \in 1..Len(row) : row[i] \in S
  BY RowOf
<1>3. \A m \in Msgs : In(q, m) => a + 1 <= m /\ m <= a + n
  BY DEF In, Paged
<1>4. \A m \in Nat : a + 1 <= m /\ m <= a + n => In(q, m)
  <2> TAKE m \in Nat
  <2>1. a + 1 <= m /\ m <= a + n => m - a \in 1..n /\ a + (m - a) = m
    OBVIOUS
  <2> QED  BY <2>1 DEF In, Paged
<1>5. \A m : In(row, m) => m \in S /\ m \in Msgs /\ a + 1 <= m /\ m <= a + n
  BY <1>2, <1>3 DEF In
<1>6. \A m : In(f, m) => m \in Msgs /\ m \in Nat /\ b <= m /\ m <= t /\ E[m] = 0
  <2> SUFFICES ASSUME NEW i \in 1..Len(f)
               PROVE  f[i] \in Msgs /\ f[i] \in Nat /\ b <= f[i] /\ f[i] <= t /\ E[f[i]] = 0
    BY DEF In
  <2>1. f[i] \in Msgs
    BY DEF Rows
  <2> QED  BY <1>1, <2>1 DEF Rows
<1>7. t = 0 => \A m : ~In(f, m)
  <2>1. \A m \in Nat : m # 0 => ~(m <= 0)
    OBVIOUS
  <2> QED  BY <1>1, <1>6, <2>1
<1>8. \A m : In(f, m) => ~In(row, m)
  <2>1. \A m \in Nat : b <= m => ~(m <= a + n)
    OBVIOUS
  <2> QED  BY <1>5, <1>6, <2>1
<1>9. f \in Seq(Msgs) /\ \A i, j \in 1..Len(f) : f[i] = f[j] => i = j
  BY DEF Rows
<1>10. /\ f \o row \in Seq(Msgs)
       /\ \A m : In(f \o row, m) <=> In(f, m) \/ In(row, m)
       /\ \A i \in 1..Len(f \o row) : In(f, (f \o row)[i]) \/ In(row, (f \o row)[i])
       /\ \A i, j \in 1..Len(f \o row) : (f \o row)[i] = (f \o row)[j] => i = j
  BY <1>2, <1>8, <1>9, RowJoins
<1>11. \A m : In(f, m) \/ In(row, m) => a + 1 <= m /\ m <= t1 /\ E[m] = 0
  <2>1. \A m : In(f, m) => a + 1 <= m /\ m <= t1 /\ E[m] = 0
    <3>1. t # 0 => \A m \in Nat : b <= m => a + 1 <= m
      OBVIOUS
    <3> QED  BY <1>6, <1>7, <3>1
  <2>2. \A m \in Nat : m <= a + n => m <= t1
    OBVIOUS
  <2>3. \A m \in Nat : a + 1 <= m => ~(m <= a)
    OBVIOUS
  <2> QED  BY <1>1, <1>5, <2>1, <2>2, <2>3
<1>12. ASSUME NEW m \in Msgs, a + 1 <= m, m <= t1
       PROVE  In(f, m) \/ In(row, m) \/ E[m] # 0 \/ m \in L
  <2>1. CASE m <= a + n
    BY <1>1, <1>2, <1>4, <1>12, <2>1
  <2>2. CASE ~(m <= a + n)
    <3>1. t # 0 /\ b <= m /\ m <= t
      BY <1>1, <1>12, <2>2
    <3> QED  BY <3>1 DEF Complete
  <2> QED  BY <2>1, <2>2
<1> QED  BY <1>10, <1>11, <1>12 DEF Rows, Complete

LEMMA ProcessPageInv ==
  ASSUME Inv, ProcessPage
  PROVE  Inv'
<1>1. /\ CatchLeaves /\ UNCHANGED <<lastSeen, states, emitted, oldest>>
      /\ catch = "page" /\ page' = <<>>
      /\ top' = IF top = 0 /\ page # <<>> THEN page[Len(page)] ELSE top
      /\ \/ catch' = "fetch" /\ before' = page[1] /\ page # <<>> /\ page[1] > oldest + 1
         \/ /\ catch' = "emit" /\ before' = before
            /\ ~(page # <<>> /\ page[1] > oldest + 1)
  BY DEF ProcessPage, CatchGoes, CatchLeaves, chatVars, liveVars, chanVars, mainVars, sleepVars,
         histVars
<1>2. PICK row \in InOrder(Unseen) : found' = found \o row
  BY DEF ProcessPage
<1>3. PICK a \in Nat, n \in Nat :
        /\ Paged(page, a, n)
        /\ oldest <= a
        /\ n # 0 => a + n < before /\ a + n <= posted
        /\ top # 0 => n # 0 /\ a + n = before - 1
  BY <1>1 DEF Inv, Pages
<1>4. /\ posted \in Nat /\ oldest \in Nat /\ before \in Nat /\ top \in Nat
      /\ top <= posted
      /\ \A m \in Msgs : emitted[m] # 0 => m <= oldest
      /\ Rows(found, before, top, emitted)
      /\ top # 0 => before <= top /\ Complete(before, top, found, emitted, lived)
  BY <1>1 DEF Inv, Types, Working
<1>5. \A m \in Msgs : emitted[m] # 0 => m <= a
  <2>1. Msgs \subseteq Nat
    BY BoundsAssumption DEF Msgs
  <2>2. \A m \in Nat : m <= oldest => m <= a
    BY <1>3, <1>4
  <2> QED  BY <1>4, <2>1, <2>2
<1>6. /\ Unseen \subseteq Msgs /\ \A m \in Unseen : In(page, m)
      /\ \A m \in Msgs : In(page, m) => m \in Unseen \/ m \in lived
  <2>1. DOMAIN page = 1..Len(page) /\ DOMAIN window = 1..Len(window)
    BY <1>3 DEF Paged, Inv, Types
  <2> QED  BY <2>1 DEF Unseen, In, Inv, Seen
<1>7. Types' /\ Sent(emitted, posted)' /\ Seen' /\ Starts'
  <2>1. /\ \A i \in 1..Len(page) : page[i] \in Nat
        /\ page # <<>> => 1 \in 1..Len(page) /\ Len(page) \in 1..Len(page)
    BY <1>3 DEF Paged
  <2>2. top' \in Nat /\ before' \in Nat
    BY <1>1, <1>4, <2>1
  <2>3. Types'
    BY <1>1, <2>2 DEF Inv, Types, CatchLeaves
  <2>4. Sent(emitted, posted)' /\ Seen'
    BY <1>1 DEF Inv, Sent, Seen, CatchLeaves
  <2>5. Starts'
    BY <1>1 DEF Inv, Starts, Behind, CatchLeaves
  <2> QED  BY <2>3, <2>4, <2>5
<1>8. Pages'
  BY <1>1 DEF Pages
<1>9. CASE n = 0
  <2>1. page = <<>> /\ top = 0 /\ top' = 0 /\ catch' = "emit"
    BY <1>1, <1>3, <1>9 DEF Paged
  <2>2. \A m : ~In(found', m)
    <3>1. \A m : In(found, m) => m \in Msgs /\ m <= 0
      <4> SUFFICES ASSUME NEW i \in 1..Len(found) PROVE found[i] \in Msgs /\ found[i] <= 0
        BY DEF In
      <4>1. found \in Seq(Msgs) /\ found[i] <= top
        BY <1>4 DEF Rows
      <4> QED  BY <2>1, <4>1
    <3>2. \A m \in Msgs : ~(m <= 0)
      BY BoundsAssumption DEF Msgs
    <3>3. Unseen = {}
      BY <1>6, <2>1 DEF In
    <3>4. row \in Seq(Unseen) /\ found \in Seq(Msgs)
      BY <1>2, <1>4, <1>6, RowOf DEF Rows
    <3>5. row \in Seq(Msgs) /\ \A m : ~In(row, m)
      BY <3>3, <3>4 DEF In
    <3> QED  BY <1>2, <3>1, <3>2, <3>4, <3>5, RowJoins
  <2>3. found' \in Seq(Msgs)
    <3>1. row \in Seq(Unseen) /\ found \in Seq(Msgs)
      BY <1>2, <1>4, <1>6, RowOf DEF Rows
    <3>2. row \in Seq(Msgs)
      BY <1>6, <3>1
    <3> QED  BY <1>2, <3>1, <3>2
  <2>4. Rows(found', oldest + 1, 0, emitted)
    BY <2>2, <2>3 DEF Rows, In
  <2>5. Complete(oldest + 1, 0, found', emitted, lived)
    <3>1. \A m \in Msgs : ~(m <= 0)
      BY BoundsAssumption DEF Msgs
    <3> QED  BY <3>1 DEF Complete
  <2>6. Working'
    BY <1>1, <1>4, <2>1, <2>4, <2>5 DEF Working, CatchLeaves
  <2> QED  BY <1>7, <1>8, <2>6 DEF Inv
<1>10. CASE n # 0
  <2>1. PICK t \in Nat : /\ top' = t /\ t # 0 /\ t <= posted /\ a + 1 <= t
                         /\ \/ top = 0 /\ t = a + n
                            \/ top # 0 /\ t = top /\ before <= top /\ a + n = before - 1
    <3>1. page # <<>> /\ page[Len(page)] = a + n
      BY <1>3, <1>10 DEF Paged
    <3>2. top = 0 => top' = a + n
      BY <1>1, <3>1
    <3>3. top # 0 => top' = top
      BY <1>1
    <3> QED  BY <1>3, <1>4, <1>10, <3>2, <3>3
  <2>2. Rows(found', a + 1, t, emitted) /\ Complete(a + 1, t, found', emitted, lived)
    <3>1. a + n < before
      BY <1>3, <1>10
    <3> QED  BY <1>2, <1>3, <1>4, <1>5, <1>6, <1>10, <2>1, <3>1, PageJoins
  <2>3. page # <<>> /\ page[1] = a + 1
    BY <1>3, <1>10 DEF Paged
  <2>4. CASE catch' = "fetch"
    <3>1. before' = a + 1 /\ oldest + 1 < a + 1
      BY <1>1, <1>3, <1>4, <2>3, <2>4
    <3> QED  BY <1>1, <1>4, <1>7, <1>8, <2>1, <2>2, <2>4, <3>1 DEF Inv, Working, CatchLeaves
  <2>5. CASE catch' = "emit"
    <3>1. ~(page[1] > oldest + 1)
      BY <1>1, <2>3, <2>5
    <3>2. a = oldest
      BY <1>3, <1>4, <2>3, <3>1
    <3> QED  BY <1>1, <1>4, <1>7, <1>8, <2>1, <2>2, <2>5, <3>2 DEF Inv, Working, CatchLeaves
  <2> QED  BY <1>1, <2>4, <2>5
<1> QED  BY <1>9, <1>10

LEMMA EmitInv ==
  ASSUME Inv, Emit
  PROVE  Inv'
<1> DEFINE h == Head(found)
<1>1. /\ CatchLeaves /\ UNCHANGED <<lastSeen, states, oldest, before, page, top>>
      /\ catch = "emit" /\ catch' = "emit"
      /\ found # <<>> /\ found' = Tail(found) /\ emitted' = [emitted EXCEPT ![h] = @ + 1]
  BY DEF Emit, CatchGoes, CatchLeaves, chatVars, liveVars, mainVars, sleepVars
<1>2. /\ found \in Seq(Msgs) /\ \A i, j \in 1..Len(found) : found[i] = found[j] => i = j
      /\ \A m : In(found, m) => m \in Msgs /\ oldest + 1 <= m /\ m <= top /\ emitted[m] = 0
      /\ Complete(oldest + 1, top, found, emitted, lived)
      /\ top <= posted /\ top \in Nat /\ posted \in Nat
  <2>1. Rows(found, oldest + 1, top, emitted) /\ Complete(oldest + 1, top, found, emitted, lived)
    BY <1>1 DEF Inv, Working
  <2>2. top <= posted /\ top \in Nat /\ posted \in Nat
    BY <1>1 DEF Inv, Types, Working
  <2>3. /\ found \in Seq(Msgs)
        /\ \A i, j \in 1..Len(found) : found[i] = found[j] => i = j
        /\ \A i \in 1..Len(found) : oldest + 1 <= found[i] /\ found[i] <= top
                                     /\ emitted[found[i]] = 0
    BY <2>1 DEF Rows
  <2>4. \A i \in 1..Len(found) : found[i] \in Msgs
    BY <2>3
  <2>5. ASSUME NEW m, In(found, m)
        PROVE  m \in Msgs /\ oldest + 1 <= m /\ m <= top /\ emitted[m] = 0
    <3>1. PICK i \in 1..Len(found) : found[i] = m
      BY <2>5 DEF In
    <3> QED  BY <2>3, <2>4, <3>1
  <2> QED  BY <2>1, <2>2, <2>3, <2>5
<1>3. /\ Tail(found) \in Seq(Msgs)
      /\ \A i, j \in 1..Len(Tail(found)) : Tail(found)[i] = Tail(found)[j] => i = j
      /\ \A i \in 1..Len(Tail(found)) : Tail(found)[i] # h /\ In(found, Tail(found)[i])
      /\ \A m : In(found, m) => m = h \/ In(Tail(found), m)
      /\ In(found, h) /\ h \in Msgs
  BY <1>1, <1>2, TailRow
<1> HIDE DEF h
<1>4. PICK E : E = emitted'
  OBVIOUS
<1>5. /\ E \in [Msgs -> {0, 1}] /\ E[h] = 1
      /\ \A m \in Msgs : m # h => E[m] = emitted[m]
  <2>1. emitted \in [Msgs -> {0, 1}] /\ emitted[h] = 0
    BY <1>2, <1>3 DEF Inv, Sent
  <2>2. E = [emitted EXCEPT ![h] = 1]
    BY <1>1, <1>4, <2>1
  <2> QED  BY <1>3, <2>1, <2>2
<1>6. h <= top /\ h <= posted
  <2>1. h \in Nat
    BY <1>3, BoundsAssumption DEF Msgs
  <2> QED  BY <1>2, <1>3, <2>1
<1>7. Rows(Tail(found), oldest + 1, top, E)
  BY <1>2, <1>3, <1>5 DEF Rows
<1>8. Complete(oldest + 1, top, Tail(found), E, lived)
  <2>1. E[h] # 0
    BY <1>5
  <2> QED  BY <1>2, <1>3, <1>5, <2>1 DEF Complete
<1>9. Types'
  BY <1>1 DEF Inv, Types, CatchLeaves
<1>10. Sent(E, posted)
  BY <1>5, <1>6 DEF Inv, Sent
<1>11. \A s, l : Behind(emitted, s, l, "emit", top) => Behind(E, s, l, "emit", top)
  BY <1>5, <1>6 DEF Behind
<1>12. Starts'
  BY <1>1, <1>4, <1>11 DEF Inv, Starts, CatchLeaves
<1>13. Seen' /\ Pages'
  BY <1>1 DEF Inv, Seen, Pages, CatchLeaves
<1>14. Working'
  BY <1>1, <1>2, <1>4, <1>7, <1>8 DEF Working, CatchLeaves
<1> QED  BY <1>1, <1>4, <1>9, <1>10, <1>12, <1>13, <1>14 DEF Inv, CatchLeaves

LEMMA AdvanceInv ==
  ASSUME Inv, Advance
  PROVE  Inv'
<1> DEFINE l == Later(lastSeen, top)
<1>1. /\ CatchLeaves /\ UNCHANGED <<states, emitted>>
      /\ catch = "emit" /\ found = <<>> /\ lastSeen' = l
      /\ \/ /\ catch' = "idle"
            /\ oldest' = 0 /\ before' = 0 /\ page' = <<>> /\ top' = 0 /\ found' = <<>>
         \/ catch' = "save" /\ UNCHANGED <<oldest, before, page, top, found>>
  BY DEF Advance, Finish, CatchLeaves, chatVars, liveVars, chanVars, mainVars, sleepVars,
         histVars
<1>2. lastSeen \in Nat /\ top \in Nat /\ top <= posted
  BY <1>1 DEF Inv, Types, Working
<1>3. l \in Nat /\ lastSeen <= l /\ top <= l
  BY <1>2, LaterIs
<1> HIDE DEF l
<1>4. Types'
  BY <1>1, <1>3 DEF Inv, Types, CatchLeaves
<1>5. Sent(emitted, posted)' /\ Seen'
  BY <1>1 DEF Inv, Sent, Seen, CatchLeaves
<1>6. \A s, c, t : Behind(emitted, s, lastSeen, "emit", top) => Behind(emitted, s, l, c, t)
  <2>1. Msgs \subseteq Nat
    BY BoundsAssumption DEF Msgs
  <2>2. \A m \in Nat : m <= lastSeen \/ m <= top => m <= l
    BY <1>2, <1>3
  <2> QED  BY <2>1, <2>2 DEF Behind
<1>7. Starts'
  BY <1>1, <1>6 DEF Inv, Starts, CatchLeaves
<1>8. Complete(oldest + 1, top, <<>>, emitted, lived)
  BY <1>1 DEF Inv, Working
<1>9. Pages' /\ Working'
  BY <1>1, <1>2, <1>8 DEF Inv, Pages, Working, CatchLeaves
<1> QED  BY <1>4, <1>5, <1>7, <1>9 DEF Inv

LEMMA SaveInv ==
  ASSUME Inv, Save
  PROVE  Inv'
<1>1. /\ CatchLeaves /\ UNCHANGED <<lastSeen, emitted>> /\ states' = Append(states, top)
      /\ catch = "save" /\ catch' = "idle"
      /\ oldest' = 0 /\ before' = 0 /\ page' = <<>> /\ top' = 0 /\ found' = <<>>
  BY DEF Save, Finish, CatchLeaves, chatVars, liveVars, mainVars, sleepVars, histVars
<1>2. Append(states, top) \in Seq(Nat)
  BY AppendNat DEF Inv, Types
<1>3. Types'
  BY <1>1, <1>2 DEF Inv, Types, CatchLeaves
<1>4. Sent(emitted, posted)' /\ Seen' /\ Pages' /\ Working'
  BY <1>1 DEF Inv, Sent, Seen, Pages, Working, CatchLeaves
<1>5. Starts'
  BY <1>1 DEF Inv, Starts, Behind, CatchLeaves
<1> QED  BY <1>3, <1>4, <1>5 DEF Inv

------------------------------------------------------------------------------
(* A request or a handler that never comes back.                           *)
LEMMA UnansweredInv ==
  ASSUME Inv, Unanswered
  PROVE  Inv'
<1>1. CASE Hang
  <2>1. /\ main' = "stuck"
        /\ UNCHANGED <<posted, frames, liveTs, window, saved, states, tick, signals, from, lived,
                       lastSeen, emitted, catch, oldest, before, page, top, found>>
    BY <1>1 DEF Hang, chatVars, liveVars, sleepVars, catchVars, histVars
  <2> QED  BY <2>1 DEF Inv, Types, Sent, Starts, Seen, Pages, Working
<1>2. CASE Stall
  <2>1. /\ CatchLeaves /\ UNCHANGED <<lastSeen, states, emitted, oldest, before, page, top, found>>
        /\ catch = "fetch" /\ catch' = "stalled"
    BY <1>2 DEF Stall, CatchGoes, CatchLeaves, chatVars, liveVars, chanVars, mainVars, sleepVars,
                histVars
  <2>2. Types' /\ Sent(emitted, posted)' /\ Seen'
    BY <2>1 DEF Inv, Types, Sent, Seen, CatchLeaves
  <2>3. Pages' /\ Working'
    BY <2>1 DEF Inv, Pages, Working, CatchLeaves
  <2>4. Starts'
    BY <2>1 DEF Inv, Starts, Behind, CatchLeaves
  <2> QED  BY <2>2, <2>3, <2>4 DEF Inv
<1> QED  BY <1>1, <1>2 DEF Unanswered

LEMMA NextInv == Inv /\ [Next]_vars => Inv'
<1> SUFFICES ASSUME Inv, [Next]_vars PROVE Inv'
  OBVIOUS
<1>1. CASE World
  BY <1>1, WorldInv, RestartInv
<1>2. CASE Live
  BY <1>2, LiveInv
<1>3. CASE Main
  BY <1>3, MainInv
<1>4. CASE Catchup
  BY <1>4, BeginInv, FetchInv, FetchFailsInv, ProcessPageInv, EmitInv, AdvanceInv, SaveInv
     DEF Catchup
<1>5. CASE Unanswered
  BY <1>5, UnansweredInv
<1>6. CASE UNCHANGED vars
  BY <1>6 DEF vars, chatVars, liveVars, chanVars, mainVars, sleepVars, catchVars, histVars,
              Inv, Types, Sent, Starts, Seen, Pages, Working
<1> QED  BY <1>1, <1>2, <1>3, <1>4, <1>5, <1>6 DEF Next

LEMMA Invariance == Spec => []Inv
BY InitInv, NextInv, PTL DEF Spec

(* However gaps, catchups, live messages, failing requests and restarts    *)
(* interleave, run_catchup (chat_adapters/slack.rs) replays no message     *)
(* that was replayed before.                                               *)
THEOREM NothingReplayedTwice == Spec => []EmittedOnce
<1>1. Inv => EmittedOnce
  BY DEF Inv, Sent, EmittedOnce
<1> QED  BY <1>1, Invariance, PTL

(* The pages of process_history_page (chat_adapters/slack.rs) leave no     *)
(* hole: when the watermark is persisted, everything from the gap to it    *)
(* was sent to main or had come live.                                      *)
THEOREM NothingInGapMissing == Spec => []GapCovered
<1>1. Inv => GapCovered
  <2> SUFFICES ASSUME Inv, catch = "save", NEW m \in (oldest + 1)..top
               PROVE  emitted[m] > 0 \/ m \in lived
    BY DEF GapCovered
  <2>1. /\ Complete(oldest + 1, top, <<>>, emitted, lived)
        /\ emitted \in [Msgs -> {0, 1}] /\ top <= posted /\ posted <= MaxMsgs
        /\ oldest \in Nat /\ top \in Nat /\ posted \in Nat /\ MaxMsgs \in Nat
    BY BoundsAssumption DEF Inv, Types, Sent, Working
  <2>2. m \in Msgs /\ oldest + 1 <= m /\ m <= top
    BY <2>1 DEF Msgs
  <2>3. ~In(<<>>, m)
    BY DEF In
  <2> QED  BY <2>1, <2>2, <2>3 DEF Complete
<1> QED  BY <1>1, Invariance, PTL
==============================================================================
