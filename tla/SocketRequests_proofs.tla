------------------------ MODULE SocketRequests_proofs ------------------------
(***************************************************************************)
(* What SocketRequests guarantees for every number of connections, request *)
(* ids, requests and replies: types, whole answers, no answer lost, one    *)
(* interrupt a request.                                                    *)
(***************************************************************************)
EXTENDS SocketRequests, TLAPS

(* Nothing is known of a request before it is accepted.                    *)
Known ==
  /\ busy <= count
  /\ \A k \in 1..Len(cmds) : cmds[k] <= count
  /\ \A c \in Conns : held[c] <= count
  /\ \A c \in Conns, i \in Ids : pending[c][i] <= count
  /\ \A n \in Requests : n > count =>
       /\ n \notin handled /\ n \notin orphans /\ n \notin cancelled
       /\ ends[n] = 0 /\ interrupts[n] = 0

(* A request goes from its connection through the command channel to the   *)
(* main loop once, and is handled last.                                    *)
Queue ==
  /\ busy \notin handled
  /\ \A k \in 1..Len(cmds) : cmds[k] \notin handled /\ cmds[k] # busy
  /\ \A k, l \in 1..Len(cmds) : cmds[k] = cmds[l] => k = l
  /\ \A c \in Conns : conn[c] = "sending" =>
       /\ held[c] \notin handled /\ held[c] # busy
       /\ \A k \in 1..Len(cmds) : cmds[k] # held[c]

(* An entry is that of a request of this connection under this id, which   *)
(* has no end yet.                                                         *)
Entry(c, i, n) ==
  /\ request[n].conn = c /\ request[n].id = i
  /\ ends[n] = 0 /\ n \notin orphans
  /\ n \notin cancelled => interrupts[n] = 0

Entries ==
  \A c \in Conns, i \in Ids : pending[c][i] # 0 => Entry(c, i, pending[c][i])

(* What is being forwarded is newer than every entry, and only an          *)
(* attachment has the id of one.                                           *)
Forwarded(c, n) ==
  /\ request[n].conn = c /\ request[n].id \in Ids
  /\ ends[n] = 0 /\ n \notin orphans /\ n \notin cancelled /\ interrupts[n] = 0
  /\ \A i \in Ids : pending[c][i] < n
  /\ pending[c][request[n].id] # 0 => request[n].kind = "other"

Forwards == \A c \in Conns : held[c] # 0 => Forwarded(c, held[c])

IInv == /\ TypeOK /\ Known /\ Queue /\ Entries /\ Forwards
        /\ AnswersWhole /\ OneInterrupt /\ ReplacedByAttachment /\ NoAnswerLost

(* The bounds.                                                             *)
LEMMA Limits ==
  /\ MaxRequests \in Nat /\ MaxReplies \in Nat
  /\ CmdCap \in Nat /\ CancelCap \in Nat /\ CmdCap > 0 /\ CancelCap > 0
  BY BoundsAssumption

(* The types again, without the sets of functions.                         *)
LEMMA Typed ==
  ASSUME TypeOK
  PROVE  /\ busy \in Nat /\ count \in Nat
         /\ \A k \in 1..Len(cmds) : cmds[k] \in Requests
         /\ Len(cmds) \in Nat
         /\ \A c \in Conns : held[c] \in Nat /\ (held[c] # 0 => held[c] \in Requests)
         /\ \A c \in Conns, i \in Ids :
              pending[c][i] \in Nat /\ (pending[c][i] # 0 => pending[c][i] \in Requests)
         /\ \A n \in Requests : ends[n] \in Nat /\ interrupts[n] \in Nat /\ n \in Nat /\ n > 0
         /\ 0 \notin Requests
         /\ \A n \in 1..count :
              /\ n \in Requests
              /\ request[n].conn \in Conns /\ request[n].id \in Ids
              /\ request[n].kind \in {"shell", "other"}
<1>1. /\ busy \in Nat /\ count \in Nat /\ Len(cmds) \in Nat
      /\ \A k \in 1..Len(cmds) : cmds[k] \in Requests
  BY Limits DEF TypeOK
<1>2. \A c \in Conns : held[c] \in 0..MaxRequests
  BY DEF TypeOK
<1>3. \A c \in Conns, i \in Ids : pending[c][i] \in 0..MaxRequests
  BY DEF TypeOK
<1>4. \A n \in Requests : ends[n] \in Nat /\ interrupts[n] \in Nat
  BY DEF TypeOK
<1>5. \A n \in 1..count : n \in Requests
  BY Limits DEF TypeOK, Requests
<1>6. \A n \in 1..count :
        request[n] \in [conn : Conns, id : Ids, kind : {"shell", "other"}]
  BY <1>5 DEF TypeOK
<1>7. \A n \in 1..count :
        /\ request[n].conn \in Conns /\ request[n].id \in Ids
        /\ request[n].kind \in {"shell", "other"}
  BY <1>6
<1>8. 0 \notin Requests /\ \A n \in Requests : n \in Nat /\ n > 0
  BY Limits DEF Requests
<1>9. \A c \in Conns : held[c] \in Nat /\ (held[c] # 0 => held[c] \in Requests)
  BY <1>2, Limits DEF Requests
<1>10. \A c \in Conns, i \in Ids :
         pending[c][i] \in Nat /\ (pending[c][i] # 0 => pending[c][i] \in Requests)
  BY <1>3, Limits DEF Requests
<1> QED
  BY <1>1, <1>4, <1>5, <1>7, <1>8, <1>9, <1>10

(* Only accepted requests are handled, replaced or cancelled.              *)
LEMMA Accepted ==
  ASSUME TypeOK, Known
  PROVE  \A n \in handled \cup orphans \cup cancelled : n \in Requests /\ n \in 1..count
<1> SUFFICES ASSUME NEW n \in handled \cup orphans \cup cancelled
             PROVE  n \in Requests /\ n \in 1..count
  OBVIOUS
<1>1. n \in Requests
  BY DEF TypeOK
<1>2. n \in Nat /\ n > 0 /\ count \in Nat
  BY <1>1, Typed
<1>3. ~ (n > count)
  BY <1>1 DEF Known
<1> QED
  BY <1>1, <1>2, <1>3

(* Nothing is accepted at first.                                           *)
LEMMA InitInv == Init => IInv
<1> SUFFICES ASSUME Init PROVE IInv
  OBVIOUS
<1>1. TypeOK
  BY Limits DEF Init, TypeOK, States, Requests
<1>2. Known /\ Queue
  BY DEF Init, Known, Queue, Requests
<1>3. Entries /\ Forwards
  BY DEF Init, Entries, Forwards
<1>4. AnswersWhole /\ OneInterrupt /\ ReplacedByAttachment /\ NoAnswerLost
  BY DEF Init, AnswersWhole, OneInterrupt, ReplacedByAttachment, NoAnswerLost, Requests
<1> QED
  BY <1>1, <1>2, <1>3, <1>4 DEF IInv

------------------------------------------------------------------------------
(* Request and Binary: a new request.                                      *)
LEMMA AcceptInv ==
  ASSUME IInv, NEW c \in Conns, NEW i \in Ids, NEW kind \in {"shell", "other"},
         conn[c] = "open", pending[c][i] = 0 \/ kind = "other",
         Accept(c, i, kind)
  PROVE  IInv'
<1> DEFINE n == count + 1
<1>0. /\ TypeOK /\ Known /\ Queue /\ Entries /\ Forwards
      /\ AnswersWhole /\ OneInterrupt /\ ReplacedByAttachment /\ NoAnswerLost
  BY DEF IInv
<1>1. /\ n \in Requests /\ n \in Nat /\ count' = n /\ \A m \in 1..count' : m \in 1..count \/ m = n
      /\ request' = [request EXCEPT ![n] = [conn |-> c, id |-> i, kind |-> kind]]
      /\ held' = [held EXCEPT ![c] = n] /\ conn' = [conn EXCEPT ![c] = "sending"]
      /\ binary' = [binary EXCEPT ![c] = NoId]
      /\ UNCHANGED <<mainVars, cmds, cancels, pending, replied, handled, cancelled,
                     ansVars, interrupts, orphans>>
  BY <1>0, Typed, Limits DEF Accept, Requests
<1> HIDE DEF n
<1>2. /\ request'[n] = [conn |-> c, id |-> i, kind |-> kind]
      /\ \A m \in Requests : m # n => request'[m] = request[m]
      /\ held'[c] = n /\ \A d \in Conns : d # c => held'[d] = held[d]
      /\ conn'[c] = "sending" /\ \A d \in Conns : d # c => conn'[d] = conn[d]
  BY <1>0, <1>1 DEF TypeOK
<1>3. /\ n \notin handled /\ n \notin orphans /\ n \notin cancelled
      /\ ends[n] = 0 /\ interrupts[n] = 0 /\ n # busy
      /\ \A k \in 1..Len(cmds) : cmds[k] # n
      /\ \A d \in Conns : held[d] # n /\ \A j \in Ids : pending[d][j] < n
  BY <1>0, <1>1, Typed DEF Known, n
<1>4. TypeOK'
  <2>1. /\ main' \in {"loop", "stopping", "exited"}
        /\ busy' \in 0..MaxRequests /\ shell' \in 0..MaxRequests
        /\ cmds' \in Seq(Requests) /\ Len(cmds') <= CmdCap
        /\ cancels' \in Seq(Requests) /\ Len(cancels') <= CancelCap
        /\ pending' \in [Conns -> [Ids -> 0..MaxRequests]]
        /\ replied' \in [Requests -> 0..MaxReplies] /\ chunks' \in [Requests -> 0..MaxReplies]
        /\ ends' \in [Requests -> Nat] /\ interrupts' \in [Requests -> Nat]
        /\ handled' \subseteq Requests /\ cancelled' \subseteq Requests /\ orphans' \subseteq Requests
    BY <1>0, <1>1 DEF TypeOK, mainVars, ansVars
  <2>2. /\ conn' \in [Conns -> States] /\ held' \in [Conns -> 0..MaxRequests]
        /\ count' \in 0..MaxRequests
        /\ binary' \in [Conns -> Ids \cup {NoId}]
    BY <1>0, <1>1, Limits DEF TypeOK, States, Requests
  <2>3. \A d \in Conns : held'[d] # 0 <=> conn'[d] \in {"sending", "sent"}
    BY <1>0, <1>1, <1>2, Limits DEF TypeOK, Requests
  <2>4. request' \in [Requests -> [conn : Conns, id : Ids, kind : {"shell", "other"}] \cup {Unused}]
    BY <1>0, <1>1 DEF TypeOK
  <2>5. \A m \in 1..count' : request'[m] # Unused
    <3>1. request'[n].kind # Unused.kind
      BY <1>2 DEF Unused
    <3> QED
      BY <3>1, <1>0, <1>1, <1>2, Typed DEF TypeOK
  <2> QED
    BY <2>1, <2>2, <2>3, <2>4, <2>5 DEF TypeOK
<1>5. Known'
  BY <1>0, <1>1, <1>2, <1>3, Typed DEF Known, mainVars, ansVars, n
<1>6. Queue'
  BY <1>0, <1>1, <1>2, <1>3, Typed DEF Queue, mainVars
<1>7. Entries'
  BY <1>0, <1>1, <1>2, <1>3, Typed DEF Entries, Entry, ansVars
<1>8. Forwards'
  BY <1>0, <1>1, <1>2, <1>3, Typed DEF Forwards, Forwarded, ansVars
<1>9. AnswersWhole' /\ OneInterrupt'
  BY <1>0, <1>1 DEF AnswersWhole, OneInterrupt, ansVars
<1>10. ReplacedByAttachment'
  <2> SUFFICES ASSUME NEW m \in orphans
               PROVE  \E l \in ((m + 1)..count)' :
                        /\ request'[l].conn = request'[m].conn /\ request'[l].id = request'[m].id
                        /\ request'[l].kind = "other"
    BY <1>1 DEF ReplacedByAttachment
  <2>1. PICK l \in (m + 1)..count :
          /\ request[l].conn = request[m].conn /\ request[l].id = request[m].id
          /\ request[l].kind = "other"
    BY <1>0 DEF ReplacedByAttachment
  <2>2. m \in Requests /\ m # n /\ l \in Requests /\ l # n /\ l \in (m + 1)..n
    BY <1>0, <1>3, Typed, Limits DEF TypeOK, Requests, n
  <2> QED
    BY <1>1, <1>2, <2>1, <2>2
<1>11. NoAnswerLost'
  <2> SUFFICES ASSUME NEW m \in 1..count', conn'[request'[m].conn] # "closed", m \notin orphans'
               PROVE  Waits(m)' <=> ends'[m] = 0
    BY DEF NoAnswerLost
  <2>1. CASE m = n
    BY <1>1, <1>2, <1>3, <2>1 DEF Waits, ansVars
  <2>2. CASE m # n
    <3>1. m \in 1..count /\ m \in Requests /\ request'[m] = request[m]
          /\ request[m].conn \in Conns /\ request[m].id \in Ids
      BY <1>0, <1>1, <1>2, <2>2, Typed
    <3>2. conn[request[m].conn] # "closed" /\ m \notin orphans
      BY <1>0, <1>1, <1>2, <3>1
    <3>3. Waits(m)' <=> Waits(m)
      <4>1. pending'[request'[m].conn][request'[m].id] = pending[request[m].conn][request[m].id]
        BY <1>1, <3>1
      <4>2. CASE request[m].conn = c
        <5>1. held[c] = 0 /\ m # 0
          BY <1>0, <3>1, Typed DEF TypeOK
        <5> QED
          BY <1>2, <2>2, <3>1, <4>1, <4>2, <5>1 DEF Waits
      <4>3. CASE request[m].conn # c
        BY <1>2, <3>1, <4>1, <4>3 DEF Waits
      <4> QED
        BY <4>2, <4>3
    <3> QED
      BY <1>0, <1>1, <3>1, <3>2, <3>3 DEF NoAnswerLost, ansVars
  <2> QED
    BY <2>1, <2>2
<1> QED
  BY <1>4, <1>5, <1>6, <1>7, <1>8, <1>9, <1>10, <1>11 DEF IInv

------------------------------------------------------------------------------
(* What changes only the main loop's state, the cancel channel, which      *)
(* loses its head, the attachment expected, or a task that starts to       *)
(* drain: nothing is said of these but their types.                        *)
LEMMA QuietInv ==
  ASSUME IInv, TypeOK',
         UNCHANGED <<busy, cmds, held, pending, reqVars, replied, handled, cancelled,
                     ansVars, interrupts, orphans>>,
         \A c \in Conns : /\ conn'[c] = "sending" => conn[c] = "sending"
                          /\ conn'[c] # "closed" => conn[c] # "closed"
  PROVE  IInv'
<1>0. /\ Known /\ Queue /\ Entries /\ Forwards /\ TypeOK
      /\ AnswersWhole /\ OneInterrupt /\ ReplacedByAttachment /\ NoAnswerLost
  BY DEF IInv
<1>a. /\ busy' = busy /\ cmds' = cmds /\ held' = held /\ pending' = pending
      /\ count' = count /\ request' = request /\ replied' = replied /\ chunks' = chunks
      /\ ends' = ends /\ handled' = handled /\ cancelled' = cancelled
      /\ interrupts' = interrupts /\ orphans' = orphans
  BY DEF reqVars, ansVars
<1>1. Known' /\ Queue'
  <2>1. Known'
    BY <1>0, <1>a DEF Known
  <2>2. ASSUME NEW c \in Conns, conn'[c] = "sending"
        PROVE  /\ held'[c] \notin handled' /\ held'[c] # busy'
               /\ \A k \in 1..Len(cmds') : cmds'[k] # held'[c]
    BY <1>0, <1>a, <2>2 DEF Queue
  <2>3. Queue'
    BY <1>0, <1>a, <2>2 DEF Queue
  <2> QED
    BY <2>1, <2>3
<1>2. Entries' /\ Forwards'
  BY <1>0, <1>a DEF Entries, Entry, Forwards, Forwarded
<1>3. AnswersWhole' /\ OneInterrupt' /\ ReplacedByAttachment'
  BY <1>0, <1>a DEF AnswersWhole, OneInterrupt, ReplacedByAttachment
<1>4. NoAnswerLost'
  <2> SUFFICES ASSUME NEW m \in 1..count, conn'[request[m].conn] # "closed", m \notin orphans
               PROVE  Waits(m) <=> ends[m] = 0
    BY <1>a DEF NoAnswerLost, Waits
  <2>1. conn[request[m].conn] # "closed"
    <3>1. request[m].conn \in Conns
      BY <1>0, Typed
    <3> QED
      BY <3>1
  <2> QED
    BY <1>0, <2>1 DEF NoAnswerLost
<1> QED
  BY <1>1, <1>2, <1>3, <1>4 DEF IInv

(* Steps of a connection that touch no request.                            *)
LEMMA QuietConn ==
  ASSUME IInv, NEW c \in Conns,
         \/ \E i \in Ids : AttachmentMeta(c, i)
         \/ ForgetBinary(c) \/ SeeShutdown(c) \/ StopsReading(c) \/ ReadsAgain(c)
  PROVE  IInv'
<1>0. TypeOK
  BY DEF IInv
<1>1. CASE \E i \in Ids : AttachmentMeta(c, i)
  <2>1. TypeOK'
    BY <1>0, <1>1 DEF TypeOK, AttachmentMeta, mainVars, reqVars, ansVars
  <2> QED
    BY <1>1, <2>1, QuietInv DEF AttachmentMeta, mainVars
<1>2. CASE ForgetBinary(c)
  <2>1. TypeOK'
    BY <1>0, <1>2 DEF TypeOK, ForgetBinary, mainVars, reqVars, ansVars
  <2> QED
    BY <1>2, <2>1, QuietInv DEF ForgetBinary, mainVars
<1>3. CASE SeeShutdown(c)
  <2>1. TypeOK'
    BY <1>0, <1>3 DEF TypeOK, SeeShutdown, mainVars, reqVars, ansVars, States
  <2>2. \A d \in Conns : /\ conn'[d] = "sending" => conn[d] = "sending"
                         /\ conn'[d] # "closed" => conn[d] # "closed"
    BY <1>0, <1>3 DEF TypeOK, SeeShutdown
  <2> QED
    BY <1>3, <2>1, <2>2, QuietInv DEF SeeShutdown, mainVars
<1>4. CASE StopsReading(c) \/ ReadsAgain(c)
  <2>1. /\ conn[c] \in {"open", "drain", "blocked", "drain_blocked"}
        /\ conn'[c] \in {"open", "drain", "blocked", "drain_blocked"}
        /\ \A d \in Conns : d # c => conn'[d] = conn[d]
        /\ conn' \in [Conns -> States]
    <3> DEFINE Between(x, y) == conn[c] = x /\ conn' = [conn EXCEPT ![c] = y]
    <3>1. \/ Between("open", "blocked") \/ Between("drain", "drain_blocked")
          \/ Between("blocked", "open") \/ Between("drain_blocked", "drain")
      BY <1>4 DEF StopsReading, ReadsAgain, Blockable
    <3>2. conn \in [Conns -> States]
      BY <1>0 DEF TypeOK
    <3> QED  BY <3>1, <3>2 DEF States
  <2>2. UNCHANGED <<mainVars, cmds, cancels, held, binary, pending, reqVars, replied,
                    handled, cancelled, ansVars, interrupts, orphans>>
    BY <1>4 DEF StopsReading, ReadsAgain
  <2>3. TypeOK'
    BY <1>0, <2>1, <2>2 DEF TypeOK, mainVars, reqVars, ansVars
  <2>4. \A d \in Conns : /\ conn'[d] = "sending" => conn[d] = "sending"
                         /\ conn'[d] # "closed" => conn[d] # "closed"
    BY <2>1
  <2> QED
    BY <2>2, <2>3, <2>4, QuietInv DEF mainVars
<1> QED
  BY <1>1, <1>2, <1>3, <1>4

(* The steps of the main loop that touch no request, and stuttering.       *)
LEMMA QuietMain ==
  ASSUME IInv, Interrupt \/ ShellExits \/ Stop \/ Exit \/ UNCHANGED vars
  PROVE  IInv'
<1>0. TypeOK
  BY DEF IInv
<1>1. CASE Interrupt
  <2>1. /\ cancels' \in Seq(Requests) /\ Len(cancels') <= CancelCap
        /\ shell' \in 0..MaxRequests
    BY <1>0, <1>1, Limits DEF TypeOK, Interrupt
  <2>2. TypeOK'
    BY <1>0, <1>1, <2>1 DEF TypeOK, Interrupt, connVars, reqVars, ansVars
  <2> QED
    BY <1>1, <2>2, QuietInv DEF Interrupt, connVars
<1>2. CASE ShellExits
  <2>0. shell' \in 0..MaxRequests
    BY <1>2, Limits DEF ShellExits
  <2>1. TypeOK'
    BY <1>0, <1>2, <2>0 DEF TypeOK, ShellExits, connVars, reqVars, ansVars
  <2> QED
    BY <1>2, <2>1, QuietInv DEF ShellExits, connVars
<1>3. CASE Stop
  <2>1. TypeOK'
    BY <1>0, <1>3 DEF TypeOK, Stop, connVars, reqVars, ansVars
  <2> QED
    BY <1>3, <2>1, QuietInv DEF Stop, connVars
<1>4. CASE Exit
  <2>1. TypeOK'
    BY <1>0, <1>4 DEF TypeOK, Exit, connVars, reqVars, ansVars
  <2> QED
    BY <1>4, <2>1, QuietInv DEF Exit, connVars
<1>5. CASE UNCHANGED vars
  <2>1. TypeOK'
    BY <1>0, <1>5 DEF TypeOK, vars, mainVars, connVars, reqVars, ansVars
  <2> QED
    BY <1>5, <2>1, QuietInv DEF vars, mainVars, connVars
<1> QED
  BY <1>1, <1>2, <1>3, <1>4, <1>5

------------------------------------------------------------------------------
(* The command channel and the main loop.                                  *)

(* What leaves the connections' entries and the answers alone.             *)
LEMMA QueueStep ==
  ASSUME IInv, TypeOK', Queue', busy' <= count,
         \A k \in 1..Len(cmds') : cmds'[k] <= count,
         UNCHANGED <<held, pending, reqVars, replied, cancelled, ansVars, interrupts, orphans>>,
         handled \subseteq handled', \A n \in handled' : n <= count,
         \A c \in Conns : conn'[c] # "closed" => conn[c] # "closed"
  PROVE  IInv'
<1>0. /\ Known /\ Entries /\ Forwards /\ TypeOK
      /\ AnswersWhole /\ OneInterrupt /\ ReplacedByAttachment /\ NoAnswerLost
  BY DEF IInv
<1>a. /\ held' = held /\ pending' = pending
      /\ count' = count /\ request' = request /\ replied' = replied /\ chunks' = chunks
      /\ ends' = ends /\ cancelled' = cancelled
      /\ interrupts' = interrupts /\ orphans' = orphans
  BY DEF reqVars, ansVars
<1>1. Known'
  BY <1>0, <1>a, Typed DEF Known
<1>2. Entries' /\ Forwards'
  BY <1>0, <1>a DEF Entries, Entry, Forwards, Forwarded
<1>3. AnswersWhole' /\ OneInterrupt' /\ ReplacedByAttachment'
  BY <1>0, <1>a DEF AnswersWhole, OneInterrupt, ReplacedByAttachment
<1>4. NoAnswerLost'
  <2> SUFFICES ASSUME NEW m \in 1..count, conn'[request[m].conn] # "closed", m \notin orphans
               PROVE  Waits(m) <=> ends[m] = 0
    BY <1>a DEF NoAnswerLost, Waits
  <2>1. conn[request[m].conn] # "closed"
    BY <1>0, Typed
  <2> QED
    BY <1>0, <2>1 DEF NoAnswerLost
<1> QED
  BY <1>1, <1>2, <1>3, <1>4 DEF IInv

(* The message goes into the command channel.                              *)
LEMMA ForwardInv ==
  ASSUME IInv, NEW c \in Conns, Forward(c)
  PROVE  IInv'
<1> DEFINE n == held[c]
<1>0. TypeOK /\ Known /\ Queue /\ Forwards
  BY DEF IInv
<1>1. /\ conn[c] = "sending" /\ conn' = [conn EXCEPT ![c] = "sent"]
      /\ conn'[c] = "sent" /\ \A d \in Conns : d # c => conn'[d] = conn[d]
  BY <1>0 DEF Forward, TypeOK
<1>2. n \in Requests /\ n <= count /\ request[n].conn = c
  BY <1>0, <1>1, Typed DEF TypeOK, Known, Forwards, Forwarded
<1>a. cmds' = Append(cmds, n) /\ cmds \in Seq(Requests) /\ Len(cmds) < CmdCap
  BY <1>0 DEF Forward, TypeOK
<1> HIDE DEF n
<1>3. /\ cmds' \in Seq(Requests) /\ Len(cmds') = Len(cmds) + 1 /\ Len(cmds') <= CmdCap
      /\ \A k \in 1..Len(cmds') : k # Len(cmds) + 1 => k \in 1..Len(cmds) /\ cmds'[k] = cmds[k]
      /\ cmds'[Len(cmds) + 1] = n
  <2>1. /\ cmds' \in Seq(Requests) /\ Len(cmds') = Len(cmds) + 1
        /\ \A k \in 1..Len(cmds) : cmds'[k] = cmds[k]
        /\ cmds'[Len(cmds) + 1] = n /\ Len(cmds) \in Nat
    BY <1>a, <1>2
  <2> QED
    BY <1>a, <2>1, Limits
<1>4. TypeOK'
  <2>1. conn' \in [Conns -> States]
    BY <1>0, <1>1 DEF TypeOK, States
  <2>2. \A d \in Conns : held'[d] # 0 <=> conn'[d] \in {"sending", "sent"}
    BY <1>0, <1>1 DEF TypeOK, Forward
  <2> QED
    BY <1>0, <1>3, <2>1, <2>2 DEF TypeOK, Forward, mainVars, reqVars, ansVars
<1>5. /\ n \notin handled /\ n # busy /\ \A k \in 1..Len(cmds) : cmds[k] # n
  BY <1>0, <1>1 DEF Queue, n
<1>6. Queue'
  <2>1. busy' = busy /\ handled' = handled /\ held' = held
    BY DEF Forward, mainVars
  <2>2. /\ busy' \notin handled'
        /\ \A k \in 1..Len(cmds') : cmds'[k] \notin handled' /\ cmds'[k] # busy'
    BY <1>0, <1>3, <1>5, <2>1 DEF Queue
  <2>3. \A k, l \in 1..Len(cmds') : cmds'[k] = cmds'[l] => k = l
    BY <1>0, <1>3, <1>5 DEF Queue
  <2>4. ASSUME NEW d \in Conns, conn'[d] = "sending"
        PROVE  /\ held'[d] \notin handled' /\ held'[d] # busy'
               /\ \A k \in 1..Len(cmds') : cmds'[k] # held'[d]
    <3>1. d # c /\ conn[d] = "sending"
      BY <1>1, <2>4
    <3>2. held[d] # n
      BY <1>0, <1>2, <3>1, Typed DEF Forwards, Forwarded, TypeOK, n
    <3> QED
      BY <1>0, <1>3, <2>1, <3>1, <3>2 DEF Queue
  <2> QED
    BY <2>2, <2>3, <2>4 DEF Queue
<1>7. \A k \in 1..Len(cmds') : cmds'[k] <= count
  BY <1>0, <1>2, <1>3 DEF Known
<1>8. busy' <= count /\ \A m \in handled' : m <= count
  BY <1>0, Accepted DEF Forward, mainVars, Known
<1>9. \A d \in Conns : conn'[d] # "closed" => conn[d] # "closed"
  BY <1>1
<1> QED
  BY <1>4, <1>6, <1>7, <1>8, <1>9, QueueStep DEF Forward

(* The main loop takes it out.                                             *)
LEMMA TakeCommandInv ==
  ASSUME IInv, TakeCommand
  PROVE  IInv'
<1>0. TypeOK /\ Known /\ Queue
  BY DEF IInv
<1>1. /\ cmds # <<>> /\ busy' = cmds[1] /\ cmds' = Tail(cmds)
      /\ conn' = conn /\ held' = held /\ handled' = handled
  BY <1>0 DEF TakeCommand, TypeOK, connVars
<1>2. /\ cmds' \in Seq(Requests) /\ Len(cmds') = Len(cmds) - 1 /\ Len(cmds) > 0
      /\ \A k \in 1..Len(cmds') : k + 1 \in 1..Len(cmds) /\ cmds'[k] = cmds[k + 1]
      /\ 1 \in 1..Len(cmds) /\ busy' \in Requests
  BY <1>0, <1>1 DEF TypeOK
<1>3. TypeOK'
  <2>1. busy' \in 0..MaxRequests
    BY <1>2, Limits DEF Requests
  <2>2. cmds \in Seq(Requests) /\ Len(cmds) <= CmdCap /\ Len(cmds) \in Nat
    BY <1>0 DEF TypeOK
  <2>3. Len(cmds') <= CmdCap
    BY <1>2, <2>2, Limits
  <2> QED
    BY <1>0, <1>2, <2>1, <2>3 DEF TypeOK, TakeCommand, connVars, reqVars, ansVars
<1>4. Queue'
  <2>1. /\ busy' \notin handled'
        /\ \A k \in 1..Len(cmds') : cmds'[k] \notin handled'
    BY <1>0, <1>1, <1>2 DEF Queue
  <2>2. ASSUME NEW k \in 1..Len(cmds')
        PROVE  cmds'[k] # busy'
    <3>1. k + 1 # 1
      OBVIOUS
    <3> QED
      BY <1>0, <1>1, <1>2, <3>1 DEF Queue
  <2>3. ASSUME NEW k \in 1..Len(cmds'), NEW l \in 1..Len(cmds'), cmds'[k] = cmds'[l]
        PROVE  k = l
    <3>1. k + 1 = l + 1
      BY <1>0, <1>2, <2>3 DEF Queue
    <3> QED
      BY <3>1
  <2>4. ASSUME NEW d \in Conns, conn'[d] = "sending"
        PROVE  /\ held'[d] \notin handled' /\ held'[d] # busy'
               /\ \A k \in 1..Len(cmds') : cmds'[k] # held'[d]
    BY <1>0, <1>1, <1>2, <2>4 DEF Queue
  <2> QED
    BY <2>1, <2>2, <2>3, <2>4 DEF Queue
<1>5. busy' <= count /\ \A k \in 1..Len(cmds') : cmds'[k] <= count
  BY <1>0, <1>1, <1>2 DEF Known
<1>6. \A m \in handled' : m <= count
  BY <1>0, <1>1, Accepted
<1> QED
  BY <1>1, <1>3, <1>4, <1>5, <1>6, QueueStep DEF TakeCommand, connVars

(* The handler returns, and the message is dropped.                        *)
LEMMA FinishInv ==
  ASSUME IInv, Finish
  PROVE  IInv'
<1>0. TypeOK /\ Known /\ Queue
  BY DEF IInv
<1>1. /\ busy # 0 /\ busy' = 0 /\ handled' = handled \cup {busy}
      /\ conn' = conn /\ held' = held /\ cmds' = cmds
  BY DEF Finish, connVars
<1>2. busy \in Requests
  BY <1>0, <1>1, Limits DEF TypeOK, Requests
<1>3. TypeOK'
  <2>1. busy' \in 0..MaxRequests /\ shell' \in 0..MaxRequests /\ handled' \subseteq Requests
    BY <1>0, <1>1, <1>2, Limits DEF TypeOK, Finish
  <2> QED
    BY <1>0, <2>1 DEF TypeOK, Finish, connVars, reqVars, ansVars
<1>4. Queue'
  <2>1. /\ busy' \notin handled'
        /\ \A k \in 1..Len(cmds') : cmds'[k] \notin handled' /\ cmds'[k] # busy'
    BY <1>0, <1>1, <1>2, Typed DEF Queue, TypeOK
  <2>2. \A k, l \in 1..Len(cmds') : cmds'[k] = cmds'[l] => k = l
    BY <1>0, <1>1 DEF Queue
  <2>3. ASSUME NEW d \in Conns, conn'[d] = "sending"
        PROVE  /\ held'[d] \notin handled' /\ held'[d] # busy'
               /\ \A k \in 1..Len(cmds') : cmds'[k] # held'[d]
    BY <1>0, <1>1, <2>3 DEF Queue, TypeOK
  <2> QED
    BY <2>1, <2>2, <2>3 DEF Queue
<1>5. /\ busy' <= count /\ \A k \in 1..Len(cmds') : cmds'[k] <= count
      /\ \A m \in handled' : m <= count
  BY <1>0, <1>1, Accepted, Typed DEF Known
<1> QED
  BY <1>1, <1>3, <1>4, <1>5, QueueStep DEF Finish, connVars

(* Who is being handled has no end yet.                                    *)
LEMMA ReplyInv ==
  ASSUME IInv, Reply
  PROVE  IInv'
<1>0. /\ Known /\ Queue /\ Entries /\ Forwards /\ TypeOK
      /\ AnswersWhole /\ OneInterrupt /\ ReplacedByAttachment /\ NoAnswerLost
  BY DEF IInv
<1>a. /\ busy' = busy /\ cmds' = cmds /\ held' = held /\ pending' = pending /\ conn' = conn
      /\ count' = count /\ request' = request /\ chunks' = chunks
      /\ ends' = ends /\ handled' = handled /\ cancelled' = cancelled
      /\ interrupts' = interrupts /\ orphans' = orphans
  BY DEF Reply, mainVars, connVars, reqVars, ansVars
<1>1. /\ busy \in Requests /\ replied[busy] < MaxReplies
      /\ replied' = [replied EXCEPT ![busy] = replied[busy] + 1]
  BY <1>0, Limits DEF Reply, TypeOK, Requests
<1>2. TypeOK'
  <2>1. replied' \in [Requests -> 0..MaxReplies]
    BY <1>0, <1>1, Limits DEF TypeOK
  <2> QED
    BY <1>0, <2>1 DEF TypeOK, Reply, mainVars, connVars, reqVars, ansVars
<1>3. Known' /\ Queue'
  BY <1>0, <1>a DEF Known, Queue
<1>4. Entries' /\ Forwards'
  BY <1>0, <1>a DEF Entries, Entry, Forwards, Forwarded
<1>5. AnswersWhole'
  <2> SUFFICES ASSUME NEW n \in Requests, ends[n] > 0
               PROVE  ends[n] = 1 /\ n \in handled /\ chunks[n] = replied'[n]
    BY <1>a DEF AnswersWhole
  <2>1. ends[n] = 1 /\ n \in handled /\ chunks[n] = replied[n]
    BY <1>0 DEF AnswersWhole
  <2>2. n # busy
    BY <1>0, <2>1 DEF Queue
  <2> QED
    BY <1>0, <1>1, <2>1, <2>2 DEF TypeOK
<1>6. OneInterrupt' /\ ReplacedByAttachment' /\ NoAnswerLost'
  BY <1>0, <1>a DEF OneInterrupt, ReplacedByAttachment, NoAnswerLost, Waits
<1> QED
  BY <1>2, <1>3, <1>4, <1>5, <1>6 DEF IInv
------------------------------------------------------------------------------
(* The entries of a connection.                                            *)

(* The request that was forwarded gets its entry, in the place of another  *)
(* one perhaps.                                                            *)
LEMMA InsertInv ==
  ASSUME IInv, NEW c \in Conns, Insert(c)
  PROVE  IInv'
<1> DEFINE n == held[c]
           i == request[n].id
           p == pending[c][i]
<1>0. /\ Known /\ Queue /\ Entries /\ Forwards /\ TypeOK
      /\ AnswersWhole /\ OneInterrupt /\ ReplacedByAttachment /\ NoAnswerLost
  BY DEF IInv
<1>1. /\ conn[c] = "sent" /\ conn' = [conn EXCEPT ![c] = "open"]
      /\ orphans' = orphans \cup ({p} \ {0}) /\ cancelled' = cancelled \ {p}
      /\ pending' = [pending EXCEPT ![c][i] = n] /\ held' = [held EXCEPT ![c] = 0]
      /\ busy' = busy /\ cmds' = cmds /\ cancels' = cancels /\ binary' = binary
      /\ count' = count /\ request' = request /\ replied' = replied /\ handled' = handled
      /\ chunks' = chunks /\ ends' = ends /\ interrupts' = interrupts
      /\ main' = main /\ shell' = shell
  BY DEF Insert, mainVars, reqVars, ansVars
<1>2. /\ n \in Requests /\ n \in 1..count /\ n \in Nat /\ n # 0 /\ request[n].conn = c /\ i \in Ids
      /\ ends[n] = 0 /\ n \notin orphans /\ interrupts[n] = 0
      /\ \A j \in Ids : pending[c][j] < n
      /\ p # 0 => request[n].kind = "other"
  <2>1. n # 0 /\ n \in Requests /\ n <= count /\ n \in Nat /\ count \in Nat
    BY <1>0, <1>1, Typed DEF TypeOK, Known
  <2> QED
    BY <1>0, <2>1 DEF Forwards, Forwarded
<1>3. /\ p \in Nat /\ p < n /\ p # n
      /\ p # 0 => p \in Requests /\ p <= count /\ request[p].conn = c /\ request[p].id = i
  BY <1>0, <1>2, Typed DEF Entries, Entry, Known
<1> HIDE DEF n, i, p
<1>4. /\ conn'[c] = "open" /\ \A d \in Conns : d # c => conn'[d] = conn[d]
      /\ held'[c] = 0 /\ \A d \in Conns : d # c => held'[d] = held[d]
      /\ pending'[c][i] = n /\ \A j \in Ids : j # i => pending'[c][j] = pending[c][j]
      /\ \A d \in Conns : d # c => pending'[d] = pending[d]
  BY <1>0, <1>1, <1>2 DEF TypeOK
<1>5. TypeOK'
  <2>1. conn' \in [Conns -> States] /\ held' \in [Conns -> 0..MaxRequests]
    BY <1>0, <1>1, Limits DEF TypeOK, States
  <2>2. pending' \in [Conns -> [Ids -> 0..MaxRequests]]
    <3>1. n \in 0..MaxRequests
      BY <1>2, Limits DEF Requests
    <3> QED
      BY <1>0, <1>1, <3>1 DEF TypeOK
  <2>3. \A d \in Conns : held'[d] # 0 <=> conn'[d] \in {"sending", "sent"}
    BY <1>0, <1>4 DEF TypeOK
  <2>4. orphans' \subseteq Requests /\ cancelled' \subseteq Requests
    BY <1>0, <1>1, <1>3 DEF TypeOK
  <2> QED
    BY <1>0, <1>1, <2>1, <2>2, <2>3, <2>4 DEF TypeOK
<1>6. Known'
  <2>1. \A d \in Conns : held'[d] <= count
    BY <1>0, <1>4, Typed DEF Known
  <2>2. ASSUME NEW d \in Conns, NEW j \in Ids
        PROVE  pending'[d][j] <= count
    BY <1>0, <1>2, <1>4 DEF Known
  <2>3. \A m \in Requests : m > count => m # p
    BY <1>3, Typed, <1>0
  <2> QED
    BY <1>0, <1>1, <2>1, <2>2, <2>3 DEF Known
<1>7. Queue'
  BY <1>0, <1>1, <1>4 DEF Queue
<1>8. Entries'
  <2> SUFFICES ASSUME NEW d \in Conns, NEW j \in Ids, pending'[d][j] # 0
               PROVE  Entry(d, j, pending[d][j])'
    BY DEF Entries
  <2>1. CASE d = c /\ j = i
    BY <1>1, <1>2, <1>3, <1>4, <2>1 DEF Entry, i
  <2>2. CASE ~ (d = c /\ j = i)
    <3>1. pending'[d][j] = pending[d][j] /\ Entry(d, j, pending[d][j])
      BY <1>0, <1>4, <2>2 DEF Entries
    <3>2. pending[d][j] # p
      BY <1>3, <2>2, <3>1 DEF Entry
    <3> QED
      BY <1>1, <3>1, <3>2 DEF Entry
  <2> QED
    BY <2>1, <2>2
<1>9. Forwards'
  <2> SUFFICES ASSUME NEW d \in Conns, held'[d] # 0
               PROVE  Forwarded(d, held[d])'
    BY DEF Forwards
  <2>1. d # c /\ held'[d] = held[d] /\ pending'[d] = pending[d] /\ Forwarded(d, held[d])
    BY <1>0, <1>4 DEF Forwards
  <2>2. held[d] # p
    BY <1>3, <1>4, <2>1 DEF Forwarded
  <2> QED
    BY <1>1, <2>1, <2>2 DEF Forwarded
<1>10. AnswersWhole' /\ OneInterrupt'
  BY <1>0, <1>1 DEF AnswersWhole, OneInterrupt
<1>11. ReplacedByAttachment'
  <2> SUFFICES ASSUME NEW m \in orphans'
               PROVE  \E l \in (m + 1)..count :
                        /\ request[l].conn = request[m].conn /\ request[l].id = request[m].id
                        /\ request[l].kind = "other"
    BY <1>1 DEF ReplacedByAttachment
  <2>1. CASE m \in orphans
    BY <1>0, <2>1 DEF ReplacedByAttachment
  <2>2. CASE m \notin orphans
    <3>1. m = p /\ p # 0
      BY <1>1, <2>2
    <3>2. n \in (p + 1)..count
      BY <1>2, <1>3, Typed, <1>0
    <3> QED
      BY <1>2, <1>3, <3>1, <3>2 DEF i
  <2> QED
    BY <2>1, <2>2
<1>12. NoAnswerLost'
  <2> SUFFICES ASSUME NEW m \in 1..count, conn'[request[m].conn] # "closed", m \notin orphans'
               PROVE  Waits(m)' <=> ends[m] = 0
    BY <1>1 DEF NoAnswerLost
  <2>1. /\ m \in Requests /\ m # 0 /\ request[m].conn \in Conns /\ request[m].id \in Ids
        /\ m # p /\ m \notin orphans
    BY <1>0, <1>1, Typed
  <2>2. conn[request[m].conn] # "closed"
    BY <1>1, <1>4, <2>1
  <2>3. Waits(m) <=> ends[m] = 0
    BY <1>0, <2>1, <2>2 DEF NoAnswerLost
  <2>4. CASE m = n
    BY <1>1, <1>2, <1>4, <2>4 DEF Waits, i
  <2>5. CASE m # n
    <3>1. pending'[request[m].conn][request[m].id] = m
            <=> pending[request[m].conn][request[m].id] = m
      BY <1>4, <2>1, <2>5 DEF p
    <3>2. held'[request[m].conn] = m <=> held[request[m].conn] = m
      BY <1>4, <2>1, <2>5 DEF n
    <3> QED
      BY <1>1, <2>3, <3>1, <3>2 DEF Waits
  <2> QED
    BY <2>4, <2>5
<1> QED
  BY <1>5, <1>6, <1>7, <1>8, <1>9, <1>10, <1>11, <1>12 DEF IInv

(* A first cancel for a request in flight.                                 *)
LEMMA CancelInv ==
  ASSUME IInv, NEW c \in Conns, NEW i \in Ids, Cancel(c, i)
  PROVE  IInv'
<1> DEFINE n == pending[c][i]
<1>0. /\ Known /\ Queue /\ Entries /\ Forwards /\ TypeOK
      /\ AnswersWhole /\ OneInterrupt /\ ReplacedByAttachment /\ NoAnswerLost
  BY DEF IInv
<1>1. /\ n # 0 /\ n \notin cancelled /\ cancelled' = cancelled \cup {n}
      /\ SendInterrupt(n) /\ binary' = [binary EXCEPT ![c] = NoId]
      /\ main' = main /\ busy' = busy /\ shell' = shell
      /\ cmds' = cmds /\ conn' = conn /\ held' = held /\ pending' = pending
      /\ count' = count /\ request' = request /\ replied' = replied /\ chunks' = chunks
      /\ ends' = ends /\ handled' = handled /\ orphans' = orphans
  BY DEF Cancel, mainVars, reqVars, ansVars
<1>2. /\ n \in Requests /\ n <= count /\ n \in Nat /\ interrupts[n] = 0
      /\ request[n].conn = c /\ \A j \in Ids : pending[c][j] = n => j = i
  <2>1. n \in Requests /\ n <= count /\ n \in Nat
    BY <1>0, <1>1, Typed DEF Known
  <2>2. Entry(c, i, n)
    BY <1>0, <1>1 DEF Entries
  <2>3. \A j \in Ids : pending[c][j] = n => j = i
    BY <1>0, <1>1, <2>2 DEF Entries, Entry
  <2> QED
    BY <1>1, <2>1, <2>2, <2>3 DEF Entry
<1>b. cancels \in Seq(Requests) /\ interrupts \in [Requests -> Nat]
  BY <1>0 DEF TypeOK
<1> HIDE DEF n
<1>3. /\ cancels' \in Seq(Requests) /\ Len(cancels') <= CancelCap
      /\ interrupts' \in [Requests -> Nat]
      /\ interrupts'[n] <= 1 /\ \A m \in Requests : m # n => interrupts'[m] = interrupts[m]
  <2>1. CASE Len(cancels) < CancelCap
    <3>1. cancels' = Append(cancels, n) /\ interrupts' = [interrupts EXCEPT ![n] = 1]
      BY <1>1, <1>2, <2>1 DEF SendInterrupt
    <3>2. cancels' \in Seq(Requests) /\ Len(cancels') = Len(cancels) + 1
      BY <1>b, <1>2, <3>1
    <3>3. Len(cancels) \in Nat
      BY <1>b
    <3>4. Len(cancels') <= CancelCap
      BY <2>1, <3>2, <3>3, Limits
    <3> QED
      BY <1>b, <1>2, <3>1, <3>2, <3>4
  <2>2. CASE ~ (Len(cancels) < CancelCap)
    <3>1. cancels' = cancels /\ interrupts' = interrupts
      BY <1>1, <2>2 DEF SendInterrupt
    <3> QED
      BY <1>0, <1>2, <3>1 DEF TypeOK
  <2> QED
    BY <2>1, <2>2
<1>4. TypeOK'
  <2>1. binary' \in [Conns -> Ids \cup {NoId}] /\ cancelled' \subseteq Requests
    BY <1>0, <1>1, <1>2 DEF TypeOK
  <2> QED
    BY <1>0, <1>1, <1>3, <2>1 DEF TypeOK
<1>5. Known'
  <2>1. \A m \in Requests : m > count => m # n
    BY <1>0, <1>2, Typed
  <2> QED
    BY <1>0, <1>1, <1>3, <2>1 DEF Known
<1>6. Queue'
  BY <1>0, <1>1 DEF Queue
<1>7. Entries'
  <2> SUFFICES ASSUME NEW d \in Conns, NEW j \in Ids, pending[d][j] # 0
               PROVE  Entry(d, j, pending[d][j])'
    BY <1>1 DEF Entries
  <2>1. Entry(d, j, pending[d][j]) /\ pending[d][j] \in Requests
    BY <1>0, Typed DEF Entries
  <2> QED
    BY <1>1, <1>3, <2>1 DEF Entry
<1>8. Forwards'
  <2> SUFFICES ASSUME NEW d \in Conns, held[d] # 0
               PROVE  Forwarded(d, held[d])'
    BY <1>1 DEF Forwards
  <2>1. Forwarded(d, held[d]) /\ held[d] \in Requests
    BY <1>0, Typed DEF Forwards
  <2>2. held[d] # n
    <3>1. CASE d = c
      BY <1>2, <2>1, <3>1 DEF Forwarded, n
    <3>2. CASE d # c
      BY <1>2, <2>1, <3>2 DEF Forwarded
    <3> QED
      BY <3>1, <3>2
  <2> QED
    BY <1>1, <1>3, <2>1, <2>2 DEF Forwarded
<1>9. OneInterrupt'
  BY <1>0, <1>3 DEF OneInterrupt
<1>10. AnswersWhole' /\ ReplacedByAttachment' /\ NoAnswerLost'
  BY <1>0, <1>1 DEF AnswersWhole, ReplacedByAttachment, NoAnswerLost, Waits
<1> QED
  BY <1>4, <1>5, <1>6, <1>7, <1>8, <1>9, <1>10 DEF IInv

(* Texts of a request that is not answered yet.                            *)
LEMMA TakeRepliesInv ==
  ASSUME IInv, NEW c \in Conns, NEW i \in Ids, TakeReplies(c, i)
  PROVE  IInv'
<1> DEFINE n == pending[c][i]
<1>0. /\ Known /\ Queue /\ Entries /\ Forwards /\ TypeOK
      /\ AnswersWhole /\ OneInterrupt /\ ReplacedByAttachment /\ NoAnswerLost
  BY DEF IInv
<1>1. /\ n # 0 /\ n \notin handled /\ chunks' = [chunks EXCEPT ![n] = replied[n]]
      /\ main' = main /\ busy' = busy /\ shell' = shell /\ cmds' = cmds /\ cancels' = cancels
      /\ conn' = conn /\ held' = held /\ binary' = binary /\ pending' = pending
      /\ count' = count /\ request' = request /\ replied' = replied
      /\ ends' = ends /\ handled' = handled /\ cancelled' = cancelled
      /\ interrupts' = interrupts /\ orphans' = orphans
  BY DEF TakeReplies, Draining, mainVars, connVars, reqVars
<1>2. n \in Requests
  BY <1>0, <1>1, Typed
<1> HIDE DEF n
<1>3. TypeOK'
  <2>1. chunks' \in [Requests -> 0..MaxReplies]
    BY <1>0, <1>1, <1>2 DEF TypeOK
  <2> QED
    BY <1>0, <1>1, <2>1 DEF TypeOK
<1>4. Known' /\ Queue'
  BY <1>0, <1>1 DEF Known, Queue
<1>5. Entries' /\ Forwards'
  BY <1>0, <1>1 DEF Entries, Entry, Forwards, Forwarded
<1>6. AnswersWhole'
  BY <1>0, <1>1, <1>2 DEF AnswersWhole, TypeOK
<1>7. OneInterrupt' /\ ReplacedByAttachment' /\ NoAnswerLost'
  BY <1>0, <1>1 DEF OneInterrupt, ReplacedByAttachment, NoAnswerLost, Waits
<1> QED
  BY <1>3, <1>4, <1>5, <1>6, <1>7 DEF IInv

(* Answering requests that are handled and have no end.                    *)
LEMMA AnswerStep ==
  ASSUME TypeOK, AnswersWhole, NEW S \in SUBSET (Requests \cap handled),
         \A n \in S : ends[n] = 0, Answer(S), UNCHANGED <<replied, handled>>
  PROVE  /\ chunks' \in [Requests -> 0..MaxReplies] /\ ends' \in [Requests -> Nat]
         /\ AnswersWhole'
         /\ \A n \in Requests : IF n \in S THEN ends'[n] = 1 ELSE ends'[n] = ends[n]
<1>1. /\ chunks' \in [Requests -> 0..MaxReplies] /\ ends' \in [Requests -> Nat]
  BY DEF TypeOK, Answer
<1>2. \A n \in Requests : IF n \in S THEN ends'[n] = 1 /\ chunks'[n] = replied[n]
                          ELSE ends'[n] = ends[n] /\ chunks'[n] = chunks[n]
  BY DEF Answer
<1>3. AnswersWhole'
  BY <1>2 DEF AnswersWhole
<1> QED
  BY <1>1, <1>2, <1>3

(* The result and the end of a request.                                    *)
LEMMA EndInv ==
  ASSUME IInv, NEW c \in Conns, NEW i \in Ids, End(c, i)
  PROVE  IInv'
<1> DEFINE n == pending[c][i]
<1>0. /\ Known /\ Queue /\ Entries /\ Forwards /\ TypeOK
      /\ AnswersWhole /\ OneInterrupt /\ ReplacedByAttachment /\ NoAnswerLost
  BY DEF IInv
<1>1. /\ n # 0 /\ n \in handled /\ Answer({n}) /\ conn[c] \in {"open", "drain"}
      /\ cancelled' = cancelled \ {n} /\ pending' = [pending EXCEPT ![c][i] = 0]
      /\ main' = main /\ busy' = busy /\ shell' = shell /\ cmds' = cmds /\ cancels' = cancels
      /\ conn' = conn /\ held' = held /\ binary' = binary
      /\ count' = count /\ request' = request /\ replied' = replied
      /\ handled' = handled /\ interrupts' = interrupts /\ orphans' = orphans
  BY DEF End, Draining, mainVars, reqVars
<1>2. /\ n \in Requests /\ n <= count /\ n \in Nat /\ ends[n] = 0 /\ held[c] = 0
      /\ request[n].conn = c /\ request[n].id = i
  <2>1. n \in Requests /\ n <= count /\ n \in Nat
    BY <1>0, <1>1, Typed DEF Known
  <2>2. Entry(c, i, n)
    BY <1>0, <1>1 DEF Entries
  <2>3. held[c] = 0
    BY <1>0, <1>1 DEF TypeOK
  <2> QED
    BY <2>1, <2>2, <2>3 DEF Entry
<1> HIDE DEF n
<1>3. /\ chunks' \in [Requests -> 0..MaxReplies] /\ ends' \in [Requests -> Nat]
      /\ AnswersWhole' /\ ends'[n] = 1
      /\ \A m \in Requests : m # n => ends'[m] = ends[m]
  <2>1. {n} \in SUBSET (Requests \cap handled) /\ \A m \in {n} : ends[m] = 0
    BY <1>1, <1>2
  <2> QED
    BY <1>0, <1>1, <1>2, <2>1, AnswerStep
<1>4. /\ pending'[c][i] = 0 /\ \A j \in Ids : j # i => pending'[c][j] = pending[c][j]
      /\ \A d \in Conns : d # c => pending'[d] = pending[d]
  BY <1>0, <1>1 DEF TypeOK
<1>5. TypeOK'
  <2>1. pending' \in [Conns -> [Ids -> 0..MaxRequests]]
    BY <1>0, <1>1, Limits DEF TypeOK
  <2>2. cancelled' \subseteq Requests
    BY <1>0, <1>1 DEF TypeOK
  <2> QED
    BY <1>0, <1>1, <1>3, <2>1, <2>2 DEF TypeOK
<1>6. Known'
  <2>1. ASSUME NEW d \in Conns, NEW j \in Ids
        PROVE  pending'[d][j] <= count
    BY <1>0, <1>4, Typed DEF Known
  <2>2. \A m \in Requests : m > count => ends'[m] = 0
    BY <1>0, <1>2, <1>3, Typed DEF Known
  <2> QED
    BY <1>0, <1>1, <2>1, <2>2 DEF Known
<1>7. Queue'
  BY <1>0, <1>1 DEF Queue
<1>8. Entries'
  <2> SUFFICES ASSUME NEW d \in Conns, NEW j \in Ids, pending'[d][j] # 0
               PROVE  Entry(d, j, pending[d][j])'
    BY DEF Entries
  <2>1. /\ ~ (d = c /\ j = i) /\ pending'[d][j] = pending[d][j]
        /\ Entry(d, j, pending[d][j]) /\ pending[d][j] \in Requests
    BY <1>0, <1>4, Typed DEF Entries
  <2>2. pending[d][j] # n
    BY <1>2, <2>1 DEF Entry
  <2> QED
    BY <1>1, <1>3, <2>1, <2>2 DEF Entry
<1>9. Forwards'
  <2> SUFFICES ASSUME NEW d \in Conns, held[d] # 0
               PROVE  Forwarded(d, held[d])'
    BY <1>1 DEF Forwards
  <2>1. d # c /\ pending'[d] = pending[d] /\ Forwarded(d, held[d]) /\ held[d] \in Requests
    BY <1>0, <1>2, <1>4, Typed DEF Forwards
  <2>2. held[d] # n
    BY <1>2, <2>1 DEF Forwarded
  <2> QED
    BY <1>1, <1>3, <2>1, <2>2 DEF Forwarded
<1>10. OneInterrupt' /\ ReplacedByAttachment'
  BY <1>0, <1>1 DEF OneInterrupt, ReplacedByAttachment
<1>11. NoAnswerLost'
  <2> SUFFICES ASSUME NEW m \in 1..count, conn[request[m].conn] # "closed", m \notin orphans
               PROVE  Waits(m)' <=> ends'[m] = 0
    BY <1>1 DEF NoAnswerLost
  <2>1. m \in Requests /\ m # 0 /\ request[m].conn \in Conns /\ request[m].id \in Ids
    BY <1>0, Typed
  <2>2. Waits(m) <=> ends[m] = 0
    BY <1>0 DEF NoAnswerLost
  <2>3. CASE m = n
    BY <1>1, <1>2, <1>3, <1>4, <2>1, <2>3 DEF Waits
  <2>4. CASE m # n
    <3>1. pending'[request[m].conn][request[m].id] = m
            <=> pending[request[m].conn][request[m].id] = m
      BY <1>4, <2>1, <2>4 DEF n
    <3> QED
      BY <1>1, <1>3, <2>1, <2>2, <2>4, <3>1 DEF Waits
  <2> QED
    BY <2>3, <2>4
<1> QED
  BY <1>3, <1>5, <1>6, <1>7, <1>8, <1>9, <1>10, <1>11 DEF IInv

(* A connection that ends, with the answers S that still got through.      *)
LEMMA ClosesInv ==
  ASSUME IInv, NEW c \in Conns, NEW S \in SUBSET (InFlight(c) \cap handled),
         Answer(S), Closes(c)
  PROVE  IInv'
<1>0. /\ Known /\ Queue /\ Entries /\ Forwards /\ TypeOK
      /\ AnswersWhole /\ OneInterrupt /\ ReplacedByAttachment /\ NoAnswerLost
  BY DEF IInv
<1>1. /\ conn' = [conn EXCEPT ![c] = "closed"] /\ binary' = [binary EXCEPT ![c] = NoId]
      /\ pending' = [pending EXCEPT ![c] = [i \in Ids |-> 0]]
      /\ cancelled' = cancelled \ InFlight(c) /\ held' = [held EXCEPT ![c] = 0]
      /\ main' = main /\ busy' = busy /\ shell' = shell /\ cmds' = cmds /\ cancels' = cancels
      /\ count' = count /\ request' = request /\ replied' = replied
      /\ handled' = handled /\ interrupts' = interrupts /\ orphans' = orphans
  BY DEF Closes, mainVars, reqVars
<1>2. \A n \in InFlight(c) : /\ n \in Requests /\ n <= count /\ n # 0
                             /\ request[n].conn = c /\ ends[n] = 0
  <2> SUFFICES ASSUME NEW n \in InFlight(c)
               PROVE  /\ n \in Requests /\ n <= count /\ n # 0
                      /\ request[n].conn = c /\ ends[n] = 0
    OBVIOUS
  <2>1. PICK i \in Ids : n \in Requests /\ pending[c][i] = n
    BY DEF InFlight
  <2>2. n # 0 /\ n <= count
    BY <1>0, <2>1, Typed DEF Known
  <2> QED
    BY <1>0, <2>1, <2>2 DEF Entries, Entry
<1>3. /\ chunks' \in [Requests -> 0..MaxReplies] /\ ends' \in [Requests -> Nat]
      /\ AnswersWhole'
      /\ \A n \in Requests : n \notin InFlight(c) => ends'[n] = ends[n]
  <2>1. S \in SUBSET (Requests \cap handled) /\ \A n \in S : ends[n] = 0
    BY <1>2
  <2> QED
    BY <1>0, <1>1, <2>1, AnswerStep
<1>4. /\ conn'[c] = "closed" /\ held'[c] = 0 /\ \A i \in Ids : pending'[c][i] = 0
      /\ \A d \in Conns : d # c =>
           conn'[d] = conn[d] /\ held'[d] = held[d] /\ pending'[d] = pending[d]
  BY <1>0, <1>1 DEF TypeOK
<1>5. TypeOK'
  <2>1. /\ conn' \in [Conns -> States] /\ held' \in [Conns -> 0..MaxRequests]
        /\ binary' \in [Conns -> Ids \cup {NoId}]
        /\ pending' \in [Conns -> [Ids -> 0..MaxRequests]]
    BY <1>0, <1>1, Limits DEF TypeOK, States
  <2>2. cancelled' \subseteq Requests
    BY <1>0, <1>1 DEF TypeOK
  <2>3. \A d \in Conns : held'[d] # 0 <=> conn'[d] \in {"sending", "sent"}
    BY <1>0, <1>4 DEF TypeOK
  <2> QED
    BY <1>0, <1>1, <1>3, <2>1, <2>2, <2>3 DEF TypeOK
<1>6. Known'
  <2>1. \A d \in Conns : held'[d] <= count
    BY <1>0, <1>4, Typed DEF Known
  <2>2. ASSUME NEW d \in Conns, NEW j \in Ids
        PROVE  pending'[d][j] <= count
    BY <1>0, <1>4, Typed DEF Known
  <2>3. ASSUME NEW n \in Requests, n > count
        PROVE  ends'[n] = 0
    BY <1>0, <1>2, <1>3, <2>3, Typed DEF Known
  <2> QED
    BY <1>0, <1>1, <2>1, <2>2, <2>3 DEF Known
<1>7. Queue'
  BY <1>0, <1>1, <1>4 DEF Queue
<1>8. Entries'
  <2> SUFFICES ASSUME NEW d \in Conns, NEW j \in Ids, pending'[d][j] # 0
               PROVE  Entry(d, j, pending[d][j])'
    BY DEF Entries
  <2>1. /\ d # c /\ pending'[d][j] = pending[d][j]
        /\ Entry(d, j, pending[d][j]) /\ pending[d][j] \in Requests
    BY <1>0, <1>4, Typed DEF Entries
  <2>2. pending[d][j] \notin InFlight(c)
    BY <1>2, <2>1 DEF Entry
  <2> QED
    BY <1>1, <1>3, <2>1, <2>2 DEF Entry
<1>9. Forwards'
  <2> SUFFICES ASSUME NEW d \in Conns, held'[d] # 0
               PROVE  Forwarded(d, held[d])'
    BY DEF Forwards
  <2>1. /\ d # c /\ held'[d] = held[d] /\ pending'[d] = pending[d]
        /\ Forwarded(d, held[d]) /\ held[d] \in Requests
    BY <1>0, <1>4, Typed DEF Forwards
  <2>2. held[d] \notin InFlight(c)
    BY <1>2, <2>1 DEF Forwarded
  <2> QED
    BY <1>1, <1>3, <2>1, <2>2 DEF Forwarded
<1>10. OneInterrupt' /\ ReplacedByAttachment'
  BY <1>0, <1>1 DEF OneInterrupt, ReplacedByAttachment
<1>11. NoAnswerLost'
  <2> SUFFICES ASSUME NEW m \in 1..count, conn'[request[m].conn] # "closed", m \notin orphans
               PROVE  Waits(m)' <=> ends'[m] = 0
    BY <1>1 DEF NoAnswerLost
  <2>1. m \in Requests /\ request[m].conn \in Conns /\ request[m].conn # c
    BY <1>0, <1>4, Typed
  <2>2. Waits(m) <=> ends[m] = 0
    BY <1>0, <1>4, <2>1 DEF NoAnswerLost
  <2>3. m \notin InFlight(c)
    BY <1>2, <2>1
  <2> QED
    BY <1>1, <1>3, <1>4, <2>1, <2>2, <2>3 DEF Waits
<1> QED
  BY <1>3, <1>5, <1>6, <1>7, <1>8, <1>9, <1>10, <1>11 DEF IInv

(* A connection that ends, in one of four ways.                            *)
LEMMA ClosingInv ==
  ASSUME IInv, NEW c \in Conns, Close(c) \/ WriteFails(c) \/ DrainEnds(c) \/ Abort(c)
  PROVE  IInv'
<1>1. CASE Close(c)
  BY <1>1, ClosesInv DEF Close
<1>2. CASE UNCHANGED ansVars /\ Closes(c)
  <2>1. Answer({})
    BY <1>2 DEF IInv, TypeOK, Answer, ansVars
  <2> QED
    BY <1>2, <2>1, ClosesInv
<1> QED
  BY <1>1, <1>2 DEF WriteFails, DrainEnds, Abort

------------------------------------------------------------------------------
(* Every step keeps the invariant.                                         *)
LEMMA NextInv == IInv /\ [Next]_vars => IInv'
<1> SUFFICES ASSUME IInv, [Next]_vars PROVE IInv'
  OBVIOUS
<1>1. CASE Main
  BY <1>1, QuietMain, TakeCommandInv, ReplyInv, FinishInv DEF Main
<1>2. CASE \E c \in Conns : Conn(c)
  <2> PICK c \in Conns : Conn(c)
    BY <1>2
  <2>1. ASSUME NEW i \in Ids, NEW kind \in Kinds, Request(c, i, kind)
        PROVE  IInv'
    BY <2>1, AcceptInv, KindsAssumption DEF Request, Reads
  <2>2. CASE Binary(c)
    <3>1. binary[c] \in Ids
      BY <2>2 DEF Binary, IInv, TypeOK
    <3> QED
      BY <2>2, <3>1, AcceptInv DEF Binary, Reads
  <2>3. CASE Frame(c)
    BY <2>1, <2>2, <2>3, QuietConn, CancelInv DEF Frame
  <2>4. CASE Drain(c)
    BY <2>4, TakeRepliesInv, EndInv DEF Drain
  <2>5. CASE Shutdown(c)
    BY <2>5, QuietConn, ClosingInv DEF Shutdown
  <2>6. CASE Client(c)
    BY <2>6, QuietConn, ClosingInv DEF Client
  <2> QED
    BY <2>3, <2>4, <2>5, <2>6, ForwardInv, InsertInv, ClosingInv DEF Conn
<1>3. CASE UNCHANGED vars
  BY <1>3, QuietMain
<1> QED
  BY <1>1, <1>2, <1>3 DEF Next

(* The inductive invariant: what is known of requests, entries and queues, *)
(* and the safety properties of socket/connection.rs that rest on it.      *)
THEOREM Inductive == Spec => []IInv
  BY InitInv, NextInv, PTL DEF Spec

(* Types, and channels that never exceed their capacity.                   *)
THEOREM TypeSafe == Spec => []TypeOK
<1>1. IInv => TypeOK
  BY DEF IInv
<1> QED
  BY <1>1, Inductive, PTL

(* drain_pending ends a request once, after its handler, with all it said. *)
THEOREM AnswersAreWhole == Spec => []AnswersWhole
<1>1. IInv => AnswersWhole
  BY DEF IInv
<1> QED
  BY <1>1, Inductive, PTL

(* A request keeps who waits for it until its end frame, although the main *)
(* loop may handle it before its entry is made.                            *)
THEOREM NoAnswerIsLost == Spec => []NoAnswerLost
<1>1. IInv => NoAnswerLost
  BY DEF IInv
<1> QED
  BY <1>1, Inductive, PTL

(* The cancelled flag of an entry lets one Ctrl-C through.                 *)
THEOREM OneInterruptEach == Spec => []OneInterrupt
<1>1. IInv => OneInterrupt
  BY DEF IInv
<1> QED
  BY <1>1, Inductive, PTL

(* Only an attachment takes the entry of a request in flight.              *)
THEOREM ReplacedByAttachments == Spec => []ReplacedByAttachment
<1>1. IInv => ReplacedByAttachment
  BY DEF IInv
<1> QED
  BY <1>1, Inductive, PTL
==============================================================================
