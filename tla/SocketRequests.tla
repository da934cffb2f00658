---------------------------- MODULE SocketRequests ----------------------------
(***************************************************************************)
(* The requests of WebSocket clients (socket/connection.rs): a connection  *)
(* task accepts them, forwards each to the main loop (main.rs), drains the *)
(* reply channels of those in flight and answers with one result and one   *)
(* end once the main loop has dropped the message; a cancel becomes a      *)
(* Ctrl-C to the foreground session.                                       *)
(*                                                                         *)
(* The main loop handles one command at a time and to its end.  A request  *)
(* is its number, in the order of acceptance: the client chooses its id,   *)
(* and may use one again.                                                  *)
(***************************************************************************)
EXTENDS Naturals, Sequences, FiniteSets

CONSTANTS Conns,       \* connections
          Ids,         \* request ids clients use
          NoId,        \* no attachment is expected
          Kinds,       \* commands clients request: "shell" or "other"
          MaxPending,  \* max_pending_requests
          CmdCap,      \* capacity of the command channel
          CancelCap,   \* capacity of the cancel channel
          MaxRequests, \* bound on the requests accepted
          MaxReplies   \* bound: nobody replies once a command has replied so many texts

ASSUME NoIdAssumption == NoId \notin Ids
ASSUME KindsAssumption == Kinds \subseteq {"shell", "other"}
ASSUME BoundsAssumption ==
  /\ {MaxRequests, MaxReplies} \subseteq Nat
  /\ {MaxPending, CmdCap, CancelCap} \subseteq Nat \ {0}

VARIABLES
  main,      \* the main loop: "loop", "stopping" after Ctrl-C, "exited"
  busy,      \* the request handle_command is in, or 0
  shell,     \* the request whose command runs in the foreground session, or 0
  cmds,      \* the command channel
  cancels,   \* the cancel channel
  conn,      \* each connection task: "open", "sending", "sent", "drain", "closed";
             \* "blocked", "drain_blocked": it waits in a write
  held,      \* the request a connection is forwarding, or 0
  binary,    \* pending_binary: the id of an attachment_meta, or NoId
  pending,   \* pending: the request in flight under each id, or 0
  count,     \* the requests accepted are 1..count
  request,   \* what each of them is
  replied,   \* texts its handler has sent to the reply channel
  chunks,    \* texts the connection has taken from it, for the result
  handled,   \* requests whose message, and with it the sender, was dropped
  cancelled, \* requests in flight flagged as cancelled
  ends,      \* how many end frames it got
  interrupts,\* how many interrupts were queued for it
  orphans    \* requests whose entry another one has replaced

mainVars == <<main, busy, shell>>
connVars == <<conn, held, binary, pending>>
reqVars  == <<count, request>>
ansVars  == <<chunks, ends>>
vars == <<mainVars, cmds, cancels, connVars, reqVars, replied, handled, cancelled,
          ansVars, interrupts, orphans>>

Requests == 1..MaxRequests

(* No request yet.                                                         *)
Unused == [conn |-> 0, id |-> NoId, kind |-> "none"]

InFlight(c) == {n \in Requests : \E i \in Ids : pending[c][i] = n}

Init ==
  /\ main = "loop" /\ busy = 0 /\ shell = 0
  /\ cmds = <<>> /\ cancels = <<>>
  /\ conn = [c \in Conns |-> "open"] /\ held = [c \in Conns |-> 0]
  /\ binary = [c \in Conns |-> NoId]
  /\ pending = [c \in Conns |-> [i \in Ids |-> 0]]
  /\ count = 0 /\ request = [n \in Requests |-> Unused]
  /\ replied = [n \in Requests |-> 0] /\ chunks = [n \in Requests |-> 0]
  /\ ends = [n \in Requests |-> 0]
  /\ interrupts = [n \in Requests |-> 0]
  /\ handled = {} /\ cancelled = {} /\ orphans = {}

------------------------------------------------------------------------------
(* The connection task reads a frame.  A text frame in place of the binary *)
(* one cancels the attachment.                                             *)
Reads(c) == conn[c] = "open" /\ main = "loop"

(* The message for the main loop, and its reply channel.                   *)
Accept(c, i, kind) ==
  /\ count < MaxRequests /\ count' = count + 1
  /\ request' = [request EXCEPT ![count'] = [conn |-> c, id |-> i, kind |-> kind]]
  /\ held' = [held EXCEPT ![c] = count']
  /\ conn' = [conn EXCEPT ![c] = "sending"]
  /\ binary' = [binary EXCEPT ![c] = NoId]
  /\ UNCHANGED <<mainVars, cmds, cancels, pending, replied, handled, cancelled, ansVars, interrupts, orphans>>

(* A request whose id is in flight, or above the limit, is refused.        *)
Request(c, i, kind) ==
  /\ Reads(c)
  /\ pending[c][i] = 0
  /\ Cardinality(InFlight(c)) < MaxPending
  /\ Accept(c, i, kind)

(* Neither the id nor the limit is looked at.                              *)
AttachmentMeta(c, i) ==
  /\ Reads(c) /\ count < MaxRequests
  /\ binary' = [binary EXCEPT ![c] = i]
  /\ UNCHANGED <<mainVars, cmds, cancels, conn, held, pending, reqVars, replied, handled,
                 cancelled, ansVars, interrupts, orphans>>

(* A binary frame becomes a request of its own.                            *)
Binary(c) ==
  /\ Reads(c) /\ binary[c] # NoId
  /\ Accept(c, binary[c], "other")

(* The attachment is given up: another text frame, whatever it is, 30      *)
(* seconds without the binary frame, one too large, a file that cannot be  *)
(* written.                                                                *)
ForgetBinary(c) ==
  /\ Reads(c) /\ binary[c] # NoId
  /\ binary' = [binary EXCEPT ![c] = NoId]
  /\ UNCHANGED <<mainVars, cmds, cancels, conn, held, pending, reqVars, replied, handled,
                 cancelled, ansVars, interrupts, orphans>>

(* cmd_tx.send waits for room; nothing else happens on the connection.     *)
Forward(c) ==
  /\ main # "exited"
  /\ conn[c] = "sending" /\ conn' = [conn EXCEPT ![c] = "sent"]
  /\ Len(cmds) < CmdCap /\ cmds' = Append(cmds, held[c])
  /\ UNCHANGED <<mainVars, cancels, held, binary, pending, reqVars, replied, handled,
                 cancelled, ansVars, interrupts, orphans>>

(* The main loop may have handled the request by now.                      *)
Insert(c) ==
  LET i == request[held[c]].id IN
  /\ main # "exited"
  /\ conn[c] = "sent" /\ conn' = [conn EXCEPT ![c] = "open"]
  /\ orphans' = orphans \cup ({pending[c][i]} \ {0})
  /\ cancelled' = cancelled \ {pending[c][i]}
  /\ pending' = [pending EXCEPT ![c][i] = held[c]]
  /\ held' = [held EXCEPT ![c] = 0]
  /\ UNCHANGED <<mainVars, cmds, cancels, binary, reqVars, replied, handled,
                 ansVars, interrupts>>

(* try_send: without room the interrupt is dropped, the flag stays.        *)
SendInterrupt(n) ==
  IF Len(cancels) < CancelCap
    THEN cancels' = Append(cancels, n) /\ interrupts' = [interrupts EXCEPT ![n] = @ + 1]
    ELSE UNCHANGED <<cancels, interrupts>>

(* A cancel for a request that is not in flight does nothing more than     *)
(* ForgetBinary, nor does a second one.                                    *)
Cancel(c, i) ==
  LET n == pending[c][i] IN
  /\ Reads(c) /\ n # 0 /\ n \notin cancelled
  /\ cancelled' = cancelled \cup {n} /\ SendInterrupt(n)
  /\ binary' = [binary EXCEPT ![c] = NoId]
  /\ UNCHANGED <<mainVars, cmds, conn, held, pending, reqVars, replied, handled, ansVars,
                 orphans>>

------------------------------------------------------------------------------
(* drain_pending, one request at a time.                                   *)
Answer(S) ==
  /\ chunks'  = [n \in Requests |-> IF n \in S THEN replied[n] ELSE chunks[n]]
  /\ ends'    = [n \in Requests |-> IF n \in S THEN ends[n] + 1 ELSE ends[n]]

Draining(c, i) ==
  /\ conn[c] \in {"open", "drain"} /\ main # "exited"
  /\ pending[c][i] # 0

(* Texts, and then an empty channel: the command still runs.               *)
TakeReplies(c, i) ==
  LET n == pending[c][i] IN
  /\ Draining(c, i)
  /\ n \notin handled /\ chunks[n] # replied[n]
  /\ chunks' = [chunks EXCEPT ![n] = replied[n]]
  /\ UNCHANGED <<mainVars, cmds, cancels, connVars, reqVars, replied, handled, cancelled,
                 ends, interrupts, orphans>>

(* Mutant: an empty channel is taken for a closed one.                     *)
EndOnEmpty(c, i) ==
  /\ Draining(c, i)
  /\ Answer({pending[c][i]})
  /\ cancelled' = cancelled \ {pending[c][i]}
  /\ pending' = [pending EXCEPT ![c][i] = 0]
  /\ UNCHANGED <<mainVars, cmds, cancels, conn, held, binary, reqVars, replied, handled,
                 interrupts, orphans>>

(* Mutant: the entry of an answered request is dropped without its end.    *)
EndForgotten(c, i) ==
  /\ Draining(c, i)
  /\ pending[c][i] \in handled
  /\ cancelled' = cancelled \ {pending[c][i]}
  /\ pending' = [pending EXCEPT ![c][i] = 0]
  /\ UNCHANGED <<mainVars, cmds, cancels, conn, held, binary, reqVars, replied, handled,
                 ansVars, interrupts, orphans>>

(* Mutant: the end is sent with a result only.                             *)
EndIfText(c, i) ==
  LET n == pending[c][i] IN
  /\ Draining(c, i)
  /\ n \in handled /\ replied[n] > 0
  /\ Answer({n})
  /\ cancelled' = cancelled \ {n}
  /\ pending' = [pending EXCEPT ![c][i] = 0]
  /\ UNCHANGED <<mainVars, cmds, cancels, conn, held, binary, reqVars, replied, handled,
                 interrupts, orphans>>

(* The channel is closed behind the last text: result and end.             *)
End(c, i) ==
  /\ Draining(c, i)
  /\ pending[c][i] \in handled
  /\ Answer({pending[c][i]})
  /\ cancelled' = cancelled \ {pending[c][i]}
  /\ pending' = [pending EXCEPT ![c][i] = 0]
  /\ UNCHANGED <<mainVars, cmds, cancels, conn, held, binary, reqVars, replied, handled,
                 interrupts, orphans>>

(* Dropping the map closes the receivers.                                  *)
Closes(c) ==
  /\ conn' = [conn EXCEPT ![c] = "closed"]
  /\ binary' = [binary EXCEPT ![c] = NoId]
  /\ pending' = [pending EXCEPT ![c] = [i \in Ids |-> 0]]
  /\ cancelled' = cancelled \ InFlight(c)
  /\ held' = [held EXCEPT ![c] = 0]
  /\ UNCHANGED <<mainVars, cmds, cancels, reqVars, replied, handled, interrupts, orphans>>

(* send_envelope has no timeout: once the buffers are full the task waits   *)
(* in whatever it sends, and sees neither replies nor the shutdown.        *)
Blockable == {<<"open", "blocked">>, <<"drain", "drain_blocked">>}

StopsReading(c) ==
  /\ main # "exited"
  /\ \E s \in Blockable : conn[c] = s[1] /\ conn' = [conn EXCEPT ![c] = s[2]]
  /\ UNCHANGED <<mainVars, cmds, cancels, held, binary, pending, reqVars, replied, handled,
                 cancelled, ansVars, interrupts, orphans>>

ReadsAgain(c) ==
  /\ main # "exited"
  /\ \E s \in Blockable : conn[c] = s[2] /\ conn' = [conn EXCEPT ![c] = s[1]]
  /\ UNCHANGED <<mainVars, cmds, cancels, held, binary, pending, reqVars, replied, handled,
                 cancelled, ansVars, interrupts, orphans>>

(* The client is gone after all: this write fails, and the final drain's.  *)
WriteFails(c) ==
  /\ main # "exited" /\ conn[c] \in {"blocked", "drain_blocked"}
  /\ UNCHANGED ansVars
  /\ Closes(c)

(* The client leaves, a timeout, a failed write, a name no longer in the   *)
(* configuration.  The final drain stops at the first write that fails.    *)
Close(c) ==
  /\ conn[c] = "open" /\ main # "exited"
  /\ \E S \in SUBSET (InFlight(c) \cap handled) : Answer(S)
  /\ Closes(c)

(* Shutdown: the task stops reading, and waits for what is in flight.      *)
SeeShutdown(c) ==
  /\ main = "stopping"
  /\ conn[c] = "open" /\ conn' = [conn EXCEPT ![c] = "drain"]
  /\ UNCHANGED <<mainVars, cmds, cancels, held, binary, pending, reqVars, replied, handled,
                 cancelled, ansVars, interrupts, orphans>>

(* Nothing is in flight, or drain_deadline has passed.                     *)
DrainEnds(c) ==
  /\ main = "stopping" /\ conn[c] = "drain"
  /\ UNCHANGED ansVars
  /\ Closes(c)

(* SocketServer::run gives up and aborts the task where it waits.          *)
Abort(c) ==
  /\ main = "stopping" /\ conn[c] \in {"open", "sending", "drain", "blocked", "drain_blocked"}
  /\ UNCHANGED ansVars
  /\ Closes(c)

------------------------------------------------------------------------------
(* The main loop.  Interrupts come before commands.                        *)
Interrupt ==
  /\ main = "loop" /\ busy = 0
  /\ cancels # <<>> /\ cancels' = Tail(cancels)
  /\ shell' = 0
  /\ UNCHANGED <<main, busy, cmds, connVars, reqVars, replied, handled, cancelled, ansVars,
                 interrupts, orphans>>

TakeCommand ==
  /\ main = "loop" /\ busy = 0 /\ cancels = <<>>
  /\ cmds # <<>> /\ busy' = Head(cmds) /\ cmds' = Tail(cmds)
  /\ UNCHANGED <<main, shell, cancels, connVars, reqVars, replied, handled, cancelled,
                 ansVars, interrupts, orphans>>

(* send_reply of a socket request.                                         *)
Reply ==
  /\ busy # 0
  /\ \A n \in Requests : replied[n] < MaxReplies
  /\ replied' = [replied EXCEPT ![busy] = @ + 1]
  /\ UNCHANGED <<mainVars, cmds, cancels, connVars, reqVars, handled, cancelled, ansVars,
                 interrupts, orphans>>

(* A shell command is typed into the foreground session, and is input to   *)
(* what runs there already; handle_command does not wait for it.  The      *)
(* message goes out of scope, and the sender of the reply channel with it. *)
Finish ==
  /\ busy # 0 /\ busy' = 0
  /\ handled' = handled \cup {busy}
  /\ shell' = IF request[busy].kind = "shell" /\ shell = 0 THEN busy ELSE shell
  /\ UNCHANGED <<main, cmds, cancels, connVars, reqVars, replied, cancelled, ansVars,
                 interrupts, orphans>>

(* The command in the session ends by itself.                              *)
ShellExits ==
  /\ main # "exited"
  /\ shell # 0 /\ shell' = 0
  /\ UNCHANGED <<main, busy, cmds, cancels, connVars, reqVars, replied, handled, cancelled,
                 ansVars, interrupts, orphans>>

(* Ctrl-C is the last arm of the select: nothing else was ready.           *)
Stop ==
  /\ main = "loop" /\ busy = 0 /\ cancels = <<>> /\ cmds = <<>>
  /\ main' = "stopping"
  /\ UNCHANGED <<busy, shell, cmds, cancels, connVars, reqVars, replied, handled, cancelled,
                 ansVars, interrupts, orphans>>

(* The server has returned, main's own deadline has passed, or Ctrl-C came *)
(* again.                                                                  *)
Exit ==
  /\ main = "stopping" /\ main' = "exited"
  /\ UNCHANGED <<busy, shell, cmds, cancels, connVars, reqVars, replied, handled, cancelled,
                 ansVars, interrupts, orphans>>

------------------------------------------------------------------------------
Frame(c) ==
  \/ \E i \in Ids, kind \in Kinds : Request(c, i, kind)
  \/ \E i \in Ids : AttachmentMeta(c, i) \/ Cancel(c, i)
  \/ Binary(c)
  \/ ForgetBinary(c)

Drain(c) == \E i \in Ids : TakeReplies(c, i) \/ End(c, i)

Shutdown(c) == SeeShutdown(c) \/ DrainEnds(c) \/ Abort(c)

Client(c) == StopsReading(c) \/ ReadsAgain(c) \/ WriteFails(c)

Conn(c) ==
  Frame(c) \/ Forward(c) \/ Insert(c) \/ Drain(c) \/ Close(c) \/ Client(c) \/ Shutdown(c)

Main == Interrupt \/ TakeCommand \/ Reply \/ Finish \/ ShellExits \/ Stop \/ Exit

Next == Main \/ \E c \in Conns : Conn(c)

Spec == Init /\ [][Next]_vars

(* The select loops run on and a command ends.  A client need not read, and *)
(* a write to one that does not never ends; nor are the user's Ctrl-C and  *)
(* the program in the session under any obligation.                        *)
FairSpec ==
  /\ Spec
  /\ WF_vars(Interrupt \/ TakeCommand \/ Finish)
  /\ \A c \in Conns : WF_vars(Forward(c) \/ Insert(c))
  /\ \A c \in Conns, i \in Ids : WF_vars(End(c, i))

------------------------------------------------------------------------------
States == {"open", "sending", "sent", "drain", "closed", "blocked", "drain_blocked"}

(* Every variable has its type, and the channels keep to their capacity.   *)
TypeOK ==
  /\ main \in {"loop", "stopping", "exited"}
  /\ busy \in 0..MaxRequests /\ shell \in 0..MaxRequests
  /\ cmds \in Seq(Requests) /\ Len(cmds) <= CmdCap
  /\ cancels \in Seq(Requests) /\ Len(cancels) <= CancelCap
  /\ conn \in [Conns -> States]
  /\ held \in [Conns -> 0..MaxRequests]
  /\ \A c \in Conns : held[c] # 0 <=> conn[c] \in {"sending", "sent"}
  /\ binary \in [Conns -> Ids \cup {NoId}]
  /\ pending \in [Conns -> [Ids -> 0..MaxRequests]]
  /\ count \in 0..MaxRequests
  /\ request \in [Requests -> [conn : Conns, id : Ids, kind : {"shell", "other"}] \cup {Unused}]
  /\ \A n \in 1..count : request[n] # Unused
  /\ replied \in [Requests -> 0..MaxReplies] /\ chunks \in [Requests -> 0..MaxReplies]
  /\ ends \in [Requests -> Nat] /\ interrupts \in [Requests -> Nat]
  /\ handled \subseteq Requests /\ cancelled \subseteq Requests /\ orphans \subseteq Requests

(* A request gets one end at most, only when its command is done, and the  *)
(* result before it has all the command replied: drain_pending races       *)
(* send_reply, and both race the drop of the message.                      *)
AnswersWhole ==
  \A n \in Requests : ends[n] > 0 =>
    ends[n] = 1 /\ n \in handled /\ chunks[n] = replied[n]

(* Who waits for the answer of a request that was accepted.                *)
Waits(n) == held[request[n].conn] = n \/ pending[request[n].conn][request[n].id] = n

(* A connection that is there has an entry for each of its requests until  *)
(* it has sent the end, although the main loop may be done with one before *)
(* the entry is made.  Only an attachment under the id of a request in     *)
(* flight takes an entry away.                                             *)
NoAnswerLost ==
  \A n \in 1..count :
    conn[request[n].conn] # "closed" /\ n \notin orphans => (Waits(n) <=> ends[n] = 0)

(* However many cancel frames come for a request, one Ctrl-C is queued: a  *)
(* second one could hit another program.                                   *)
OneInterrupt == \A n \in Requests : interrupts[n] <= 1

(* An entry that is replaced belongs to a request under the same id, and   *)
(* what replaced it is an attachment: a request with that id is refused.   *)
ReplacedByAttachment ==
  \A n \in orphans : \E m \in (n + 1)..count :
    /\ request[m].conn = request[n].conn /\ request[m].id = request[n].id
    /\ request[m].kind = "other"

(* A request in flight is answered, unless its connection closes, its      *)
(* client stops reading, an attachment takes its id or the program is      *)
(* stopped: a full command channel, a busy main loop and a stream of       *)
(* cancels only delay it.                                                  *)
RequestsAnswered ==
  \A n \in Requests :
    (n <= count /\ ends[n] = 0) ~>
      \/ ends[n] = 1 \/ n \in orphans \/ main # "loop"
      \/ \E c \in Conns : c = request[n].conn /\ conn[c] \in {"closed", "blocked"}

(* docs/socket.md: a cancel sends Ctrl-C to the foreground pane, which     *)
(* interrupts the running process, for a shell request that is in flight.  *)
InterruptHitsItsRequest ==
  [][ cancels # <<>> /\ cancels' = Tail(cancels) /\ request[Head(cancels)].kind = "shell"
        => shell \in {0, Head(cancels)} ]_vars
==============================================================================
