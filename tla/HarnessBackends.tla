--------------------------- MODULE HarnessBackends ---------------------------
(***************************************************************************)
(* The task of one harness turn (harness/lifecycle.rs and the four back    *)
(* ends codex.rs, gemini.rs, opencode.rs, claude.rs): it starts the child, *)
(* reads its stream line by line, turns the lines into HarnessEvents for   *)
(* the driver, reaps the child and cleans up, under a panic guard.         *)
(*                                                                         *)
(* A line is the type of the JSON line (for claude, of the SDK message)    *)
(* and the tool call it is about, if any; an event keeps the numbers of    *)
(* the lines whose content it carries.  The channel to the driver is the   *)
(* part of sent the driver has not taken: it holds 256 events (claude 64), *)
(* and a full one only makes the task wait for the driver, who comes back  *)
(* for more, drops it, or is stuck itself.                                 *)
(***************************************************************************)
EXTENDS Integers, Sequences, FiniteSets, SequencesExt

CONSTANTS Kinds,    \* the back ends: of "codex", "gemini", "opencode", "claude"
          ToolIds,  \* ids of tool calls, positive
          ToolOf,   \* the tool each of them calls
          Cap,      \* ToolPairingBuffer::CAP
          BufCap,   \* ASSISTANT_BUFFER_CAP, in chunks of text
          MaxLines  \* bound on the lines of a turn, by back end

ASSUME KindsAssumption == Kinds \subseteq {"codex", "gemini", "opencode", "claude"}
ASSUME HarnessBounds ==
  /\ ToolIds \subseteq Nat \ {0} /\ DOMAIN ToolOf = ToolIds /\ \A id \in ToolIds : ToolOf[id] # ""
  /\ {Cap, BufCap} \subseteq Nat \ {0} /\ Kinds \subseteq DOMAIN MaxLines

VARIABLES
  kind,    \* the back end of this turn
  schema,  \* its --schema: "none", "hook" (registered, with a webhook), "plain", "bad"
  task,    \* "idle", "spawn", "reading", "flush", "wait", "stderr", "held", "guard", "over";
           \* "sub" for a subcommand
  child,   \* "none", "running", "ok", "failed"
  rd,      \* the locals of the read loop
  log,     \* the lines read
  unread,  \* the child has printed after the loop broke
  sent,    \* the events sent
  temps,   \* temporary files: "attachment", "schema"
  open     \* runs announced as started and not yet as finished: "task", "turn"

taskVars == <<kind, schema, task, child, rd, log, unread, sent, temps, open>>

Ev(type, lines, arg) == [type |-> type, lines |-> lines, arg |-> arg]
Err == Ev("Error", <<>>, "")
Done(sid) == Ev("Done", <<>>, sid)

(* The locals at the start of the loop.  text is structured_buffer,        *)
(* assistant_buffer or response_text.                                      *)
Fresh == [sid |-> "", recognized |-> FALSE, fatal |-> FALSE, pending |-> {}, text |-> <<>>,
          steps |-> 0, finished |-> FALSE, files |-> {}, thinking |-> FALSE, closed |-> FALSE]

(* decide_structured_schema: the answer is for a webhook.                  *)
Structured == kind = "codex" /\ schema = "hook"

NoTool == 0
Line(types, ids) == [type : types, id : ids]
ToolLine(types) == Line(types, ToolIds)

(* The lines that make a difference, as the translate_event of each back   *)
(* end tells them apart; a blank or malformed one is ignored.              *)
CodexLines ==
  Line({"thread.started", "unknown", "agent_message", "error", "turn.completed",
        "turn.failed"}, {NoTool})
    \union ToolLine({"item.started", "item.completed"})

GeminiLines ==
  Line({"init", "unknown", "delta", "message", "empty message", "warning", "error", "result",
        "result failed"}, {NoTool})
    \union ToolLine({"tool_use", "tool_result"})

OpencodeLines ==
  Line({"step_start", "step_finish", "text", "unknown"}, {NoTool}) \union ToolLine({"tool_use"})

(* The messages of the SDK.                                                *)
ClaudeLines ==
  Line({"text", "write", "result", "retries", "parse error", "io error"}, {NoTool})
    \union ToolLine({"tool"})

------------------------------------------------------------------------------
(* ToolPairingBuffer, as a set of calls [id, line].  An id that starts     *)
(* again replaces its entry; a full buffer evicts an arbitrary one.        *)
Without(pending, id) == {p \in pending : p.id # id}

OnUse(pending, id, n) ==
  LET kept == IF Cardinality(pending) >= Cap /\ \A p \in pending : p.id # id
              THEN {pending \ {p} : p \in pending}
              ELSE {Without(pending, id)}
  IN  {k \union {[id |-> id, line |-> n]} : k \in kept}

(* No event for a result nobody has announced.                             *)
OnResult(pending, id, n) ==
  IF \E p \in pending : p.id = id THEN <<Ev("Tool", <<n>>, ToolOf[id])>> ELSE <<>>

(* The entries that are left, in any order, without an output.             *)
FlushPending(pending) ==
  {[i \in DOMAIN s |-> Ev("Tool", <<s[i].line>>, ToolOf[s[i].id])] : s \in SetToSeqs(pending)}

FlushText(text) == IF text = <<>> THEN <<>> ELSE <<Ev("Text", text, "")>>

------------------------------------------------------------------------------
(* One iteration of the read loop: its locals, what it sends, and whether  *)
(* it goes on ("reading") or breaks ("flush").                             *)
Iterate(l, rd1, evs, to) ==
  /\ log' = Append(log, l)
  /\ rd' = rd1 /\ sent' = sent \o evs /\ task' = to

Known == [rd EXCEPT !.recognized = TRUE]

(* run_codex_inner, line by line.                                          *)
CodexLine(l, n) ==
  \/ /\ l.type = "thread.started"
     /\ Iterate(l, [Known EXCEPT !.sid = "s"], <<>>, "reading")
  \/ /\ l.type = "unknown"
     /\ Iterate(l, rd, <<>>, "reading")
  \/ /\ l.type = "agent_message"
     /\ IF Structured
        THEN Iterate(l, [Known EXCEPT !.text = Append(@, n)], <<>>, "reading")
        ELSE Iterate(l, Known, <<Ev("Text", <<n>>, "")>>, "reading")
  \/ /\ l.type = "error"
     /\ Iterate(l, Known, <<Err>>, "reading")
  \/ /\ l.type = "item.started"
     /\ \E p \in OnUse(rd.pending, l.id, n) :
          Iterate(l, [Known EXCEPT !.pending = p], <<>>, "reading")
  \/ /\ l.type = "item.completed"
     /\ Iterate(l, [Known EXCEPT !.pending = Without(@, l.id)],
                OnResult(rd.pending, l.id, n), "reading")
  \/ /\ l.type = "turn.failed"
     /\ Iterate(l, [Known EXCEPT !.fatal = TRUE], <<>>, "flush")

(* turn.completed: what was buffered is valid JSON, or it is an error.     *)
CodexCompleted(l) ==
  /\ l.type = "turn.completed"
  /\ \E evs \in IF ~Structured THEN {<<>>}
               ELSE IF rd.text = <<>> THEN {<<Ev("Text", <<>>, "")>>}
               ELSE {<<Ev("Structured", rd.text, "")>>, <<Err>>} :
       Iterate(l, Known, evs, "flush")

(* run_gemini_inner: assistant text is collected until a line ends it.     *)
GeminiLine(l, n) ==
  \/ /\ l.type = "init"
     /\ Iterate(l, [Known EXCEPT !.sid = "s"], <<>>, "reading")
  \/ /\ l.type = "unknown"
     /\ Iterate(l, rd, <<>>, "reading")
  \/ /\ l.type = "warning"
     /\ Iterate(l, Known, <<>>, "reading")
  \/ /\ l.type \in {"error", "result failed"}
     /\ Iterate(l, [Known EXCEPT !.fatal = TRUE], <<>>, "flush")
  \/ /\ l.type = "result"
     /\ Iterate(l, Known, <<>>, "flush")
  \/ /\ l.type = "empty message"
     /\ Iterate(l, [Known EXCEPT !.text = <<>>], FlushText(rd.text), "reading")
  \/ /\ l.type = "delta" /\ Len(rd.text) < BufCap
     /\ Iterate(l, [Known EXCEPT !.text = Append(@, n)], <<>>, "reading")
  \/ /\ l.type = "delta" /\ Len(rd.text) >= BufCap
     /\ Iterate(l, [Known EXCEPT !.text = <<n>>], FlushText(rd.text), "reading")
  \/ /\ l.type = "message" /\ Len(rd.text) < BufCap
     /\ Iterate(l, [Known EXCEPT !.text = <<>>], FlushText(Append(rd.text, n)), "reading")
  \/ /\ l.type = "message" /\ Len(rd.text) >= BufCap
     /\ Iterate(l, [Known EXCEPT !.text = <<>>], FlushText(rd.text) \o FlushText(<<n>>), "reading")

GeminiTool(l, n) ==
  \/ /\ l.type = "tool_use"
     /\ \E p \in OnUse(rd.pending, l.id, n) :
          Iterate(l, [Known EXCEPT !.text = <<>>, !.pending = p], FlushText(rd.text), "reading")
  \/ /\ l.type = "tool_result"
     /\ Iterate(l, [Known EXCEPT !.pending = Without(@, l.id)],
                OnResult(rd.pending, l.id, n), "reading")

(* run_opencode_inner: it breaks once every step it saw begin has ended.   *)
(* Every line carries the session id.                                      *)
BreaksOnStepFinish(r) == r.finished /\ r.steps <= 0

OpencodeIterate(l, r, evs) ==
  Iterate(l, r, evs, IF BreaksOnStepFinish(r) THEN "flush" ELSE "reading")

OpencodeKnown == [Known EXCEPT !.sid = "s"]

OpencodeLine(l, n) ==
  \/ /\ l.type = "step_start"
     /\ OpencodeIterate(l, [OpencodeKnown EXCEPT !.steps = @ + 1], <<>>)
  \/ /\ l.type = "step_finish"
     /\ OpencodeIterate(l, [OpencodeKnown EXCEPT !.steps = @ - 1, !.finished = TRUE], <<>>)
  \/ /\ l.type = "text"
     /\ OpencodeIterate(l, OpencodeKnown, <<Ev("Text", <<n>>, "")>>)
  \/ /\ l.type = "tool_use"
     /\ OpencodeIterate(l, OpencodeKnown, <<Ev("Tool", <<n>>, ToolOf[l.id])>>)
  \/ /\ l.type = "unknown"
     /\ Iterate(l, [rd EXCEPT !.sid = "s"], <<>>, "reading")

(* run_claude_prompt_inner: the text is kept for the end.                  *)
ClaudeLine(l, n) ==
  \/ /\ l.type = "text"
     /\ Iterate(l, [rd EXCEPT !.text = Append(@, n)], <<>>, "reading")
  \/ /\ l.type = "tool"
     /\ Iterate(l, rd, <<Ev("Tool", <<n>>, ToolOf[l.id])>>, "reading")
  \/ /\ l.type = "write"
     /\ Iterate(l, [rd EXCEPT !.files = @ \union {n}], <<Ev("Tool", <<n>>, "Write")>>, "reading")
  \/ /\ l.type = "result"
     /\ \E evs \in {<<>>} \union
                 (IF schema \in {"hook", "plain"} THEN {<<Ev("Structured", <<>>, "")>>} ELSE {}) :
          Iterate(l, [rd EXCEPT !.sid = "s"], evs, "reading")
  \/ /\ l.type = "retries" /\ schema \in {"hook", "plain"}
     /\ Iterate(l, [rd EXCEPT !.sid = "s"], <<Err>>, "reading")
  \/ /\ l.type = "parse error"
     /\ Iterate(l, rd, <<>>, "reading")
  \/ /\ l.type = "io error"
     /\ Iterate(l, rd, <<Err>>, "flush")

ReadLine ==
  /\ task = "reading" /\ Len(log) < MaxLines[kind]
  /\ LET n == Len(log) + 1 IN
       \/ /\ kind = "codex"
          /\ \E l \in CodexLines : CodexLine(l, n) \/ CodexCompleted(l)
       \/ /\ kind = "gemini"
          /\ \E l \in GeminiLines : GeminiLine(l, n) \/ GeminiTool(l, n)
       \/ /\ kind = "opencode"
          /\ \E l \in OpencodeLines : OpencodeLine(l, n)
       \/ /\ kind = "claude"
          /\ \E l \in ClaudeLines : ClaudeLine(l, n)
  /\ UNCHANGED <<kind, schema, child, unread, temps, open>>

(* The first two silent seconds of the stream are shown as thinking.       *)
Thinking ==
  /\ task = "reading" /\ kind = "claude" /\ ~rd.thinking
  /\ rd' = [rd EXCEPT !.thinking = TRUE]
  /\ sent' = Append(sent, Ev("Tool", <<>>, "Thinking"))
  /\ UNCHANGED <<kind, schema, task, child, log, unread, temps, open>>

(* Mutant: the temporary files go when the stream ends.                    *)
EndOfStreamCleans ==
  /\ task = "reading"
  /\ task' = "flush" /\ rd' = [rd EXCEPT !.closed = TRUE] /\ temps' = {}
  /\ UNCHANGED <<kind, schema, child, log, unread, sent, open>>

------------------------------------------------------------------------------
(* The end of the stream.                                                  *)
EndOfStream ==
  /\ task = "reading"
  /\ task' = "flush" /\ rd' = [rd EXCEPT !.closed = TRUE]
  /\ UNCHANGED <<kind, schema, child, log, unread, sent, temps, open>>

(* stdout cannot be read.                                                  *)
ReadError ==
  /\ task = "reading" /\ kind # "claude"
  /\ sent' = Append(sent, Err)
  /\ task' = "flush"
  /\ UNCHANGED <<kind, schema, child, rd, log, unread, temps, open>>

(* Mutant: the clock starts with the first line.                           *)
TimeoutAfterLine ==
  /\ task = "reading" /\ kind # "claude" /\ rd.recognized
  /\ sent' = Append(sent, Err)
  /\ child' = IF child = "running" THEN "failed" ELSE child
  /\ task' = "flush"
  /\ UNCHANGED <<kind, schema, rd, log, unread, temps, open>>

(* Five silent minutes: the error is sent before the child is killed.      *)
Timeout ==
  /\ task = "reading" /\ kind # "claude"
  /\ sent' = Append(sent, Err)
  /\ child' = IF child = "running" THEN "failed" ELSE child
  /\ task' = "flush"
  /\ UNCHANGED <<kind, schema, rd, log, unread, temps, open>>

(* Mutant: only the calls are flushed.                                     *)
FlushCalls ==
  /\ task = "flush" /\ kind # "claude"
  /\ \E calls \in FlushPending(rd.pending) : sent' = sent \o calls
  /\ rd' = [rd EXCEPT !.text = <<>>, !.pending = {}]
  /\ task' = "wait"
  /\ UNCHANGED <<kind, schema, child, log, unread, temps, open>>

(* What the loop leaves behind, the text before the calls; the text of a   *)
(* structured codex turn is left behind for good.                          *)
Flush ==
  /\ task = "flush" /\ kind # "claude"
  /\ \E calls \in FlushPending(rd.pending) :
       sent' = sent \o (IF kind = "gemini" THEN FlushText(rd.text) ELSE <<>>) \o calls
  /\ rd' = [rd EXCEPT !.text = <<>>, !.pending = {}]
  /\ task' = "wait"
  /\ UNCHANGED <<kind, schema, child, log, unread, temps, open>>

(* What went wrong, once: what the stream said, or the exit status.        *)
Fatal == IF rd.fatal THEN <<Err>> ELSE <<>>
ExitError == IF child = "failed" /\ ~rd.fatal THEN <<Err>> ELSE <<>>

(* A word about a turn in which nothing was recognized.                    *)
NoContent == IF rd.recognized THEN <<>> ELSE <<Ev("Text", <<>>, "")>>

(* child.wait, without a timeout.  Its stderr is read to the end, which    *)
(* comes with the last process that has the pipe: one the child left       *)
(* behind may hold it.                                                     *)
Reap ==
  /\ task = "wait" /\ child # "running"
  /\ sent' = sent \o Fatal
  /\ task' \in {"stderr", "held"}
  /\ UNCHANGED <<kind, schema, child, rd, log, unread, temps, open>>

(* collect_stderr, without a timeout either, is over; Done ends the stream. *)
CollectStderr ==
  /\ task = "stderr"
  /\ sent' = sent \o ExitError \o NoContent \o <<Done(rd.sid)>>
  /\ task' = "guard"
  /\ UNCHANGED <<kind, schema, child, rd, log, unread, temps, open>>

(* The process that held the pipe ends.                                    *)
PipeCloses ==
  /\ task = "held" /\ task' = "stderr"
  /\ UNCHANGED <<kind, schema, child, rd, log, unread, sent, temps, open>>

(* The files written that can be delivered: not too large, not sensitive,  *)
(* still there; in the order in which they were written.                   *)
InOrder(S) ==
  {row \in [1..Cardinality(S) -> S] : \A i, j \in DOMAIN row : i < j => row[i] < row[j]}

Delivered(files) == UNION {InOrder(S) : S \in SUBSET files}

(* claude drains the stream for at most 5 seconds, then sends the text,    *)
(* the files and Done.                                                     *)
Conclude ==
  /\ task = "flush" /\ kind = "claude"
  /\ \E fs \in Delivered(rd.files) :
       sent' = sent \o FlushText(rd.text) \o [i \in DOMAIN fs |-> Ev("File", <<fs[i]>>, "")]
                    \o <<Done(rd.sid)>>
  /\ task' = "guard"
  /\ UNCHANGED <<kind, schema, child, rd, log, unread, temps, open>>

(* Mutant: the guard reports the panic and does not end the stream.        *)
PanicReport == <<Err>>

(* The body panics: the child is killed as it is dropped, and the guard    *)
(* ends the stream in the body's place (claude's without a Done).          *)
PanicEvents == IF kind = "claude" THEN <<Err>> ELSE <<Err, Done("")>>

Panic ==
  /\ task \in {"spawn", "reading", "flush", "wait", "stderr"}
  /\ sent' = sent \o PanicEvents
  /\ child' = IF child = "running" THEN "failed" ELSE child
  /\ task' = "guard"
  /\ UNCHANGED <<kind, schema, rd, log, unread, temps, open>>

(* The run is announced as finished, then the temporary files go; with the *)
(* task ends the sender, and with that the stream.                         *)
Guard ==
  /\ task = "guard"
  /\ task' = "over"
  /\ open' = open \ {"task"} /\ temps' = {} /\ rd' = Fresh
  /\ UNCHANGED <<kind, schema, child, log, unread, sent>>

(* spawn_subprocess, or claude's query: a failure ends like a panic.       *)
Spawn ==
  /\ task = "spawn"
  /\ \/ /\ child' = "running" /\ task' = "reading" /\ UNCHANGED sent
     \/ /\ sent' = sent \o PanicEvents /\ task' = "guard" /\ UNCHANGED child
  /\ UNCHANGED <<kind, schema, rd, log, unread, temps, open>>

(* run_subcommand: one text or one error, within 30 seconds.               *)
Subcommand ==
  /\ task = "sub"
  /\ \E ev \in {Ev("Text", <<>>, ""), Err} : sent' = sent \o <<ev, Done("")>>
  /\ task' = "guard"
  /\ UNCHANGED <<kind, schema, child, rd, log, unread, temps, open>>

(* The child, which nobody bounds once its stream has ended.               *)
ChildExits ==
  /\ child = "running"
  /\ child' \in {"ok", "failed"}
  /\ UNCHANGED <<kind, schema, task, rd, log, unread, sent, temps, open>>

(* Nobody reads what it prints once the loop has broken at a line.         *)
PrintUnread ==
  /\ child = "running" /\ kind # "claude" /\ task \in {"flush", "wait"}
  /\ ~rd.closed /\ ~unread
  /\ unread' = TRUE
  /\ UNCHANGED <<kind, schema, task, child, rd, log, sent, temps, open>>

------------------------------------------------------------------------------
(* run_prompt.  What a back end cannot do is refused before a task exists: *)
(* codex takes no attachment but images (validate_attachments), and a      *)
(* schema that is registered, or given in place or in a file               *)
(* (handle_schema).                                                        *)
CodexRefuses(s, a) == a = "file" \/ s = "bad"
GeminiRefuses(s, a) == a # "none" \/ s # "none"
OpencodeRefuses(s) == s # "none"

Refused(k, s, a) ==
  \/ k = "codex" /\ CodexRefuses(s, a)
  \/ k = "gemini" /\ GeminiRefuses(s, a)
  \/ k = "opencode" /\ OpencodeRefuses(s)

(* claude looks the schema up in its task, and ends without a Done.        *)
UnknownSchema(k, s) == k = "claude" /\ s = "bad"

TempsOf(k, s, a) ==
  (IF a = "none" THEN {} ELSE {"attachment"})
    \union (IF k = "codex" /\ s \in {"hook", "plain"} THEN {"schema"} ELSE {})

RunPrompt(k, s, a) ==
  /\ kind' = k /\ schema' = s
  /\ rd' = Fresh /\ log' = <<>> /\ unread' = FALSE /\ child' = "none"
  /\ IF Refused(k, s, a)
     THEN /\ sent' = <<Err, Done("")>> /\ task' = "over" /\ open' = {"turn"}
          /\ temps' = TempsOf(k, "none", a)
     ELSE /\ sent' = IF UnknownSchema(k, s) THEN <<Ev("Text", <<>>, "")>> ELSE <<>>
          /\ task' = IF UnknownSchema(k, s) THEN "guard" ELSE "spawn"
          /\ open' = IF k = "claude" THEN {"turn"} ELSE {"task", "turn"}
          /\ temps' = TempsOf(k, s, a)

(* The passthrough of a harmless subcommand (not for claude).              *)
RunSubcommand(k) ==
  /\ k # "claude"
  /\ kind' = k /\ schema' = "none" /\ rd' = Fresh /\ log' = <<>> /\ unread' = FALSE
  /\ child' = "none" /\ sent' = <<>> /\ task' = "sub" /\ open' = {} /\ temps' = {}

TaskNext ==
  \/ ReadLine \/ Thinking \/ EndOfStream \/ ReadError \/ Timeout \/ Flush \/ Reap \/ CollectStderr
  \/ PipeCloses \/ Conclude \/ Panic \/ Guard \/ Spawn \/ Subcommand \/ ChildExits
  \/ PrintUnread
==============================================================================
