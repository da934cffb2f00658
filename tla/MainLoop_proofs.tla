---------------------------- MODULE MainLoop_proofs ----------------------------
(***************************************************************************)
(* What the main loop does with one command: a harness turn (HarnessTurn), *)
(* the commands on terminal sessions (Sessions) and the choice of the      *)
(* conversation a prompt goes to (HarnessSessions), for every set of       *)
(* tools, lines, sessions, names and conversations, and every limit.       *)
(*                                                                         *)
(*   TurnInv  the task and its stream: a stream that has not ended has no  *)
(*            Done, one that has ends with it (Ends), a child runs within  *)
(*            its task (Children), and a driver that saw the Done, or the  *)
(*            end, is behind a task that is over (Hears).                  *)
(*   ChatInv  the driver and the chat: what was said and what the batch    *)
(*            holds are rows in the order of the events, each count is of  *)
(*            calls behind it, and every event taken is in one of them or  *)
(*            is like the call before (Chat).                              *)
(*   ToldInv  the answer: every text printed is in an event, or in the     *)
(*            locals of the read loop and on its way (TextsKept), every    *)
(*            call is in one event at most for each of its starts, or      *)
(*            waits to be paired (Matched), and a driver that goes on has  *)
(*            taken no error (Heeded).                                     *)
(*   TermInv  the sessions: what a pane shows, what was told of it and     *)
(*            where its anchor is (Panes).                                 *)
(*   RouteInv the conversations: every entry of the index, and every       *)
(*            memory of a back end, is of a conversation that was begun    *)
(*            there and by that harness (IndexTrue, StoreTrue), and the    *)
(*            sessions used last are the end of the index (EndsWith).      *)
(***************************************************************************)
EXTENDS HarnessTurn, Sessions, HarnessSessions, FiniteSetTheorems, TLAPS

Kind == {"Error", "Done", "Text", "Tool", "Structured", "File"}
Args == {"", "s", "Write", "Thinking"} \union {ToolOf[id] : id \in ToolIds}
Events == {e \in [type : Kind, lines : Seq(Nat), arg : Args] : e.type = "Tool" => e.arg # ""}
Uses == [id : ToolIds, line : Nat]

Locals ==
  [sid : {"", "s"}, recognized : BOOLEAN, fatal : BOOLEAN, pending : SUBSET Uses,
   text : Seq(Nat), steps : Int, finished : BOOLEAN, files : SUBSET Nat,
   thinking : BOOLEAN, closed : BOOLEAN]

Finite(r) == IsFiniteSet(r.pending) /\ IsFiniteSet(r.files)

Ended == {"guard", "over"}

Types ==
  /\ kind \in Kinds
  /\ task \in {"idle", "spawn", "sub", "reading", "flush", "wait", "stderr", "held"} \union Ended
  /\ child \in {"none", "running", "ok", "failed"}
  /\ rd \in Locals /\ Finite(rd)
  /\ log \in Seq(CodexLines \union GeminiLines \union OpencodeLines \union ClaudeLines)
  /\ sent \in Seq(Events)

NoDone(s) == \A i \in 1..Len(s) : s[i].type # "Done"

(* A stream that is over: a Done is at its end, where no tool call is.     *)
LastDone(s) ==
  /\ \A i \in 1..Len(s) : s[i].type = "Done" => i = Len(s)
  /\ Len(s) # 0 /\ s[Len(s)].type # "Tool"

SomeDone(s) == \E i \in 1..Len(s) : s[i].type = "Done"

------------------------------------------------------------------------------
LEMMA NoEvents == <<>> \in Seq(Events) /\ NoDone(<<>>) /\ <<>> \in Seq(Nat)
  BY DEF NoDone

LEMMA EventIs ==
  ASSUME NEW t \in Kind, NEW ls \in Seq(Nat), NEW a \in Args, t = "Tool" => a # ""
  PROVE  Ev(t, ls, a) \in Events /\ Ev(t, ls, a).type = t
  BY DEF Ev, Events

LEMMA OneOnly ==
  ASSUME NEW e \in Events, e.type # "Done"
  PROVE  <<e>> \in Seq(Events) /\ NoDone(<<e>>)
<1>1. <<e>> \in Seq(Events) /\ Len(<<e>>) = 1 /\ <<e>>[1] = e
  OBVIOUS
<1> QED  BY <1>1 DEF NoDone

LEMMA OneEvent ==
  ASSUME NEW t \in Kind \ {"Done"}, NEW ls \in Seq(Nat), NEW a \in Args, t = "Tool" => a # ""
  PROVE  <<Ev(t, ls, a)>> \in Seq(Events) /\ NoDone(<<Ev(t, ls, a)>>)
<1>1. t \in Kind /\ t # "Done"
  OBVIOUS
<1>2. Ev(t, ls, a) \in Events /\ Ev(t, ls, a).type = t
  BY <1>1, EventIs
<1>3. Ev(t, ls, a).type # "Done"
  BY <1>1, <1>2
<1> QED  BY <1>2, <1>3, OneOnly

(* One event ends a stream, unless it is a tool call.                      *)
LEMMA Single ==
  ASSUME NEW e \in Events, e.type # "Tool"
  PROVE  <<e>> \in Seq(Events) /\ LastDone(<<e>>)
<1>1. <<e>> \in Seq(Events) /\ Len(<<e>>) = 1 /\ <<e>>[1] = e
  OBVIOUS
<1> QED  BY <1>1 DEF LastDone

LEMMA OneLine ==
  ASSUME NEW n \in Nat
  PROVE  <<n>> \in Seq(Nat)
OBVIOUS

LEMMA LineMore ==
  ASSUME NEW s \in Seq(Nat), NEW n \in Nat
  PROVE  Append(s, n) \in Seq(Nat)
OBVIOUS

LEMMA Joined ==
  ASSUME NEW r \in Seq(Events), NEW s \in Seq(Events)
  PROVE  /\ r \o s \in Seq(Events) /\ Len(r \o s) = Len(r) + Len(s)
         /\ \A i \in 1..Len(r) : (r \o s)[i] = r[i]
         /\ \A i \in 1..Len(s) : (r \o s)[Len(r) + i] = s[i]
         /\ \A i \in 1..Len(r \o s) : i \in 1..Len(r) \/ i - Len(r) \in 1..Len(s)
OBVIOUS

LEMMA NoneJoined ==
  ASSUME NEW r \in Seq(Events), NEW s \in Seq(Events), NoDone(r)
  PROVE  /\ r \o s \in Seq(Events)
         /\ NoDone(s) => NoDone(r \o s)
         /\ LastDone(s) => LastDone(r \o s)
         /\ SomeDone(s) => SomeDone(r \o s)
<1>1. /\ r \o s \in Seq(Events) /\ Len(r) \in Nat /\ Len(s) \in Nat /\ Len(r \o s) = Len(r) + Len(s)
      /\ \A i \in 1..Len(r) : (r \o s)[i] = r[i]
      /\ \A i \in 1..Len(s) : (r \o s)[Len(r) + i] = s[i]
  BY Joined
<1>2. ASSUME NEW i \in 1..Len(r \o s), (r \o s)[i].type = "Done"
      PROVE  i - Len(r) \in 1..Len(s) /\ s[i - Len(r)].type = "Done"
  <2>1. i \notin 1..Len(r)
    BY <1>1, <1>2 DEF NoDone
  <2>2. i - Len(r) \in 1..Len(s)
    BY <1>1, <2>1
  <2>3. (r \o s)[Len(r) + (i - Len(r))] = s[i - Len(r)]
    BY <1>1, <2>2
  <2>4. Len(r) + (i - Len(r)) = i
    BY <1>1
  <2> QED  BY <1>2, <2>2, <2>3, <2>4
<1>3. NoDone(s) => NoDone(r \o s)
  BY <1>2 DEF NoDone
<1>4. LastDone(s) => LastDone(r \o s)
  <2>1. SUFFICES ASSUME LastDone(s) PROVE LastDone(r \o s)
    OBVIOUS
  <2>2. ASSUME NEW i \in 1..Len(r \o s), (r \o s)[i].type = "Done"
        PROVE  i = Len(r \o s)
    <3>1. \A k \in 1..Len(s) : s[k].type = "Done" => k = Len(s)
      BY <2>1 DEF LastDone
    <3>2. i - Len(r) = Len(s)
      BY <1>2, <2>2, <3>1
    <3>3. Len(r \o s) = Len(r) + Len(s) /\ Len(r) \in Nat /\ Len(s) \in Nat
          /\ i \in Int
      BY <1>1
    <3> QED  BY ONLY <3>2, <3>3
  <2>3. Len(s) \in 1..Len(s)
    BY <1>1, <2>1 DEF LastDone
  <2>4. Len(r \o s) # 0 /\ (r \o s)[Len(r \o s)] = s[Len(s)]
    BY <1>1, <2>3
  <2> QED  BY <2>1, <2>2, <2>4 DEF LastDone
<1>5. SomeDone(s) => SomeDone(r \o s)
  <2> SUFFICES ASSUME NEW i \in 1..Len(s), s[i].type = "Done" PROVE SomeDone(r \o s)
    BY DEF SomeDone
  <2>1. Len(r) + i \in 1..Len(r \o s) /\ (r \o s)[Len(r) + i].type = "Done"
    BY <1>1
  <2> QED  BY <2>1 DEF SomeDone
<1> QED  BY <1>1, <1>3, <1>4, <1>5

(* What is said of a text, of the calls that are left, and of the files.   *)
LEMMA TextSent ==
  ASSUME NEW text \in Seq(Nat)
  PROVE  FlushText(text) \in Seq(Events) /\ NoDone(FlushText(text))
<1>1. CASE text = <<>>
  BY <1>1, NoEvents DEF FlushText
<1>2. CASE text # <<>>
  <2>1. "" \in Args /\ "Text" \in Kind \ {"Done"}
    BY DEF Args, Kind
  <2> QED  BY <1>2, <2>1, OneEvent DEF FlushText
<1> QED  BY <1>1, <1>2

LEMMA CallsSent ==
  ASSUME NEW P \in SUBSET Uses, IsFiniteSet(P), NEW evs \in FlushPending(P)
  PROVE  evs \in Seq(Events) /\ NoDone(evs)
<1>1. PICK s \in SetToSeqs(P) :
        evs = [i \in DOMAIN s |-> Ev("Tool", <<s[i].line>>, ToolOf[s[i].id])]
  BY DEF FlushPending
<1>2. PICK n \in Nat : n = Cardinality(P)
  BY FS_CardinalityType
<1>3. s \in [1..n -> P]
  BY <1>1, <1>2 DEF SetToSeqs
<1>4. ASSUME NEW i \in 1..n
      PROVE  evs[i] \in Events /\ evs[i].type # "Done"
  <2>1. s[i].line \in Nat /\ s[i].id \in ToolIds
    BY <1>3 DEF Uses
  <2>2. ToolOf[s[i].id] \in Args /\ ToolOf[s[i].id] # ""
    BY <2>1, HarnessBounds DEF Args
  <2>3. evs[i] = Ev("Tool", <<s[i].line>>, ToolOf[s[i].id])
    BY <1>1, <1>3
  <2>4. <<s[i].line>> \in Seq(Nat)
    BY <2>1, OneLine
  <2> QED  BY <2>2, <2>3, <2>4, EventIs DEF Kind
<1>5. DOMAIN evs = 1..n /\ evs = [i \in 1..n |-> evs[i]]
  BY <1>1, <1>3
<1>6. evs \in Seq(Events) /\ Len(evs) = n
  BY <1>2, <1>4, <1>5
<1> QED  BY <1>4, <1>6 DEF NoDone

LEMMA FilesSent ==
  ASSUME NEW F \in SUBSET Nat, IsFiniteSet(F), NEW fs \in Delivered(F)
  PROVE  /\ [i \in DOMAIN fs |-> Ev("File", <<fs[i]>>, "")] \in Seq(Events)
         /\ NoDone([i \in DOMAIN fs |-> Ev("File", <<fs[i]>>, "")])
<1> DEFINE evs == [i \in DOMAIN fs |-> Ev("File", <<fs[i]>>, "")]
<1>1. PICK S \in SUBSET F : fs \in InOrder(S)
  BY DEF Delivered
<1>2. PICK n \in Nat : n = Cardinality(S)
  BY <1>1, FS_CardinalityType, FS_Subset
<1>3. fs \in [1..n -> S]
  BY <1>1, <1>2 DEF InOrder
<1>4. ASSUME NEW i \in 1..n
      PROVE  evs[i] \in Events /\ evs[i].type # "Done"
  <2>1. fs[i] \in Nat
    BY <1>3
  <2>2. <<fs[i]>> \in Seq(Nat)
    BY <2>1, OneLine
  <2>3. evs[i] = Ev("File", <<fs[i]>>, "")
    BY <1>3
  <2>4. "" \in Args
    BY DEF Args
  <2> QED  BY <2>2, <2>3, <2>4, EventIs DEF Kind
<1>5. DOMAIN evs = 1..n /\ evs = [i \in 1..n |-> evs[i]]
  BY <1>3
<1> HIDE DEF evs
<1>6. evs \in Seq(Events) /\ Len(evs) = n
  BY <1>2, <1>4, <1>5
<1>7. NoDone(evs)
  BY <1>4, <1>6 DEF NoDone
<1> QED  BY <1>6, <1>7 DEF evs

------------------------------------------------------------------------------
(* The read loop.                                                          *)
AnyLine == CodexLines \union GeminiLines \union OpencodeLines \union ClaudeLines

(* One iteration sends what is no Done.                                    *)
Reads ==
  \E r \in Locals, evs \in Seq(Events), l \in AnyLine, to \in {"reading", "flush"} :
    Finite(r) /\ NoDone(evs) /\ Iterate(l, r, evs, to)

LEMMA Uttered ==
  ASSUME NEW n \in Nat, NEW t \in {"Text", "Tool"}, NEW a \in Args, t = "Tool" => a # ""
  PROVE  <<Ev(t, <<n>>, a)>> \in Seq(Events) /\ NoDone(<<Ev(t, <<n>>, a)>>)
  BY OneLine, OneEvent DEF Kind

LEMMA Errors ==
  <<Err>> \in Seq(Events) /\ NoDone(<<Err>>)
<1>1. "" \in Args /\ "Error" \in Kind \ {"Done"} /\ <<>> \in Seq(Nat)
  BY DEF Args, Kind
<1> QED  BY <1>1, OneEvent DEF Err

LEMMA Results ==
  ASSUME NEW P \in SUBSET Uses, NEW id \in ToolIds, NEW n \in Nat
  PROVE  OnResult(P, id, n) \in Seq(Events) /\ NoDone(OnResult(P, id, n))
<1>1. ToolOf[id] \in Args /\ ToolOf[id] # ""
  BY HarnessBounds DEF Args
<1>2. <<Ev("Tool", <<n>>, ToolOf[id])>> \in Seq(Events) /\ NoDone(<<Ev("Tool", <<n>>, ToolOf[id])>>)
  BY <1>1, Uttered
<1> QED  BY <1>2, NoEvents DEF OnResult

LEMMA Pairing ==
  ASSUME NEW P \in SUBSET Uses, IsFiniteSet(P), NEW id \in ToolIds, NEW n \in Nat
  PROVE  /\ Without(P, id) \in SUBSET Uses /\ IsFiniteSet(Without(P, id))
         /\ \A Q \in OnUse(P, id, n) : Q \in SUBSET Uses /\ IsFiniteSet(Q)
<1>1. \A S \in SUBSET P : S \in SUBSET Uses /\ IsFiniteSet(S)
  BY FS_Subset
<1>2. Without(P, id) \in SUBSET P
  BY DEF Without
<1>3. ASSUME NEW Q \in OnUse(P, id, n)
      PROVE  Q \in SUBSET Uses /\ IsFiniteSet(Q)
  <2>1. PICK k \in SUBSET P : Q = k \union {[id |-> id, line |-> n]}
    BY <1>2 DEF OnUse
  <2>2. [id |-> id, line |-> n] \in Uses
    BY DEF Uses
  <2> QED  BY <1>1, <2>1, <2>2, FS_AddElement
<1> QED  BY <1>1, <1>2, <1>3

LEMMA Reading ==
  ASSUME Types, task = "reading", ReadLine
  PROVE  Reads
<1> DEFINE n == Len(log) + 1
<1>1. n \in Nat /\ rd \in Locals /\ Finite(rd)
  BY DEF Types
<1>2. Known \in Locals /\ Finite(Known) /\ Known.text = rd.text /\ Known.pending = rd.pending
  BY <1>1 DEF Known, Locals, Finite
<1>3. rd.text \in Seq(Nat) /\ rd.pending \in SUBSET Uses /\ rd.files \in SUBSET Nat
      /\ IsFiniteSet(rd.pending) /\ IsFiniteSet(rd.files)
  BY <1>1 DEF Locals, Finite
<1>4. Append(rd.text, n) \in Seq(Nat) /\ <<n>> \in Seq(Nat)
  BY <1>1, <1>3, LineMore, OneLine
<1>5. "" \in Args /\ "Write" \in Args
  BY DEF Args
<1>6. <<Ev("Text", <<n>>, "")>> \in Seq(Events) /\ NoDone(<<Ev("Text", <<n>>, "")>>)
  BY <1>1, <1>5, Uttered
<1>7. \A id \in ToolIds : /\ <<Ev("Tool", <<n>>, ToolOf[id])>> \in Seq(Events)
                          /\ NoDone(<<Ev("Tool", <<n>>, ToolOf[id])>>)
  BY <1>1, Uttered, HarnessBounds DEF Args
<1>8. <<Ev("Tool", <<n>>, "Write")>> \in Seq(Events) /\ NoDone(<<Ev("Tool", <<n>>, "Write")>>)
  BY <1>1, <1>5, Uttered
<1>9. ASSUME NEW text \in Seq(Nat)
      PROVE  /\ [Known EXCEPT !.text = text] \in Locals
             /\ Finite([Known EXCEPT !.text = text])
  BY <1>2 DEF Locals, Finite
<1>10. ASSUME NEW P \in SUBSET Uses, IsFiniteSet(P)
       PROVE  /\ [Known EXCEPT !.pending = P] \in Locals
              /\ Finite([Known EXCEPT !.pending = P])
  BY <1>2, <1>10 DEF Locals, Finite
<1> HIDE DEF n
<1>11. ASSUME NEW l \in AnyLine, NEW r \in Locals, Finite(r), NEW evs \in Seq(Events), NoDone(evs),
              NEW to \in {"reading", "flush"}, Iterate(l, r, evs, to)
       PROVE  Reads
  BY <1>11 DEF Reads
<1>12. CASE kind = "codex"
  <2>1. PICK l \in CodexLines : CodexLine(l, n) \/ CodexCompleted(l)
    BY <1>12 DEF ReadLine, n
  <2>2. l \in AnyLine /\ (l.type \in {"item.started", "item.completed"} => l.id \in ToolIds)
    BY <2>1 DEF AnyLine, CodexLines, Line, ToolLine
  <2>3. CASE l.type = "thread.started" /\ Iterate(l, [Known EXCEPT !.sid = "s"], <<>>, "reading")
    <3>1. [Known EXCEPT !.sid = "s"] \in Locals /\ Finite([Known EXCEPT !.sid = "s"])
      BY <1>2 DEF Locals, Finite
    <3> QED  BY <1>11, <2>2, <2>3, <3>1, NoEvents
  <2>4. CASE l.type = "unknown" /\ Iterate(l, rd, <<>>, "reading")
    BY <1>1, <1>11, <2>2, <2>4, NoEvents
  <2>5. CASE l.type = "agent_message" /\ Structured
             /\ Iterate(l, [Known EXCEPT !.text = Append(@, n)], <<>>, "reading")
    <3>1. [Known EXCEPT !.text = Append(@, n)] = [Known EXCEPT !.text = Append(rd.text, n)]
      BY <1>2 DEF Locals
    <3> QED  BY <1>4, <1>9, <1>11, <2>2, <2>5, <3>1, NoEvents
  <2>6. CASE l.type = "agent_message" /\ Iterate(l, Known, <<Ev("Text", <<n>>, "")>>, "reading")
    BY <1>2, <1>6, <1>11, <2>2, <2>6
  <2>7. CASE l.type = "error" /\ Iterate(l, Known, <<Err>>, "reading")
    BY <1>2, <1>11, <2>2, <2>7, Errors
  <2>8. CASE l.type = "item.started" /\ \E p \in OnUse(rd.pending, l.id, n) :
               Iterate(l, [Known EXCEPT !.pending = p], <<>>, "reading")
    <3>1. PICK p \in OnUse(rd.pending, l.id, n) :
                 Iterate(l, [Known EXCEPT !.pending = p], <<>>, "reading")
      BY <2>8
    <3>2. p \in SUBSET Uses /\ IsFiniteSet(p)
      BY <1>1, <1>3, <2>2, <2>8, <3>1, Pairing
    <3> QED  BY <1>10, <1>11, <2>2, <3>1, <3>2, NoEvents
  <2>9. CASE l.type = "item.completed"
             /\ Iterate(l, [Known EXCEPT !.pending = Without(@, l.id)],
                        OnResult(rd.pending, l.id, n), "reading")
    <3>1. Without(rd.pending, l.id) \in SUBSET Uses /\ IsFiniteSet(Without(rd.pending, l.id))
      BY <1>1, <1>3, <2>2, <2>9, Pairing
    <3>2. [Known EXCEPT !.pending = Without(@, l.id)]
            = [Known EXCEPT !.pending = Without(rd.pending, l.id)]
      BY <1>2 DEF Locals
    <3>3. OnResult(rd.pending, l.id, n) \in Seq(Events) /\ NoDone(OnResult(rd.pending, l.id, n))
      BY <1>1, <1>3, <2>2, <2>9, Results
    <3> QED  BY <1>10, <1>11, <2>2, <2>9, <3>1, <3>2, <3>3
  <2>10. CASE l.type = "turn.failed" /\ Iterate(l, [Known EXCEPT !.fatal = TRUE], <<>>, "flush")
    <3>1. [Known EXCEPT !.fatal = TRUE] \in Locals /\ Finite([Known EXCEPT !.fatal = TRUE])
      BY <1>2 DEF Locals, Finite
    <3> QED  BY <1>11, <2>2, <2>10, <3>1, NoEvents
  <2>11. CASE CodexCompleted(l)
    <3>1. PICK evs \in {<<>>, <<Ev("Text", <<>>, "")>>, <<Ev("Structured", rd.text, "")>>,
                        <<Err>>} :
                 Iterate(l, Known, evs, "flush")
      BY <2>11 DEF CodexCompleted
    <3>2. evs \in Seq(Events) /\ NoDone(evs)
      BY <1>3, <1>5, <3>1, NoEvents, OneEvent, Errors DEF Kind
    <3> QED  BY <1>2, <1>11, <2>2, <3>1, <3>2
  <2> QED  BY <2>1, <2>3, <2>4, <2>5, <2>6, <2>7, <2>8, <2>9, <2>10, <2>11 DEF CodexLine
<1>13. CASE kind = "gemini"
  <2>1. PICK l \in GeminiLines : GeminiLine(l, n) \/ GeminiTool(l, n)
    BY <1>13 DEF ReadLine, n
  <2>2. l \in AnyLine /\ (l.type \in {"tool_use", "tool_result"} => l.id \in ToolIds)
    BY <2>1 DEF AnyLine, GeminiLines, Line, ToolLine
  <2>3. CASE l.type = "init" /\ Iterate(l, [Known EXCEPT !.sid = "s"], <<>>, "reading")
    <3>1. [Known EXCEPT !.sid = "s"] \in Locals /\ Finite([Known EXCEPT !.sid = "s"])
      BY <1>2 DEF Locals, Finite
    <3> QED  BY <1>11, <2>2, <2>3, <3>1, NoEvents
  <2>4. CASE \E r \in {rd, Known} : Iterate(l, r, <<>>, "reading")
    BY <1>1, <1>2, <1>11, <2>2, <2>4, NoEvents
  <2>5. CASE Iterate(l, [Known EXCEPT !.fatal = TRUE], <<>>, "flush")
    <3>1. [Known EXCEPT !.fatal = TRUE] \in Locals /\ Finite([Known EXCEPT !.fatal = TRUE])
      BY <1>2 DEF Locals, Finite
    <3> QED  BY <1>11, <2>2, <2>5, <3>1, NoEvents
  <2>6. CASE Iterate(l, Known, <<>>, "flush")
    BY <1>2, <1>11, <2>2, <2>6, NoEvents
  <2>7. CASE \E text \in {<<>>, <<n>>, Append(rd.text, n)},
                evs \in {<<>>, FlushText(rd.text), FlushText(Append(rd.text, n)),
                         FlushText(rd.text) \o FlushText(<<n>>)} :
               Iterate(l, [Known EXCEPT !.text = text], evs, "reading")
    <3>1. PICK text \in {<<>>, <<n>>, Append(rd.text, n)},
               evs \in {<<>>, FlushText(rd.text), FlushText(Append(rd.text, n)),
                        FlushText(rd.text) \o FlushText(<<n>>)} :
                 Iterate(l, [Known EXCEPT !.text = text], evs, "reading")
      BY <2>7
    <3>2. text \in Seq(Nat)
      BY <1>4, <3>1, NoEvents
    <3>3. FlushText(rd.text) \o FlushText(<<n>>) \in Seq(Events)
          /\ NoDone(FlushText(rd.text) \o FlushText(<<n>>))
      BY <1>3, <1>4, TextSent, NoneJoined
    <3>4. evs \in Seq(Events) /\ NoDone(evs)
      BY <1>3, <1>4, <3>1, <3>3, TextSent, NoEvents
    <3> QED  BY <1>9, <1>11, <2>2, <3>1, <3>2, <3>4
  <2>8. CASE l.type = "tool_use" /\ \E p \in OnUse(rd.pending, l.id, n) :
          Iterate(l, [Known EXCEPT !.text = <<>>, !.pending = p], FlushText(rd.text), "reading")
    <3>1. PICK p \in OnUse(rd.pending, l.id, n) :
          Iterate(l, [Known EXCEPT !.text = <<>>, !.pending = p], FlushText(rd.text), "reading")
      BY <2>8
    <3>2. p \in SUBSET Uses /\ IsFiniteSet(p)
      BY <1>1, <1>3, <2>2, <2>8, <3>1, Pairing
    <3>3. /\ [Known EXCEPT !.text = <<>>, !.pending = p] \in Locals
          /\ Finite([Known EXCEPT !.text = <<>>, !.pending = p])
      BY <1>2, <3>2, NoEvents DEF Locals, Finite
    <3> QED  BY <1>3, <1>11, <2>2, <3>1, <3>3, TextSent
  <2>9. CASE l.type = "tool_result"
             /\ Iterate(l, [Known EXCEPT !.pending = Without(@, l.id)],
                        OnResult(rd.pending, l.id, n), "reading")
    <3>1. Without(rd.pending, l.id) \in SUBSET Uses /\ IsFiniteSet(Without(rd.pending, l.id))
      BY <1>1, <1>3, <2>2, <2>9, Pairing
    <3>2. [Known EXCEPT !.pending = Without(@, l.id)]
            = [Known EXCEPT !.pending = Without(rd.pending, l.id)]
      BY <1>2 DEF Locals
    <3>3. OnResult(rd.pending, l.id, n) \in Seq(Events) /\ NoDone(OnResult(rd.pending, l.id, n))
      BY <1>1, <1>3, <2>2, <2>9, Results
    <3> QED  BY <1>10, <1>11, <2>2, <2>9, <3>1, <3>2, <3>3
  <2>10. [Known EXCEPT !.text = Append(@, n)] = [Known EXCEPT !.text = Append(rd.text, n)]
    BY <1>2 DEF Locals
  <2> QED  BY <2>1, <2>3, <2>4, <2>5, <2>6, <2>7, <2>8, <2>9, <2>10 DEF GeminiLine, GeminiTool
<1>14. CASE kind = "opencode"
  <2>1. PICK l \in OpencodeLines : OpencodeLine(l, n)
    BY <1>14 DEF ReadLine, n
  <2>2. l \in AnyLine /\ (l.type = "tool_use" => l.id \in ToolIds)
    BY <2>1 DEF AnyLine, OpencodeLines, Line, ToolLine
  <2>3. OpencodeKnown \in Locals /\ Finite(OpencodeKnown)
    BY <1>2 DEF OpencodeKnown, Locals, Finite
  <2>4. CASE \E r \in Locals, evs \in Seq(Events) :
               Finite(r) /\ NoDone(evs) /\ OpencodeIterate(l, r, evs)
    BY <1>11, <2>2, <2>4 DEF OpencodeIterate
  <2>5. /\ [OpencodeKnown EXCEPT !.steps = @ + 1] \in Locals
        /\ [OpencodeKnown EXCEPT !.steps = @ - 1, !.finished = TRUE] \in Locals
        /\ [rd EXCEPT !.sid = "s"] \in Locals
    <3>1. \A k \in Int : /\ [OpencodeKnown EXCEPT !.steps = k] \in Locals
                         /\ [OpencodeKnown EXCEPT !.steps = k, !.finished = TRUE] \in Locals
      BY <2>3 DEF Locals
    <3>2. PICK k \in Int : k = OpencodeKnown.steps
      BY <2>3 DEF Locals
    <3>3. k + 1 \in Int /\ k - 1 \in Int
      BY <3>2
    <3>4. /\ [OpencodeKnown EXCEPT !.steps = @ + 1] = [OpencodeKnown EXCEPT !.steps = k + 1]
          /\ [OpencodeKnown EXCEPT !.steps = @ - 1, !.finished = TRUE]
               = [OpencodeKnown EXCEPT !.steps = k - 1, !.finished = TRUE]
      BY <2>3, <3>2 DEF Locals
    <3>5. [rd EXCEPT !.sid = "s"] \in Locals
      BY <1>1 DEF Locals
    <3> QED  BY <3>1, <3>3, <3>4, <3>5
  <2>6. /\ Finite([OpencodeKnown EXCEPT !.steps = @ + 1])
        /\ Finite([OpencodeKnown EXCEPT !.steps = @ - 1, !.finished = TRUE])
        /\ Finite([rd EXCEPT !.sid = "s"])
    BY <1>1, <2>3 DEF Locals, Finite
  <2>7. CASE l.type = "unknown" /\ Iterate(l, [rd EXCEPT !.sid = "s"], <<>>, "reading")
    BY <1>11, <2>2, <2>5, <2>6, <2>7, NoEvents
  <2>8. CASE l.type = "tool_use"
             /\ OpencodeIterate(l, OpencodeKnown, <<Ev("Tool", <<n>>, ToolOf[l.id])>>)
    BY <1>7, <2>2, <2>3, <2>4, <2>8
  <2> QED  BY <1>6, <2>1, <2>3, <2>4, <2>5, <2>6, <2>7, <2>8, NoEvents DEF OpencodeLine
<1>15. CASE kind = "claude"
  <2>1. PICK l \in ClaudeLines : ClaudeLine(l, n)
    BY <1>15 DEF ReadLine, n
  <2>2. l \in AnyLine /\ (l.type = "tool" => l.id \in ToolIds)
    BY <2>1 DEF AnyLine, ClaudeLines, Line, ToolLine
  <2>3. CASE Iterate(l, [rd EXCEPT !.text = Append(@, n)], <<>>, "reading")
    <3>1. [rd EXCEPT !.text = Append(@, n)] \in Locals /\ Finite([rd EXCEPT !.text = Append(@, n)])
      BY <1>1, <1>4 DEF Locals, Finite
    <3> QED  BY <1>11, <2>2, <2>3, <3>1, NoEvents
  <2>4. CASE l.type = "tool" /\ Iterate(l, rd, <<Ev("Tool", <<n>>, ToolOf[l.id])>>, "reading")
    BY <1>1, <1>7, <1>11, <2>2, <2>4
  <2>5. CASE Iterate(l, [rd EXCEPT !.files = @ \union {n}],
                     <<Ev("Tool", <<n>>, "Write")>>, "reading")
    <3>1. IsFiniteSet(rd.files \union {n}) /\ rd.files \union {n} \in SUBSET Nat
      BY <1>1, <1>3, FS_AddElement
    <3>2. /\ [rd EXCEPT !.files = @ \union {n}] \in Locals
          /\ Finite([rd EXCEPT !.files = @ \union {n}])
      BY <1>1, <3>1 DEF Locals, Finite
    <3> QED  BY <1>8, <1>11, <2>2, <2>5, <3>2
  <2>6. CASE \E evs \in {<<>>, <<Ev("Structured", <<>>, "")>>, <<Err>>} :
               Iterate(l, [rd EXCEPT !.sid = "s"], evs, "reading")
    <3>1. PICK evs \in {<<>>, <<Ev("Structured", <<>>, "")>>, <<Err>>} :
               Iterate(l, [rd EXCEPT !.sid = "s"], evs, "reading")
      BY <2>6
    <3>2. evs \in Seq(Events) /\ NoDone(evs)
      BY <1>5, <3>1, NoEvents, OneEvent, Errors DEF Kind
    <3>3. [rd EXCEPT !.sid = "s"] \in Locals /\ Finite([rd EXCEPT !.sid = "s"])
      BY <1>1 DEF Locals, Finite
    <3> QED  BY <1>11, <2>2, <3>1, <3>2, <3>3
  <2>7. CASE Iterate(l, rd, <<>>, "reading")
    BY <1>1, <1>11, <2>2, <2>7, NoEvents
  <2>8. CASE Iterate(l, rd, <<Err>>, "flush")
    BY <1>1, <1>11, <2>2, <2>8, Errors
  <2> QED  BY <2>1, <2>3, <2>4, <2>5, <2>6, <2>7, <2>8 DEF ClaudeLine
<1> QED  BY <1>12, <1>13, <1>14, <1>15 DEF ReadLine

------------------------------------------------------------------------------
(* What a step of the task sends.                                          *)
Sends(evs) ==
  /\ evs \in Seq(Events) /\ sent' = sent \o evs
  /\ \/ task \notin Ended /\ task' \notin Ended /\ NoDone(evs)
     \/ /\ task \notin Ended /\ task' \in Ended
        /\ LastDone(evs) /\ (kind # "claude" => SomeDone(evs))
     \/ task \in Ended /\ task' \in Ended /\ evs = <<>>

(* A subprocess is started with the task, and has been waited for, or is   *)
(* killed, when it ends.                                                   *)
Children ==
  /\ task \in {"idle", "spawn", "sub"} => child = "none"
  /\ task \in {"stderr", "held"} => child # "running"
  /\ kind # "claude" /\ task \in Ended => child # "running"

Ends ==
  /\ task \notin Ended => NoDone(sent)
  /\ task \in Ended => LastDone(sent) /\ (kind # "claude" => SomeDone(sent))

LEMMA DoneLast ==
  ASSUME NEW a \in Args
  PROVE  /\ <<Done(a)>> \in Seq(Events) /\ LastDone(<<Done(a)>>) /\ SomeDone(<<Done(a)>>)
<1>1. Done(a) \in Events /\ Done(a).type = "Done"
  <2>1. "Done" \in Kind /\ ("Done" = "Tool" => a # "")
    BY DEF Kind
  <2> QED  BY <2>1, EventIs, NoEvents DEF Done
<1> HIDE DEF Done
<1>2. <<Done(a)>> \in Seq(Events) /\ Len(<<Done(a)>>) = 1 /\ <<Done(a)>>[1] = Done(a)
  BY <1>1
<1>3. LastDone(<<Done(a)>>)
  BY <1>1, Single
<1> QED  BY <1>1, <1>2, <1>3 DEF SomeDone

LEMMA Closing ==
  ASSUME NEW evs \in Seq(Events), NoDone(evs), NEW a \in Args
  PROVE  /\ evs \o <<Done(a)>> \in Seq(Events)
         /\ LastDone(evs \o <<Done(a)>>) /\ SomeDone(evs \o <<Done(a)>>)
  BY NoneJoined, DoneLast

(* Sequences with the same elements are the same.                          *)
LEMMA SeqEqual ==
  ASSUME NEW s \in Seq(Events), NEW t \in Seq(Events), Len(s) = Len(t),
         \A i \in 1..Len(s) : s[i] = t[i]
  PROVE  s = t
OBVIOUS

LEMMA TwoEvents ==
  ASSUME NEW a \in Events, NEW b \in Events
  PROVE  <<a>> \o <<b>> = <<a, b>>
<1>1. <<a>> \in Seq(Events) /\ <<b>> \in Seq(Events) /\ <<a, b>> \in Seq(Events)
  OBVIOUS
<1>2. /\ <<a>> \o <<b>> \in Seq(Events) /\ Len(<<a>> \o <<b>>) = 2
      /\ (<<a>> \o <<b>>)[1] = a /\ (<<a>> \o <<b>>)[2] = b
  BY <1>1
<1>3. \A i \in 1..2 : (<<a>> \o <<b>>)[i] = <<a, b>>[i]
  <2>1. \A i \in 1..2 : i = 1 \/ i = 2
    OBVIOUS
  <2> QED  BY <1>2, <2>1
<1>4. Len(<<a, b>>) = 2
  OBVIOUS
<1> QED  BY <1>1, <1>2, <1>3, <1>4, SeqEqual

LEMMA OneOf ==
  ASSUME NEW e, <<e>> \in Seq(Events)
  PROVE  e \in Events
<1>1. <<e>>[1] = e /\ 1 \in DOMAIN <<e>>
  OBVIOUS
<1> QED  BY <1>1

LEMMA Appended ==
  ASSUME NEW s \in Seq(Events), NEW e, <<e>> \in Seq(Events)
  PROVE  Append(s, e) = s \o <<e>>
<1>1. e \in Events
  BY OneOf
<1> QED  BY <1>1

LEMMA ConcatAssoc ==
  ASSUME NEW r \in Seq(Events), NEW s \in Seq(Events), NEW t \in Seq(Events)
  PROVE  (r \o s) \o t = r \o (s \o t)
OBVIOUS

LEMMA FreshIs == Fresh \in Locals /\ Finite(Fresh) /\ Fresh.files = {}
  BY NoEvents, FS_EmptySet DEF Fresh, Locals, Finite

(* A guard ends the stream of a subprocess with a Done.                    *)
LEMMA PanicSends ==
  /\ PanicEvents \in Seq(Events) /\ LastDone(PanicEvents)
  /\ kind # "claude" => SomeDone(PanicEvents)
<1>1. <<Err>> \o <<Done("")>> = <<Err, Done("")>>
  <2>1. Err \in Events /\ Done("") \in Events
    BY EventIs, NoEvents DEF Err, Done, Kind, Args
  <2> QED  BY <2>1, TwoEvents
<1>2. "" \in Args
  BY DEF Args
<1>3. /\ <<Err, Done("")>> \in Seq(Events) /\ LastDone(<<Err, Done("")>>)
      /\ SomeDone(<<Err, Done("")>>)
  BY <1>1, <1>2, Closing, Errors
<1>4. <<Err>> \in Seq(Events) /\ LastDone(<<Err>>)
  <2>1. Err \in Events /\ Err.type = "Error"
    BY <1>2, EventIs, NoEvents DEF Err, Kind
  <2> QED  BY <2>1, Single
<1> QED  BY <1>3, <1>4 DEF PanicEvents

LEMMA TaskStep ==
  ASSUME Types, Children, TaskNext
  PROVE  /\ \E evs \in Seq(Events) : Sends(evs)
         /\ Types' /\ Children' /\ kind' = kind
         /\ task' # "idle" /\ (task' = "over" => task \in Ended)
<1> USE DEF Types
<1>1. rd.text \in Seq(Nat) /\ rd.pending \in SUBSET Uses /\ rd.files \in SUBSET Nat
      /\ IsFiniteSet(rd.pending) /\ IsFiniteSet(rd.files) /\ rd.sid \in Args
  BY DEF Locals, Finite, Args
<1>2. ASSUME NEW evs \in Seq(Events), NoDone(evs), sent' = sent \o evs,
             task \notin Ended, task' \notin Ended
      PROVE  sent' \in Seq(Events) /\ \E e \in Seq(Events) : Sends(e)
  <2>1. sent \o evs \in Seq(Events)
    BY Joined
  <2>2. Sends(evs)
    BY <1>2 DEF Sends
  <2> QED  BY <1>2, <2>1, <2>2
<1>3. ASSUME NEW evs \in Seq(Events), LastDone(evs), kind # "claude" => SomeDone(evs),
             sent' = sent \o evs, task \notin Ended, task' \in Ended
      PROVE  sent' \in Seq(Events) /\ \E e \in Seq(Events) : Sends(e)
  <2>1. sent \o evs \in Seq(Events)
    BY Joined
  <2>2. Sends(evs)
    BY <1>3 DEF Sends
  <2> QED  BY <1>3, <2>1, <2>2
<1>4. sent \in Seq(Events) /\ sent = sent \o <<>>
  OBVIOUS
<1>5. CASE ReadLine
  <2>1. task = "reading" /\ UNCHANGED <<kind, child>>
    BY <1>5 DEF ReadLine
  <2>2. PICK r \in Locals, evs \in Seq(Events), l \in AnyLine, to \in {"reading", "flush"} :
               Finite(r) /\ NoDone(evs) /\ Iterate(l, r, evs, to)
    BY <1>5, <2>1, Reading DEF Reads
  <2>3. /\ log' = Append(log, l) /\ rd' = r /\ sent' = sent \o evs /\ task' = to
    BY <2>2 DEF Iterate
  <2>4. Append(log, l) \in Seq(AnyLine)
    BY DEF AnyLine
  <2>5. sent' \in Seq(Events) /\ \E e \in Seq(Events) : Sends(e)
    BY <1>2, <2>1, <2>2, <2>3 DEF Ended
  <2> QED  BY <2>1, <2>2, <2>3, <2>4, <2>5 DEF Children, Ended, AnyLine
<1>6. CASE Thinking
  <2>1. /\ task = "reading" /\ UNCHANGED <<kind, task, child, log>>
        /\ rd' = [rd EXCEPT !.thinking = TRUE] /\ sent' = Append(sent, Ev("Tool", <<>>, "Thinking"))
    BY <1>6 DEF Thinking
  <2>2. <<Ev("Tool", <<>>, "Thinking")>> \in Seq(Events) /\ NoDone(<<Ev("Tool", <<>>, "Thinking")>>)
    BY NoEvents, OneEvent DEF Kind, Args
  <2>3. sent' = sent \o <<Ev("Tool", <<>>, "Thinking")>>
    BY <2>1, <2>2, Appended
  <2>4. [rd EXCEPT !.thinking = TRUE] \in Locals /\ Finite([rd EXCEPT !.thinking = TRUE])
    BY DEF Locals, Finite
  <2>5. sent' \in Seq(Events) /\ \E e \in Seq(Events) : Sends(e)
    BY <1>2, <2>1, <2>2, <2>3 DEF Ended
  <2> QED  BY <2>1, <2>4, <2>5 DEF Children, Ended
<1>7. CASE EndOfStream
  <2>1. /\ task = "reading" /\ task' = "flush" /\ UNCHANGED <<kind, child, log, sent>>
        /\ rd' = [rd EXCEPT !.closed = TRUE]
    BY <1>7 DEF EndOfStream
  <2>2. [rd EXCEPT !.closed = TRUE] \in Locals /\ Finite([rd EXCEPT !.closed = TRUE])
    BY DEF Locals, Finite
  <2>3. sent' \in Seq(Events) /\ \E e \in Seq(Events) : Sends(e)
    BY <1>2, <1>4, <2>1, NoEvents DEF Ended
  <2> QED  BY <2>1, <2>2, <2>3 DEF Children, Ended
<1>8. CASE ReadError \/ Timeout
  <2>1. /\ task = "reading" /\ task' = "flush" /\ UNCHANGED <<kind, rd, log>>
        /\ child' \in {child, "failed"} /\ sent' = Append(sent, Err)
    BY <1>8 DEF ReadError, Timeout
  <2>2. sent' = sent \o <<Err>>
    BY <2>1, Errors, Appended
  <2>3. sent' \in Seq(Events) /\ \E e \in Seq(Events) : Sends(e)
    BY <1>2, <2>1, <2>2, Errors DEF Ended
  <2> QED  BY <2>1, <2>3 DEF Children, Ended
<1>9. CASE Flush
  <2>1. PICK calls \in FlushPending(rd.pending) :
               sent' = sent \o (IF kind = "gemini" THEN FlushText(rd.text) ELSE <<>>) \o calls
    BY <1>9 DEF Flush
  <2>2. /\ task = "flush" /\ task' = "wait" /\ UNCHANGED <<kind, child, log>>
        /\ rd' = [rd EXCEPT !.text = <<>>, !.pending = {}]
    BY <1>9 DEF Flush
  <2>3. /\ [rd EXCEPT !.text = <<>>, !.pending = {}] \in Locals
        /\ Finite([rd EXCEPT !.text = <<>>, !.pending = {}])
    BY NoEvents, FS_EmptySet DEF Locals, Finite
  <2>4. calls \in Seq(Events) /\ NoDone(calls)
    BY <1>1, <2>1, CallsSent
  <2>5. PICK text \in Seq(Events) : NoDone(text) /\ sent' = (sent \o text) \o calls
    BY <1>1, <2>1, TextSent, NoEvents
  <2>6. sent' = sent \o (text \o calls)
    BY <2>4, <2>5, ConcatAssoc
  <2>7. sent' \in Seq(Events) /\ \E e \in Seq(Events) : Sends(e)
    BY <1>2, <2>2, <2>4, <2>5, <2>6, NoneJoined DEF Ended
  <2> QED  BY <2>2, <2>3, <2>7 DEF Children, Ended
<1>10. CASE CollectStderr
  <2>1. /\ task = "stderr" /\ task' = "guard" /\ UNCHANGED <<kind, child, rd, log>>
        /\ sent' = ((sent \o ExitError) \o NoContent) \o <<Done(rd.sid)>>
    BY <1>10 DEF CollectStderr
  <2>2. ExitError \in Seq(Events) /\ NoDone(ExitError)
    BY Errors, NoEvents DEF ExitError
  <2>3. NoContent \in Seq(Events) /\ NoDone(NoContent)
    BY OneEvent, NoEvents DEF NoContent, Kind, Args
  <2>4. ExitError \o NoContent \in Seq(Events) /\ NoDone(ExitError \o NoContent)
    BY <2>2, <2>3, NoneJoined
  <2>5. /\ (ExitError \o NoContent) \o <<Done(rd.sid)>> \in Seq(Events)
        /\ LastDone((ExitError \o NoContent) \o <<Done(rd.sid)>>)
        /\ SomeDone((ExitError \o NoContent) \o <<Done(rd.sid)>>)
    BY <1>1, <2>4, Closing
  <2>6. sent' = sent \o ((ExitError \o NoContent) \o <<Done(rd.sid)>>)
    <3>1. <<Done(rd.sid)>> \in Seq(Events)
      BY <1>1, DoneLast
    <3>2. sent \in Seq(Events)
      BY <1>4
    <3>3. ExitError \in Seq(Events)
      BY <2>2
    <3>4. NoContent \in Seq(Events)
      BY <2>3
    <3>5. (sent \o ExitError) \o NoContent = sent \o (ExitError \o NoContent)
      BY ONLY <3>2, <3>3, <3>4, ConcatAssoc
    <3>6. ExitError \o NoContent \in Seq(Events)
      BY <2>4
    <3>7. (sent \o (ExitError \o NoContent)) \o <<Done(rd.sid)>>
            = sent \o ((ExitError \o NoContent) \o <<Done(rd.sid)>>)
      BY ONLY <3>1, <3>2, <3>6, ConcatAssoc
    <3> QED  BY <2>1, <3>5, <3>7
  <2>7. sent' \in Seq(Events) /\ \E e \in Seq(Events) : Sends(e)
    BY <1>3, <2>1, <2>5, <2>6 DEF Ended
  <2> QED  BY <2>1, <2>7 DEF Children, Ended
<1>11. CASE Conclude
  <2>1. PICK fs \in Delivered(rd.files) :
               sent' = ((sent \o FlushText(rd.text))
                            \o [i \in DOMAIN fs |-> Ev("File", <<fs[i]>>, "")])
                         \o <<Done(rd.sid)>>
    BY <1>11 DEF Conclude
  <2>2. task = "flush" /\ kind = "claude" /\ task' = "guard" /\ UNCHANGED <<kind, child, rd, log>>
    BY <1>11 DEF Conclude
  <2> DEFINE x == FlushText(rd.text)
             y == [i \in DOMAIN fs |-> Ev("File", <<fs[i]>>, "")]
             z == <<Done(rd.sid)>>
  <2>3. x \in Seq(Events) /\ NoDone(x) /\ y \in Seq(Events) /\ NoDone(y)
    BY <1>1, TextSent, FilesSent
  <2>4. z \in Seq(Events)
    BY <1>1, DoneLast
  <2>5. x \o y \in Seq(Events) /\ NoDone(x \o y)
    BY <2>3, NoneJoined
  <2>6. (x \o y) \o z \in Seq(Events) /\ LastDone((x \o y) \o z)
    BY <1>1, <2>5, Closing
  <2>7. sent' = ((sent \o x) \o y) \o z
    BY <2>1
  <2> HIDE DEF x, y, z
  <2>8. sent' = sent \o ((x \o y) \o z)
    <3>1. sent \in Seq(Events)
      BY <1>4
    <3>2. x \in Seq(Events)
      BY <2>3
    <3>3. y \in Seq(Events)
      BY <2>3
    <3>4. (sent \o x) \o y = sent \o (x \o y)
      BY ONLY <3>1, <3>2, <3>3, ConcatAssoc
    <3>5. x \o y \in Seq(Events)
      BY <2>5
    <3>6. (sent \o (x \o y)) \o z = sent \o ((x \o y) \o z)
      BY ONLY <2>4, <3>1, <3>5, ConcatAssoc
    <3> QED  BY <2>7, <3>4, <3>6
  <2>9. sent' \in Seq(Events) /\ \E e \in Seq(Events) : Sends(e)
    BY <1>3, <2>2, <2>6, <2>8 DEF Ended
  <2> QED  BY <2>2, <2>9 DEF Children, Ended
<1>12. CASE Panic
  <2>1. /\ task \in {"spawn", "reading", "flush", "wait", "stderr"} /\ task' = "guard"
        /\ sent' = sent \o PanicEvents /\ UNCHANGED <<kind, rd, log>>
        /\ child' = IF child = "running" THEN "failed" ELSE child
    BY <1>12 DEF Panic
  <2>2. sent' \in Seq(Events) /\ \E e \in Seq(Events) : Sends(e)
    BY <1>3, <2>1, PanicSends DEF Ended
  <2> QED  BY <2>1, <2>2 DEF Children, Ended
<1>13. CASE Spawn
  <2>1. task = "spawn" /\ UNCHANGED <<kind, rd, log>>
    BY <1>13 DEF Spawn
  <2>2. CASE child' = "running" /\ task' = "reading" /\ UNCHANGED sent
    <3>1. sent' \in Seq(Events) /\ \E e \in Seq(Events) : Sends(e)
      BY <1>2, <1>4, <2>1, <2>2, NoEvents DEF Ended
    <3> QED  BY <2>1, <2>2, <3>1 DEF Children, Ended
  <2>3. CASE sent' = sent \o PanicEvents /\ task' = "guard" /\ UNCHANGED child
    <3>1. sent' \in Seq(Events) /\ \E e \in Seq(Events) : Sends(e)
      BY <1>3, <2>1, <2>3, PanicSends DEF Ended
    <3> QED  BY <2>1, <2>3, <3>1 DEF Children, Ended
  <2> QED  BY <1>13, <2>2, <2>3 DEF Spawn
<1>14. CASE Subcommand
  <2>1. PICK ev \in {Ev("Text", <<>>, ""), Err} : sent' = sent \o <<ev, Done("")>>
    BY <1>14 DEF Subcommand
  <2>2. task = "sub" /\ task' = "guard" /\ UNCHANGED <<kind, child, rd, log>>
    BY <1>14 DEF Subcommand
  <2>3. "" \in Args
    BY DEF Args
  <2>4. <<ev>> \in Seq(Events) /\ NoDone(<<ev>>)
    <3>1. "Text" \in Kind \ {"Done"} /\ ("Text" = "Tool" => "" # "")
      BY DEF Kind
    <3>2. <<Ev("Text", <<>>, "")>> \in Seq(Events) /\ NoDone(<<Ev("Text", <<>>, "")>>)
      BY <2>3, <3>1, NoEvents, OneEvent
    <3>3. CASE ev = Err
      BY <3>3, Errors
    <3>4. CASE ev = Ev("Text", <<>>, "")
      BY <3>2, <3>4
    <3> QED  BY <2>1, <3>3, <3>4
  <2>5. ev \in Events /\ Done("") \in Events
    <3>1. ev \in Events
      BY <2>4, OneOf
    <3>2. "Done" \in Kind /\ ("Done" = "Tool" => "" # "")
      BY DEF Kind
    <3>3. Done("") \in Events
      BY <2>3, <3>2, EventIs, NoEvents DEF Done
    <3> QED  BY <3>1, <3>3
  <2>6. <<ev>> \o <<Done("")>> = <<ev, Done("")>>
    BY <2>5, TwoEvents
  <2>7. /\ <<ev, Done("")>> \in Seq(Events) /\ LastDone(<<ev, Done("")>>)
        /\ SomeDone(<<ev, Done("")>>)
    BY <2>3, <2>4, <2>6, Closing
  <2>8. sent' \in Seq(Events) /\ \E e \in Seq(Events) : Sends(e)
    BY <1>3, <2>1, <2>2, <2>7 DEF Ended
  <2> QED  BY <2>2, <2>8 DEF Children, Ended
<1>15. CASE Guard
  <2>1. /\ task = "guard" /\ task' = "over" /\ rd' = Fresh /\ UNCHANGED <<kind, child, log, sent>>
    BY <1>15 DEF Guard
  <2>2. \E e \in Seq(Events) : Sends(e)
    BY <1>4, <2>1, NoEvents DEF Sends, Ended
  <2> QED  BY <2>1, <2>2, FreshIs DEF Children, Ended
<1>16. CASE ChildExits \/ PrintUnread
  <2>1. /\ UNCHANGED <<kind, task, rd, log, sent>> /\ child = "running"
        /\ child' \in {"running", "ok", "failed"} /\ (child' = child => task \notin Ended)
    BY <1>16 DEF ChildExits, PrintUnread, Ended
  <2>2. \E e \in Seq(Events) : Sends(e)
    BY <1>4, <2>1, NoEvents DEF Sends
  <2> QED  BY <2>1, <2>2 DEF Children, Ended
<1>17. CASE Reap
  <2>1. /\ task = "wait" /\ task' \in {"stderr", "held"} /\ UNCHANGED <<kind, child, rd, log>>
        /\ child # "running" /\ sent' = sent \o Fatal
    BY <1>17 DEF Reap
  <2>2. Fatal \in Seq(Events) /\ NoDone(Fatal)
    BY Errors, NoEvents DEF Fatal
  <2>3. sent' \in Seq(Events) /\ \E e \in Seq(Events) : Sends(e)
    BY <1>2, <2>1, <2>2 DEF Ended
  <2> QED  BY <2>1, <2>3 DEF Children, Ended
<1>18. CASE PipeCloses
  <2>1. task = "held" /\ task' = "stderr" /\ UNCHANGED <<kind, child, rd, log, sent>>
    BY <1>18 DEF PipeCloses
  <2>2. sent' \in Seq(Events) /\ \E e \in Seq(Events) : Sends(e)
    BY <1>2, <1>4, <2>1, NoEvents DEF Ended
  <2> QED  BY <2>1, <2>2 DEF Children, Ended
<1> QED  BY <1>5, <1>6, <1>7, <1>8, <1>9, <1>10, <1>11, <1>12, <1>13, <1>14, <1>15, <1>16,
            <1>17, <1>18 DEF TaskNext

------------------------------------------------------------------------------
(* The task and the driver together.                                       *)
Hears ==
  /\ driver \in {"idle", "driving", "done", "error", "closed", "stuck"}
  /\ taken \in Nat /\ taken <= Len(sent)
  /\ task = "idle" => driver = "idle"
  /\ driver = "idle" => taken = 0
  /\ driver = "done" => task \in Ended
  /\ driver = "closed" => task = "over"

TurnInv == Types /\ Children /\ Ends /\ Hears

LEMMA InitTurn == Init => TurnInv
<1> SUFFICES ASSUME Init PROVE TurnInv
  OBVIOUS
<1>1. /\ kind \in Kinds /\ task = "idle" /\ child = "none" /\ rd = Fresh /\ log = <<>>
      /\ sent = <<>> /\ driver = "idle" /\ taken = 0
  BY DEF Init
<1>2. <<>> \in Seq(AnyLine) /\ Len(<<>>) = 0
  OBVIOUS
<1>3. Types
  BY <1>1, <1>2, FreshIs, NoEvents DEF Types, AnyLine
<1> QED  BY <1>1, <1>2, <1>3, NoEvents DEF TurnInv, Children, Ends, Hears, Ended

LEMMA TaskTurn ==
  ASSUME TurnInv, TaskNext, UNCHANGED driverVars
  PROVE  TurnInv'
<1>1. PICK evs \in Seq(Events) : Sends(evs)
  BY TaskStep DEF TurnInv
<1>2. Types' /\ Children' /\ kind' = kind /\ task' # "idle" /\ (task' = "over" => task \in Ended)
  BY TaskStep DEF TurnInv
<1>3. sent \in Seq(Events) /\ Ends /\ Hears
  BY DEF TurnInv, Types
<1>4. Ends'
  <2>1. CASE task \notin Ended
    <3>1. NoDone(sent)
      BY <1>3, <2>1 DEF Ends
    <3>2. sent \o evs \in Seq(Events) /\ (NoDone(evs) => NoDone(sent \o evs))
          /\ (LastDone(evs) => LastDone(sent \o evs)) /\ (SomeDone(evs) => SomeDone(sent \o evs))
      BY <1>3, <3>1, NoneJoined
    <3>3. PICK s \in Seq(Events) : s = sent'
      BY <1>1, <3>2 DEF Sends
    <3> QED  BY <1>1, <1>2, <2>1, <3>2, <3>3 DEF Sends, Ends
  <2>2. CASE task \in Ended
    <3>1. sent' = sent /\ task' \in Ended
      BY <1>1, <1>3, <2>2 DEF Sends
    <3> QED  BY <1>2, <1>3, <2>2, <3>1 DEF Ends
  <2> QED  BY <2>1, <2>2
<1>5. Hears'
  <2>1. Len(sent) <= Len(sent')
    <3>1. /\ Len(sent \o evs) = Len(sent) + Len(evs)
          /\ Len(sent) \in Nat /\ Len(evs) \in Nat
      BY <1>1, <1>3, Joined
    <3> QED  BY <1>1, <3>1 DEF Sends
  <2>2. PICK a, b \in Nat : a = Len(sent) /\ b = Len(sent') /\ a <= b
    BY <1>2, <1>3, <2>1 DEF Types
  <2>3. UNCHANGED <<driver, taken>>
    BY DEF driverVars
  <2>4. task \in Ended => task' \in Ended
    BY <1>1 DEF Sends
  <2>5. task = "over" => task' = "over"
    BY DEF TaskNext, ReadLine, Thinking, EndOfStream, ReadError, Timeout, Flush, Reap, CollectStderr,
           PipeCloses, Conclude, Panic, Guard, Spawn, Subcommand, ChildExits, PrintUnread
  <2> QED  BY <1>2, <1>3, <2>2, <2>3, <2>4, <2>5 DEF Hears
<1> QED  BY <1>2, <1>4, <1>5 DEF TurnInv

LEMMA BeginTurn ==
  ASSUME TurnInv,
         \/ \E r \in Requests : Prompt(r[1], r[2], r[3])
         \/ \E k \in Kinds : Passthrough(k)
  PROVE  TurnInv'
<1>1. ASSUME NEW k \in Kinds, kind' = k, rd' = Fresh, log' = <<>>, child' = "none",
             taken' = taken, driver' = "driving", driver = "idle",
             task' \in {"over", "guard", "spawn", "sub"}, sent' \in Seq(Events),
             task' \in Ended => LastDone(sent') /\ (k # "claude" => SomeDone(sent')),
             task' \notin Ended => NoDone(sent')
      PROVE  TurnInv'
  <2>1. <<>> \in Seq(AnyLine)
    OBVIOUS
  <2>2. Types'
    BY <1>1, <2>1, FreshIs DEF Types, AnyLine, Ended
  <2>3. PICK s \in Seq(Events) : s = sent'
    BY <1>1
  <2>4. Ends'
    BY <1>1, <2>3 DEF Ends
  <2>5. Hears'
    <3>1. taken = 0 /\ Len(s) \in Nat
      BY <1>1, <2>3 DEF TurnInv, Hears
    <3> QED  BY <1>1, <2>3, <3>1 DEF Hears
  <2> QED  BY <1>1, <2>2, <2>4, <2>5 DEF TurnInv, Children, Ended
<1>2. <<>> \in Seq(AnyLine) /\ "" \in Args
  BY DEF Args
<1>3. <<Err, Done("")>> \in Seq(Events) /\ LastDone(<<Err, Done("")>>)
      /\ SomeDone(<<Err, Done("")>>)
  <2>1. /\ <<Err>> \o <<Done("")>> \in Seq(Events) /\ LastDone(<<Err>> \o <<Done("")>>)
        /\ SomeDone(<<Err>> \o <<Done("")>>)
    BY <1>2, Errors, Closing
  <2>2. Err \in Events /\ Done("") \in Events
    BY <1>2, EventIs, NoEvents DEF Err, Done, Kind
  <2>3. <<Err>> \o <<Done("")>> = <<Err, Done("")>>
    BY <2>2, TwoEvents
  <2> QED  BY <2>1, <2>3
<1>4. <<Ev("Text", <<>>, "")>> \in Seq(Events) /\ NoDone(<<Ev("Text", <<>>, "")>>)
  BY <1>2, NoEvents, OneEvent DEF Kind
<1>5. CASE \E r \in Requests : Prompt(r[1], r[2], r[3])
  <2>1. PICK r \in Requests : Prompt(r[1], r[2], r[3])
    BY <1>5
  <2>2. PICK k \in Kinds : k = r[1]
    BY <2>1, RequestsAssumption
  <2>3. /\ kind' = k /\ rd' = Fresh /\ log' = <<>> /\ child' = "none" /\ taken' = taken
        /\ driver' = "driving" /\ driver = "idle"
        /\ \/ sent' = <<Err, Done("")>> /\ task' = "over"
           \/ sent' = <<>> /\ task' = "spawn"
           \/ sent' = <<Ev("Text", <<>>, "")>> /\ task' = "guard" /\ k = "claude"
    BY <2>1, <2>2 DEF Prompt, RunPrompt, AtRest, StartDriving, UnknownSchema
  <2>4. CASE sent' = <<Err, Done("")>> /\ task' = "over"
    BY <1>1, <1>3, <2>3, <2>4 DEF Ended
  <2>5. CASE sent' = <<>> /\ task' = "spawn"
    BY <1>1, <2>3, <2>5, NoEvents DEF Ended
  <2>6. CASE sent' = <<Ev("Text", <<>>, "")>> /\ task' = "guard" /\ k = "claude"
    <3>1. LastDone(<<Ev("Text", <<>>, "")>>)
      <4>1. "Text" \in Kind /\ ("Text" = "Tool" => "" # "")
        BY DEF Kind
      <4>2. Ev("Text", <<>>, "") \in Events /\ Ev("Text", <<>>, "").type = "Text"
        BY <1>2, <4>1, EventIs, NoEvents
      <4> QED  BY <4>2, Single
    <3>2. task' \in Ended /\ sent' \in Seq(Events) /\ LastDone(sent') /\ k = "claude"
      BY <1>4, <2>6, <3>1 DEF Ended
    <3> QED  BY <1>1, <2>3, <2>6, <3>2
  <2> QED  BY <2>3, <2>4, <2>5, <2>6
<1>6. CASE \E k \in Kinds : Passthrough(k)
  <2>1. PICK k \in Kinds :
          /\ kind' = k /\ rd' = Fresh /\ log' = <<>> /\ child' = "none" /\ taken' = taken
          /\ driver' = "driving" /\ driver = "idle" /\ sent' = <<>> /\ task' = "sub"
    BY <1>6 DEF Passthrough, RunSubcommand, AtRest, StartDriving
  <2> QED  BY <1>1, <2>1, NoEvents DEF Ended
<1> QED  BY <1>5, <1>6

LEMMA TakeTurn ==
  ASSUME TurnInv, Take
  PROVE  TurnInv'
<1>1. UNCHANGED taskVars /\ driver = "driving"
  BY DEF Take, TakeTool, TakeText, TakeFile, TakeStructured, TakeDone, TakeError, StreamCloses,
         Receives
<1>2. Types' /\ Children' /\ Ends'
  BY <1>1 DEF TurnInv, Types, Children, Ends, taskVars
<1>3. sent' = sent /\ task' = task /\ Len(sent) \in Nat /\ Hears /\ Ends
  <2>1. Len(sent) \in Nat
    BY DEF TurnInv, Types
  <2> QED  BY <1>1, <2>1 DEF TurnInv, taskVars
<1>4. CASE StreamCloses
  BY <1>1, <1>2, <1>3, <1>4 DEF StreamCloses, Hears, TurnInv
<1>5. ASSUME taken < Len(sent), taken' = taken + 1,
             \/ driver' \in {"driving", "error"}
             \/ driver' = "done" /\ sent[taken + 1].type = "Done"
      PROVE  Hears'
  <2>1. PICK n \in Nat : n = taken /\ n + 1 \in 1..Len(sent) /\ n + 1 \in Nat
    BY <1>3, <1>5 DEF Hears
  <2>2. driver' = "done" => task \in Ended
    BY <1>3, <1>5, <2>1 DEF Ends, NoDone
  <2>3. task # "idle"
    BY <1>1, <1>3 DEF Hears
  <2> QED  BY <1>3, <1>5, <2>1, <2>2, <2>3 DEF Hears
<1>6. CASE TakeDone \/ TakeError
  <2>1. /\ taken < Len(sent) /\ taken' = taken + 1
        /\ driver' = "error" \/ (driver' = "done" /\ sent[taken + 1].type = "Done")
    BY <1>6 DEF TakeDone, TakeError, Receives
  <2> QED  BY <1>2, <1>5, <2>1 DEF TurnInv
<1>7. CASE TakeTool \/ TakeText \/ TakeFile \/ TakeStructured
  <2>1. taken < Len(sent) /\ taken' = taken + 1 /\ driver' = "driving"
    BY <1>1, <1>7 DEF TakeTool, TakeText, TakeFile, TakeStructured, Receives
  <2> QED  BY <1>2, <1>5, <2>1 DEF TurnInv
<1> QED  BY <1>2, <1>4, <1>6, <1>7 DEF TurnInv, Take

LEMMA EndsTurn ==
  ASSUME TurnInv, EndTurn
  PROVE  TurnInv'
<1>1. /\ UNCHANGED <<kind, task, child, rd, log, sent>> /\ driver' = "idle" /\ taken' = 0
  BY DEF EndTurn
<1>2. Len(sent) \in Nat
  BY DEF TurnInv, Types
<1> QED  BY <1>1, <1>2 DEF TurnInv, Types, Children, Ends, Hears

LEMMA ChatHangs ==
  ASSUME TurnInv, SendHangs \/ SendReturns
  PROVE  TurnInv'
<1>1. UNCHANGED taskVars /\ taken' = taken /\ driver' \in {"driving", "stuck"}
      /\ driver \in {"driving", "stuck"}
  BY DEF SendHangs, SendReturns
<1> QED  BY <1>1 DEF taskVars, TurnInv, Types, Children, Ends, Hears

LEMMA StillTurn ==
  ASSUME TurnInv, UNCHANGED vars
  PROVE  TurnInv'
  BY DEF vars, taskVars, driverVars, TurnInv, Types, Children, Ends, Hears

LEMMA TurnInvariance == Spec => []TurnInv
<1>1. TurnInv /\ [Next]_vars => TurnInv'
  BY TaskTurn, BeginTurn, TakeTurn, ChatHangs, EndsTurn, StillTurn DEF Next
<1> QED  BY <1>1, InitTurn, PTL DEF Spec

(* However a turn ends - refused, not spawned, read error, timeout, panic, *)
(* a child that fails - the stream of harness/lifecycle.rs has one Done,   *)
(* at its end; claude's has at most one, and there.                        *)
THEOREM StreamHasOneDone == Spec => []DoneOnce
<1>1. TurnInv => DoneOnce
  <2> SUFFICES ASSUME TurnInv, task = "over" PROVE DoneOnce
    BY DEF DoneOnce
  <2>1. DOMAIN sent = 1..Len(sent)
    BY DEF TurnInv, Types
  <2>2. LastDone(sent) /\ (kind # "claude" => SomeDone(sent))
    BY DEF TurnInv, Ends, Ended
  <2> QED  BY <2>1, <2>2 DEF DoneOnce, LastDone, SomeDone
<1> QED  BY <1>1, TurnInvariance, PTL

(* The attachments and the schema file of a turn (harness/lifecycle.rs)    *)
(* stay while its subprocess runs, unless the turn was given up with an    *)
(* error, whose driver drops the attachments.                              *)
THEOREM FilesStay == Spec => FilesOutlast
<1> DEFINE Step == temps' # temps /\ child = "running" /\ child' = "running" /\ kind # "claude" =>
                     driver = "error" /\ temps' = temps \ {"attachment"}
<1>1. TurnInv /\ [Next]_vars => [Step]_vars
  <2> SUFFICES ASSUME TurnInv, Next, temps' # temps, child = "running", child' = "running",
                      kind # "claude"
               PROVE  driver = "error" /\ temps' = temps \ {"attachment"}
    OBVIOUS
  <2>1. CASE \/ \E r \in Requests : Prompt(r[1], r[2], r[3])
             \/ \E k \in Kinds : Passthrough(k)
    BY <2>1 DEF Prompt, Passthrough, RunPrompt, RunSubcommand
  <2>2. CASE TaskNext
    BY <2>2 DEF TaskNext, ReadLine, Thinking, EndOfStream, ReadError, Timeout, Flush, Reap,
           CollectStderr, PipeCloses, Conclude, Panic, Guard, Spawn, Subcommand, ChildExits, PrintUnread, TurnInv,
           Children, Ended
  <2>3. CASE Take
    BY <2>3 DEF Take, TakeTool, TakeText, TakeFile, TakeStructured, TakeDone, TakeError,
                StreamCloses, Receives, taskVars
  <2>4. CASE SendHangs \/ SendReturns
    BY <2>4 DEF SendHangs, SendReturns, taskVars
  <2>5. CASE EndTurn
    BY <2>5 DEF EndTurn, TurnInv, Hears, Children, Ended
  <2> QED  BY <2>1, <2>2, <2>3, <2>4, <2>5 DEF Next
<1> QED  BY <1>1, TurnInvariance, PTL DEF Spec, FilesOutlast

------------------------------------------------------------------------------
(* What the chat is told: s is the stream, t of it taken, q what was said, *)
(* b the batch, l the last tool and n the calls that are only counted.     *)
Rows == [event : Nat, more : Nat]

Increasing(q) == \A i, j \in 1..Len(q) : i < j => q[i].event < q[j].event
Before(q, b) == \A i \in 1..Len(q), j \in 1..Len(b) : q[i].event < b[j].event
Mentions(q, i) == \E j \in 1..Len(q) : q[j].event = i

SameCalls(s, i, j) == \A u \in i..j : s[u].type = "Tool" => s[u].arg = s[i].arg

(* Whoever says "N more" stands before N calls of the same tool.           *)
Backed(s, t, m) ==
  /\ 1 <= m.event /\ m.event <= t
  /\ m.more # 0 => /\ m.event + m.more <= t
                   /\ \A u \in m.event..(m.event + m.more) :
                        s[u].type = "Tool" /\ s[u].arg = s[m.event].arg

Row(s, t, q) ==
  q \in Seq(Rows) /\ Increasing(q) /\ \A i \in 1..Len(q) : Backed(s, t, q[i])

LastTool(s, t, l) ==
  \E u \in 1..t : s[u].type = "Tool" /\ s[u].arg = l /\ SameCalls(s, u, t)

(* Said, to be said, or a call like the one before.                        *)
Heard(s, q, b, i) ==
  \/ Mentions(q, i) \/ Mentions(b, i) \/ s[i].type = "Done"
  \/ s[i].type = "Tool"
     /\ \E u \in 1..(i - 1) : s[u].type = "Tool" /\ SameCalls(s, u, i)

(* From the last line of the batch to the last event there are calls of    *)
(* one tool only.                                                          *)
Counting(s, t, b, l, n) ==
  b # <<>> => /\ b[Len(b)].event + n = t
              /\ \A u \in b[Len(b)].event..t : s[u].type = "Tool" /\ s[u].arg = l

Chat(s, t, q, b, l, n) ==
  /\ Row(s, t, q) /\ Row(s, t, b) /\ Before(q, b)
  /\ \A i \in 1..t : Heard(s, q, b, i)
  /\ l # "" => LastTool(s, t, l)
  /\ Counting(s, t, b, l, n)

LEMMA SaysIs ==
  ASSUME NEW e \in Nat, NEW n \in Nat
  PROVE  Says(e, n) \in Rows /\ Says(e, n).event = e /\ Says(e, n).more = n
BY DEF Rows, Says

(* Only what was taken matters.                                            *)
LEMMA SamePast ==
  ASSUME NEW s, NEW r, NEW t \in Nat, \A i \in 1..t : r[i] = s[i],
         NEW q, NEW b, NEW l, NEW n \in Nat, Chat(s, t, q, b, l, n)
  PROVE  Chat(r, t, q, b, l, n)
<1>1. \A i, j \in Nat : 1 <= i /\ j <= t => (SameCalls(s, i, j) <=> SameCalls(r, i, j))
  <2> SUFFICES ASSUME NEW i \in Nat, NEW j \in Nat, 1 <= i, j <= t
               PROVE  SameCalls(s, i, j) <=> SameCalls(r, i, j)
    OBVIOUS
  <2>1. \A u \in i..j : u \in 1..t /\ i \in 1..t
    OBVIOUS
  <2> QED  BY <2>1 DEF SameCalls
<1>2. ASSUME NEW m \in Rows, Backed(s, t, m)  PROVE Backed(r, t, m)
  <2>1. PICK e \in Nat, k \in Nat : e = m.event /\ k = m.more
    BY DEF Rows
  <2>2. 1 <= e /\ e <= t
    BY <1>2, <2>1 DEF Backed
  <2>3. ASSUME k # 0
        PROVE  e + k <= t /\ \A u \in e..(e + k) : r[u].type = "Tool" /\ r[u].arg = r[e].arg
    <3>1. e + k <= t /\ \A u \in e..(e + k) : s[u].type = "Tool" /\ s[u].arg = s[e].arg
      BY <1>2, <2>1, <2>3 DEF Backed
    <3>2. e \in 1..t /\ \A u \in e..(e + k) : u \in 1..t
      BY <2>1, <2>2, <3>1
    <3> QED  BY <3>1, <3>2
  <2> QED  BY <2>1, <2>2, <2>3 DEF Backed
<1>3. Row(r, t, q) /\ Row(r, t, b)
  <2>1. ASSUME NEW x, Row(s, t, x)  PROVE Row(r, t, x)
    <3>1. x \in Seq(Rows) /\ Increasing(x) /\ \A i \in 1..Len(x) : Backed(s, t, x[i])
      BY <2>1 DEF Row
    <3>2. \A i \in 1..Len(x) : x[i] \in Rows
      BY <3>1
    <3>3. \A i \in 1..Len(x) : Backed(r, t, x[i])
      BY <1>2, <3>1, <3>2
    <3> QED  BY <3>1, <3>3 DEF Row
  <2> QED  BY <2>1 DEF Chat
<1>4. ASSUME NEW i \in 1..t  PROVE Heard(r, q, b, i)
  <2>1. Heard(s, q, b, i) /\ r[i] = s[i] /\ i \in Nat
    <3>1. \A j \in 1..t : Heard(s, q, b, j)
      BY DEF Chat
    <3> QED  BY <3>1
  <2>2. ASSUME NEW u \in 1..(i - 1), s[u].type = "Tool", SameCalls(s, u, i)
        PROVE  u \in 1..(i - 1) /\ r[u].type = "Tool" /\ SameCalls(r, u, i)
    <3>1. u \in 1..t /\ u \in Nat /\ i <= t /\ 1 <= u
      OBVIOUS
    <3> QED  BY <1>1, <2>1, <2>2, <3>1
  <2> QED  BY <2>1, <2>2 DEF Heard
<1>5. l # "" => LastTool(r, t, l)
  <2> SUFFICES ASSUME LastTool(s, t, l) PROVE LastTool(r, t, l)
    BY DEF Chat
  <2>1. PICK u \in 1..t : s[u].type = "Tool" /\ s[u].arg = l /\ SameCalls(s, u, t)
    BY DEF LastTool
  <2>2. SameCalls(r, u, t) /\ r[u] = s[u]
    BY <1>1, <2>1
  <2> QED  BY <2>1, <2>2 DEF LastTool
<1>6. Counting(r, t, b, l, n)
  <2> SUFFICES ASSUME b # <<>> PROVE Counting(r, t, b, l, n)
    BY DEF Counting
  <2>1. b \in Seq(Rows) /\ \A i \in 1..Len(b) : Backed(s, t, b[i])
    BY DEF Chat, Row
  <2>2. Len(b) \in 1..Len(b) /\ b[Len(b)] \in Rows
    BY <2>1
  <2>3. PICK e \in Nat : e = b[Len(b)].event /\ 1 <= e
    BY <2>1, <2>2 DEF Backed, Rows
  <2>4. e + n = t /\ \A u \in e..t : s[u].type = "Tool" /\ s[u].arg = l
    BY <2>3 DEF Chat, Counting
  <2>5. \A u \in e..t : u \in 1..t
    BY <2>3
  <2> QED  BY <2>3, <2>4, <2>5 DEF Counting
<1> QED  BY <1>3, <1>4, <1>5, <1>6 DEF Chat

(* A batch with its count is a row like it.                                *)
LEMMA CountedRow ==
  ASSUME NEW s, NEW t \in Nat, NEW b, NEW l, NEW n \in Nat,
         Row(s, t, b), Counting(s, t, b, l, n), b # <<>>,
         NEW c, c = WithCount(b, n)
  PROVE  /\ Row(s, t, c) /\ Len(c) = Len(b)
         /\ \A i \in 1..Len(b) : c[i].event = b[i].event
<1>1. b \in Seq(Rows) /\ Increasing(b) /\ \A i \in 1..Len(b) : Backed(s, t, b[i])
  BY DEF Row
<1>2. PICK k \in Nat : k = Len(b) /\ k \in 1..k
  BY <1>1
<1>3. b[k] \in Rows
  BY <1>1, <1>2
<1>4. PICK e \in Nat : e = b[k].event
  BY <1>3 DEF Rows
<1>5. 1 <= e /\ e <= t
  BY <1>1, <1>2, <1>4 DEF Backed
<1>6. e + n = t /\ \A u \in e..t : s[u].type = "Tool" /\ s[u].arg = l
  BY <1>2, <1>4 DEF Counting
<1>7. c = [b EXCEPT ![k] = Says(e, n)]
  <2>1. WithCount(b, n) = [b EXCEPT ![Len(b)] = Says(b[Len(b)].event, n)]
    BY DEF WithCount
  <2>2. b[Len(b)].event = e /\ Len(b) = k
    BY <1>2, <1>4
  <2> QED  BY <2>1, <2>2
<1>8. PICK m \in Rows : m = Says(e, n) /\ m.event = e /\ m.more = n
  BY SaysIs
<1>9. /\ c \in Seq(Rows) /\ Len(c) = k /\ c[k] = m
      /\ \A i \in 1..k : i # k => c[i] = b[i]
  BY <1>1, <1>2, <1>7, <1>8
<1>10. \A i \in 1..k : c[i].event = b[i].event
  BY <1>4, <1>8, <1>9
<1>11. Increasing(c)
  BY <1>1, <1>2, <1>9, <1>10 DEF Increasing
<1>12. Backed(s, t, m)
  <2>1. e \in e..t
    BY <1>5
  <2>2. \A u \in e..(e + n) : s[u].type = "Tool" /\ s[u].arg = s[e].arg
    BY <1>6, <2>1
  <2> QED  BY <1>5, <1>6, <1>8, <2>2 DEF Backed
<1>13. \A i \in 1..k : Backed(s, t, c[i])
  BY <1>1, <1>2, <1>9, <1>12
<1> QED  BY <1>2, <1>9, <1>10, <1>11, <1>13 DEF Row

(* Two rows, one behind the other, are a row.                              *)
LEMMA JoinedRow ==
  ASSUME NEW s, NEW t, NEW q, NEW b, Row(s, t, q), Row(s, t, b), Before(q, b)
  PROVE  /\ Row(s, t, q \o b)
         /\ \A i : Mentions(q \o b, i) <=> Mentions(q, i) \/ Mentions(b, i)
<1>1. q \in Seq(Rows) /\ b \in Seq(Rows)
  BY DEF Row
<1>2. Len(q) \in Nat /\ Len(b) \in Nat
  BY <1>1
<1> DEFINE k == Len(q)
           n == Len(b)
<1>a. k = Len(q) /\ n = Len(b) /\ k \in Nat /\ n \in Nat
  BY <1>2
<1> HIDE DEF k, n
<1>3. PICK r \in Seq(Rows) : r = q \o b
  <2>1. q \o b \in Seq(Rows)
    BY ONLY <1>1
  <2> QED  BY <2>1
<1>4. /\ Len(r) = k + n /\ \A i \in 1..k : r[i] = q[i] /\ i \in 1..Len(r)
      /\ \A i \in 1..n : r[k + i] = b[i] /\ k + i \in 1..Len(r)
  BY <1>1, <1>a, <1>3
<1>5. ASSUME NEW i \in 1..Len(r)
      PROVE  \/ i \in 1..k /\ r[i] = q[i]
             \/ i - k \in 1..n /\ r[i] = b[i - k] /\ i = k + (i - k)
  <2>1. i \in 1..k \/ i - k \in 1..n
    BY <1>a, <1>4
  <2>2. i - k \in 1..n => r[k + (i - k)] = b[i - k]
    BY <1>4
  <2>3. k + (i - k) = i
    BY <1>a
  <2> QED  BY <1>4, <2>1, <2>2, <2>3
<1>6. Increasing(r)
  <2> SUFFICES ASSUME NEW i \in 1..Len(r), NEW j \in 1..Len(r), i < j
               PROVE  r[i].event < r[j].event
    BY DEF Increasing
  <2>1. CASE i \in 1..k /\ r[i] = q[i] /\ j \in 1..k /\ r[j] = q[j]
    BY <1>a, <2>1 DEF Row, Increasing
  <2>2. CASE i \in 1..k /\ r[i] = q[i] /\ j - k \in 1..n /\ r[j] = b[j - k]
    BY <1>a, <2>2 DEF Before
  <2>3. CASE i - k \in 1..n /\ r[i] = b[i - k] /\ j - k \in 1..n /\ r[j] = b[j - k]
    <3>1. i - k < j - k
      BY <1>a
    <3> QED  BY <1>a, <2>3, <3>1 DEF Row, Increasing
  <2>4. CASE i - k \in 1..n /\ j \in 1..k
    BY <1>a, <2>4
  <2> QED  BY <1>5, <2>1, <2>2, <2>3, <2>4
<1>7. \A i \in 1..Len(r) : Backed(s, t, r[i])
  BY <1>a, <1>5 DEF Row
<1>8. \A i : Mentions(r, i) <=> Mentions(q, i) \/ Mentions(b, i)
  <2>1. ASSUME NEW i, Mentions(r, i)  PROVE Mentions(q, i) \/ Mentions(b, i)
    BY <1>a, <1>5, <2>1 DEF Mentions
  <2>2. ASSUME NEW i, NEW j \in 1..k, q[j].event = i  PROVE Mentions(r, i)
    BY <1>4, <2>2 DEF Mentions
  <2>3. ASSUME NEW i, NEW j \in 1..n, b[j].event = i  PROVE Mentions(r, i)
    BY <1>4, <2>3 DEF Mentions
  <2> QED  BY <1>a, <2>1, <2>2, <2>3 DEF Mentions
<1> QED  BY <1>3, <1>6, <1>7, <1>8 DEF Row

(* What was true of a row stays true when more is taken.                   *)
LEMMA LaterRow ==
  ASSUME NEW s, NEW t \in Nat, NEW q, Row(s, t, q)
  PROVE  Row(s, t + 1, q)
<1>1. q \in Seq(Rows) /\ \A i \in 1..Len(q) : Backed(s, t, q[i]) /\ q[i] \in Rows
  BY DEF Row
<1>2. ASSUME NEW m \in Rows, Backed(s, t, m)  PROVE Backed(s, t + 1, m)
  <2>1. m.event \in Nat /\ m.more \in Nat
    BY DEF Rows
  <2> QED  BY <1>2, <2>1 DEF Backed
<1>3. \A i \in 1..Len(q) : Backed(s, t + 1, q[i])
  BY <1>1, <1>2
<1> QED  BY <1>3 DEF Row

(* One message, which is about what has just been taken.                   *)
LEMMA OneRow ==
  ASSUME NEW s, NEW t \in Nat, NEW q, Row(s, t, q)
  PROVE  /\ Row(s, t + 1, <<Says(t + 1, 0)>>) /\ Before(q, <<Says(t + 1, 0)>>)
         /\ Mentions(<<Says(t + 1, 0)>>, t + 1)
         /\ Len(<<Says(t + 1, 0)>>) = 1 /\ <<Says(t + 1, 0)>>[1].event = t + 1
<1>1. PICK m \in Rows : m = Says(t + 1, 0) /\ m.event = t + 1 /\ m.more = 0
  BY SaysIs
<1>2. <<m>> \in Seq(Rows) /\ Len(<<m>>) = 1 /\ <<m>>[1] = m
  OBVIOUS
<1>3. Backed(s, t + 1, m)
  BY <1>1 DEF Backed
<1>4. Row(s, t + 1, <<m>>)
  <2>1. \A i \in 1..1 : i = 1
    OBVIOUS
  <2> QED  BY <1>2, <1>3, <2>1 DEF Row, Increasing
<1>5. Before(q, <<m>>)
  <2>1. q \in Seq(Rows) /\ \A i \in 1..Len(q) : Backed(s, t, q[i]) /\ q[i] \in Rows
    BY DEF Row
  <2>2. \A i \in 1..Len(q) : q[i].event <= t /\ q[i].event \in Nat
    BY <2>1 DEF Backed, Rows
  <2>3. \A i \in 1..Len(q), j \in 1..1 : q[i].event < <<m>>[j].event
    <3>1. \A j \in 1..1 : <<m>>[j].event = t + 1
      <4>1. \A j \in 1..1 : j = 1
        OBVIOUS
      <4> QED  BY <1>1, <1>2, <4>1
    <3> QED  BY <2>2, <3>1
  <2> QED  BY <1>2, <2>3 DEF Before
<1>6. Mentions(<<m>>, t + 1)
  BY <1>1, <1>2 DEF Mentions
<1> QED  BY <1>1, <1>2, <1>4, <1>5, <1>6

(* What is said of an event is not unsaid.                                 *)
LEMMA StillHeard ==
  ASSUME NEW s, NEW q, NEW b, NEW r, NEW c, NEW i, Heard(s, q, b, i),
         Mentions(q, i) \/ Mentions(b, i) => Mentions(r, i) \/ Mentions(c, i)
  PROVE  Heard(s, r, c, i)
BY DEF Heard

(* The batch with its count.                                               *)
CountedOf(b, n) == IF b = <<>> THEN <<>> ELSE WithCount(b, n)

LEMMA CountedIs ==
  ASSUME NEW s, NEW t \in Nat, NEW q, NEW b, NEW l, NEW n \in Nat, Chat(s, t, q, b, l, n),
         NEW c, c = CountedOf(b, n)
  PROVE  /\ Row(s, t, c) /\ Before(q, c) /\ Len(c) = Len(b)
         /\ \A i : Mentions(c, i) <=> Mentions(b, i)
<1>1. Row(s, t, b) /\ Before(q, b) /\ Counting(s, t, b, l, n) /\ b \in Seq(Rows)
  BY DEF Chat, Row
<1>2. Row(s, t, c) /\ Len(c) = Len(b) /\ \A i \in 1..Len(b) : c[i].event = b[i].event
  <2>1. CASE b = <<>>
    BY <1>1, <2>1 DEF CountedOf
  <2>2. CASE b # <<>>
    <3>1. c = WithCount(b, n)
      BY <2>2 DEF CountedOf
    <3>2. /\ Row(s, t, WithCount(b, n)) /\ Len(WithCount(b, n)) = Len(b)
          /\ \A i \in 1..Len(b) : WithCount(b, n)[i].event = b[i].event
      <4>1. Row(s, t, b) /\ Counting(s, t, b, l, n) /\ b # <<>> /\ t \in Nat /\ n \in Nat
        BY <1>1, <2>2
      <4> QED  BY ONLY <4>1, CountedRow
    <3> QED  BY <3>1, <3>2
  <2> QED  BY <2>1, <2>2
<1> QED  BY <1>1, <1>2 DEF Before, Mentions

LEMMA NoRow ==
  ASSUME NEW s, NEW t, NEW q
  PROVE  Row(s, t, <<>>) /\ Before(q, <<>>)
<1>1. <<>> \in Seq(Rows) /\ Len(<<>>) = 0
  OBVIOUS
<1> QED  BY <1>1 DEF Row, Before, Increasing

(* The batch goes out.                                                     *)
LEMMA FlushedChat ==
  ASSUME NEW s, NEW t \in Nat, NEW q, NEW b, NEW l, NEW n \in Nat, Chat(s, t, q, b, l, n),
         NEW k, NEW m, k = l \/ k = ""
  PROVE  Chat(s, t, q \o CountedOf(b, n), <<>>, k, m)
<1>1. PICK c : c = CountedOf(b, n)
  OBVIOUS
<1>2. Row(s, t, c) /\ Before(q, c) /\ \A i : Mentions(c, i) <=> Mentions(b, i)
  BY <1>1, CountedIs
<1>3. Row(s, t, q) /\ (l # "" => LastTool(s, t, l)) /\ \A i \in 1..t : Heard(s, q, b, i)
  BY DEF Chat
<1>4. Row(s, t, q \o c) /\ \A i : Mentions(q \o c, i) <=> Mentions(q, i) \/ Mentions(c, i)
  BY <1>2, <1>3, JoinedRow
<1>5. PICK r : r = q \o c
  OBVIOUS
<1>6. \A i \in 1..t : Heard(s, r, <<>>, i)
  BY <1>2, <1>3, <1>4, <1>5 DEF Heard
<1>7. Row(s, t, <<>>) /\ Before(r, <<>>) /\ Counting(s, t, <<>>, k, m)
  BY NoRow DEF Counting
<1>8. k # "" => LastTool(s, t, k)
  BY <1>3
<1> QED  BY <1>1, <1>4, <1>5, <1>6, <1>7, <1>8 DEF Chat

(* What is no tool call is said behind the batch, or is the Done.          *)
LEMMA OtherTaken ==
  ASSUME NEW s, NEW t \in Nat, NEW q, NEW l, NEW n \in Nat, Chat(s, t, q, <<>>, l, n),
         s[t + 1].type # "Tool",
         NEW r, r = <<Says(t + 1, 0)>> \/ (r = <<>> /\ s[t + 1].type = "Done")
  PROVE  Chat(s, t + 1, q \o r, <<>>, l, n)
<1>1. /\ Row(s, t, q) /\ Row(s, t, <<>>) /\ (l # "" => LastTool(s, t, l))
      /\ \A i \in 1..t : Heard(s, q, <<>>, i)
  BY DEF Chat
<1>2. Row(s, t + 1, q) /\ Row(s, t + 1, <<>>)
  BY <1>1, LaterRow
<1>3. Row(s, t + 1, r) /\ Before(q, r)
  <2>1. CASE r = <<Says(t + 1, 0)>>
    BY <1>1, <2>1, OneRow
  <2>2. CASE r = <<>>
    BY <2>2, NoRow
  <2> QED  BY <2>1, <2>2
<1>4. Row(s, t + 1, q \o r) /\ \A i : Mentions(q \o r, i) <=> Mentions(q, i) \/ Mentions(r, i)
  BY <1>2, <1>3, JoinedRow
<1>5. PICK a : a = q \o r
  OBVIOUS
<1>6. ASSUME NEW i \in 1..(t + 1)  PROVE Heard(s, a, <<>>, i)
  <2>1. CASE i = t + 1
    <3>1. r = <<Says(t + 1, 0)>> => Mentions(r, i)
      BY <1>1, <2>1, OneRow
    <3> QED  BY <1>4, <1>5, <2>1, <3>1 DEF Heard
  <2>2. CASE i \in 1..t
    BY <1>1, <1>4, <1>5, <2>2, StillHeard
  <2> QED  BY <2>1, <2>2
<1>7. l # "" => LastTool(s, t + 1, l)
  <2> SUFFICES ASSUME LastTool(s, t, l) PROVE LastTool(s, t + 1, l)
    BY <1>1
  <2>1. PICK u \in 1..t : s[u].type = "Tool" /\ s[u].arg = l /\ SameCalls(s, u, t)
    BY DEF LastTool
  <2>2. \A v \in u..(t + 1) : v \in u..t \/ v = t + 1
    BY <2>1
  <2>3. SameCalls(s, u, t + 1)
    BY <2>1, <2>2 DEF SameCalls
  <2>4. u \in 1..(t + 1)
    BY <2>1
  <2> QED  BY <2>1, <2>3, <2>4 DEF LastTool
<1>8. Before(a, <<>>) /\ Counting(s, t + 1, <<>>, l, n)
  BY NoRow DEF Counting
<1> QED  BY <1>2, <1>4, <1>5, <1>6, <1>7, <1>8 DEF Chat

(* A call like the last one is only counted.                               *)
CallOf(s, i, l) == s[i].type = "Tool" /\ s[i].arg = l

LEMMA RepeatTaken ==
  ASSUME NEW s, NEW t \in Nat, NEW q, NEW b, NEW l, NEW n \in Nat, Chat(s, t, q, b, l, n),
         CallOf(s, t + 1, l), LastTool(s, t, l)
  PROVE  Chat(s, t + 1, q, b, l, n + 1)
<1>1. /\ Row(s, t, q) /\ Row(s, t, b) /\ Before(q, b)
      /\ \A i \in 1..t : Heard(s, q, b, i)
      /\ Counting(s, t, b, l, n)
  BY DEF Chat
<1>2. Row(s, t + 1, q) /\ Row(s, t + 1, b)
  BY <1>1, LaterRow
<1>3. PICK u \in 1..t : s[u].type = "Tool" /\ s[u].arg = l /\ SameCalls(s, u, t)
  BY DEF LastTool
<1>4. SameCalls(s, u, t + 1) /\ u \in 1..(t + 1) /\ u \in 1..(t + 1 - 1)
  <2>1. \A v \in u..(t + 1) : v \in u..t \/ v = t + 1
    BY <1>3
  <2>2. SameCalls(s, u, t + 1)
    BY <1>3, <2>1 DEF SameCalls, CallOf
  <2> QED  BY <1>3, <2>2
<1>5. LastTool(s, t + 1, l)
  BY <1>3, <1>4 DEF LastTool
<1>6. ASSUME NEW i \in 1..(t + 1)  PROVE Heard(s, q, b, i)
  <2>1. CASE i = t + 1
    BY <1>3, <1>4, <2>1 DEF Heard, CallOf
  <2>2. CASE i \in 1..t
    BY <1>1, <2>2
  <2> QED  BY <2>1, <2>2
<1>7. Counting(s, t + 1, b, l, n + 1)
  <2> SUFFICES ASSUME b # <<>>
               PROVE  /\ b[Len(b)].event + (n + 1) = t + 1
                      /\ \A u2 \in b[Len(b)].event..(t + 1) : s[u2].type = "Tool" /\ s[u2].arg = l
    BY DEF Counting
  <2>1. b \in Seq(Rows)
    BY <1>1 DEF Row
  <2>2. b[Len(b)] \in Rows
    BY <2>1
  <2>3. PICK e \in Nat : e = b[Len(b)].event
    BY <2>2 DEF Rows
  <2>4. e + n = t /\ \A v \in e..t : s[v].type = "Tool" /\ s[v].arg = l
    BY <1>1, <2>3 DEF Counting
  <2>5. \A v \in e..(t + 1) : v \in e..t \/ v = t + 1
    BY <2>3
  <2>6. \A v \in e..(t + 1) : s[v].type = "Tool" /\ s[v].arg = l
    BY <2>4, <2>5 DEF CallOf
  <2>7. e + (n + 1) = t + 1
    BY <2>3, <2>4
  <2> QED  BY <2>3, <2>6, <2>7
<1> QED  BY <1>1, <1>2, <1>5, <1>6, <1>7 DEF Chat

LEMMA RowsJoined ==
  ASSUME NEW S, NEW c \in Seq(S), NEW r \in Seq(S)
  PROVE  /\ Len(c \o r) = Len(c) + Len(r) /\ Len(c) \in Nat /\ Len(r) \in Nat
         /\ \A i \in 1..Len(c) : (c \o r)[i] = c[i]
         /\ \A i \in 1..Len(r) : (c \o r)[Len(c) + i] = r[i]
OBVIOUS

Lone(r) == Len(r) = 1

LEMMA RowAppended ==
  ASSUME NEW c \in Seq(Rows), NEW r \in Seq(Rows), Lone(r)
  PROVE  /\ Len(c \o r) = Len(c) + 1 /\ Len(c) \in Nat
         /\ (c \o r)[Len(c \o r)] = r[1]
         /\ \A i \in 1..Len(c \o r) : (i \in 1..Len(c) /\ (c \o r)[i] = c[i]) \/ (c \o r)[i] = r[1]
<1>1. /\ Len(c \o r) = Len(c) + Len(r) /\ Len(c) \in Nat /\ Len(r) \in Nat
      /\ \A i \in 1..Len(c) : (c \o r)[i] = c[i]
      /\ \A i \in 1..Len(r) : (c \o r)[Len(c) + i] = r[i]
  BY RowsJoined
<1>2. Len(r) = 1
  BY DEF Lone
<1>3. PICK k \in Nat : k = Len(c)
  BY <1>1
<1>4. PICK a : a = c \o r
  OBVIOUS
<1>5. Len(a) = k + 1 /\ \A i \in 1..k : a[i] = c[i]
  BY <1>1, <1>2, <1>3, <1>4
<1>6. a[k + 1] = r[1]
  <2>1. 1 \in 1..Len(r)
    BY <1>2
  <2> QED  BY <1>1, <1>3, <1>4, <2>1
<1>7. \A i \in 1..(k + 1) : i \in 1..k \/ i = k + 1
  BY <1>3
<1> QED  BY <1>3, <1>4, <1>5, <1>6, <1>7

(* A call of another tool is a line of the batch, behind the others.       *)
LEMMA OtherCallTaken ==
  ASSUME NEW s, NEW t \in Nat, NEW q, NEW b, NEW l, NEW n \in Nat, Chat(s, t, q, b, l, n),
         s[t + 1].type = "Tool"
  PROVE  Chat(s, t + 1, q, CountedOf(b, n) \o <<Says(t + 1, 0)>>, s[t + 1].arg, 0)
<1>1. PICK c : c = CountedOf(b, n)
  OBVIOUS
<1>2. Row(s, t, c) /\ Before(q, c) /\ \A i : Mentions(c, i) <=> Mentions(b, i)
  BY <1>1, CountedIs
<1>3. Row(s, t, q) /\ \A i \in 1..t : Heard(s, q, b, i)
  BY DEF Chat
<1>4. PICK r : r = <<Says(t + 1, 0)>>
  OBVIOUS
<1>5. /\ Row(s, t + 1, r) /\ Before(q, r) /\ Before(c, r) /\ Mentions(r, t + 1)
      /\ Len(r) = 1 /\ r[1].event = t + 1
  BY <1>2, <1>3, <1>4, OneRow
<1>6. Row(s, t + 1, q) /\ Row(s, t + 1, c)
  BY <1>2, <1>3, LaterRow
<1>7. Row(s, t + 1, c \o r) /\ \A i : Mentions(c \o r, i) <=> Mentions(c, i) \/ Mentions(r, i)
  BY <1>5, <1>6, JoinedRow
<1>8. c \in Seq(Rows) /\ r \in Seq(Rows)
  BY <1>5, <1>6 DEF Row
<1>9. PICK a : a = c \o r
  OBVIOUS
<1>10. /\ Len(a) = Len(c) + 1 /\ Len(c) \in Nat /\ a[Len(a)] = r[1]
       /\ \A i \in 1..Len(a) : (i \in 1..Len(c) /\ a[i] = c[i]) \/ a[i] = r[1]
  <2>1. Len(r) = 1
    BY <1>5
  <2>3. Lone(r)
    BY <2>1 DEF Lone
  <2> QED  BY <1>8, <1>9, <2>3, RowAppended
<1>11. Before(q, a)
  <2>1. Len(r) = 1 /\ \A i \in 1..Len(q) : q[i].event < r[1].event
    <3>1. 1 \in 1..Len(r)
      BY <1>5
    <3> QED  BY <1>5, <3>1 DEF Before
  <2>2. \A i \in 1..Len(q), j \in 1..Len(c) : q[i].event < c[j].event
    BY <1>2 DEF Before
  <2>3. \A i \in 1..Len(q), j \in 1..Len(a) : q[i].event < a[j].event
    BY <1>10, <2>1, <2>2
  <2> QED  BY <2>3 DEF Before
<1>12. ASSUME NEW i \in 1..(t + 1)  PROVE Heard(s, q, a, i)
  <2>1. CASE i = t + 1
    BY <1>5, <1>7, <1>9, <2>1 DEF Heard
  <2>2. CASE i \in 1..t
    BY <1>2, <1>3, <1>7, <1>9, <2>2, StillHeard
  <2> QED  BY <2>1, <2>2
<1>13. LastTool(s, t + 1, s[t + 1].arg)
  <2>1. \A v \in (t + 1)..(t + 1) : v = t + 1
    OBVIOUS
  <2>2. SameCalls(s, t + 1, t + 1) /\ t + 1 \in 1..(t + 1)
    BY <2>1 DEF SameCalls
  <2> QED  BY <2>2 DEF LastTool
<1>14. Counting(s, t + 1, a, s[t + 1].arg, 0)
  <2>1. \A v \in (t + 1)..(t + 1) : v = t + 1
    OBVIOUS
  <2>2. a[Len(a)].event = t + 1
    BY <1>5, <1>10
  <2> QED  BY <2>1, <2>2 DEF Counting
<1> QED  BY <1>1, <1>4, <1>6, <1>7, <1>9, <1>11, <1>12, <1>13, <1>14 DEF Chat

LEMMA NothingChat ==
  ASSUME NEW s, NEW n
  PROVE  Chat(s, 0, <<>>, <<>>, "", n)
<1>1. <<>> \in Seq(Rows) /\ Len(<<>>) = 0
  OBVIOUS
<1>2. \A i \in 1..0 : FALSE
  OBVIOUS
<1> QED  BY <1>1, <1>2, NoRow DEF Chat, Row, Increasing, Counting

------------------------------------------------------------------------------
Chatting ==
  /\ Chat(sent, taken, said, batch, last, more) /\ more \in Nat
  /\ driver = "idle" => said = <<>> /\ batch = <<>> /\ last = "" /\ more = 0
  /\ driver \in {"done", "error", "closed"} => batch = <<>>

ChatInv == TurnInv /\ Chatting

(* The next call.                                                          *)
LEMMA TakeToolChat ==
  ASSUME ChatInv, TakeTool
  PROVE  Chatting'
<1> DEFINE next == IF Repeated THEN batch ELSE Append(Counted, Says(taken + 1, 0))
           n == IF Repeated THEN more + 1 ELSE 0
<1>1. /\ driver = "driving" /\ driver' = "driving" /\ taken' = taken + 1 /\ sent' = sent
      /\ taken < Len(sent) /\ sent[taken + 1].type = "Tool" /\ last' = sent[taken + 1].arg
      /\ \/ batch' = next /\ more' = n /\ said' = said
         \/ next # <<>> /\ said' = said \o WithCount(next, n) /\ batch' = <<>> /\ more' = 0
  BY DEF TakeTool, Receives, taskVars
<1>2. taken \in Nat /\ more \in Nat /\ Chat(sent, taken, said, batch, last, more)
      /\ sent \in Seq(Events)
  BY DEF ChatInv, Chatting, TurnInv, Hears, Types
<1>3. n \in Nat
  BY <1>2
<1>4. sent[taken + 1].arg # ""
  <2>1. taken + 1 \in 1..Len(sent)
    BY <1>1, <1>2
  <2>2. sent[taken + 1] \in Events
    BY <1>2, <2>1
  <2> QED  BY <1>1, <2>2 DEF Events
<1>5. Chat(sent, taken + 1, said, next, sent[taken + 1].arg, n)
  <2>1. CASE Repeated
    <3>1. sent[taken + 1].arg = last /\ last # ""
      BY <1>4, <2>1 DEF Repeated
    <3>2. CallOf(sent, taken + 1, last) /\ LastTool(sent, taken, last)
      BY <1>1, <1>2, <3>1 DEF CallOf, Chat
    <3>3. Chat(sent, taken + 1, said, batch, last, more + 1)
      BY <1>2, <3>2, RepeatTaken
    <3> QED  BY <2>1, <3>1, <3>3
  <2>2. CASE ~Repeated
    <3>1. Chat(sent, taken + 1, said, CountedOf(batch, more) \o <<Says(taken + 1, 0)>>,
               sent[taken + 1].arg, 0)
      BY <1>1, <1>2, OtherCallTaken
    <3>2. Counted = CountedOf(batch, more)
      BY DEF Counted, CountedOf
    <3>3. Counted \in Seq(Rows)
      BY <1>2, <3>2, CountedIs DEF Row
    <3>4. Says(taken + 1, 0) \in Rows
      BY <1>2, SaysIs
    <3>5. Append(Counted, Says(taken + 1, 0)) = Counted \o <<Says(taken + 1, 0)>>
      BY <3>3, <3>4
    <3> QED  BY <2>2, <3>1, <3>2, <3>5
  <2> QED  BY <2>1, <2>2
<1> HIDE DEF next, n
<1>6. CASE batch' = next /\ more' = n /\ said' = said
  BY <1>1, <1>3, <1>5, <1>6 DEF Chatting
<1>7. CASE next # <<>> /\ said' = said \o WithCount(next, n) /\ batch' = <<>> /\ more' = 0
  <2>1. Chat(sent, taken + 1, said \o CountedOf(next, n), <<>>, sent[taken + 1].arg, 0)
    <3>1. taken + 1 \in Nat
      BY <1>2
    <3> QED  BY <1>3, <1>5, <3>1, FlushedChat
  <2>2. CountedOf(next, n) = WithCount(next, n)
    BY <1>7 DEF CountedOf
  <2> QED  BY <1>1, <1>7, <2>1, <2>2 DEF Chatting
<1> QED  BY <1>1, <1>6, <1>7

(* Anything else.                                                          *)
LEMMA TakeOtherChat ==
  ASSUME ChatInv, NEW rest, SendBatch(rest), driver = "driving", UNCHANGED taskVars,
         taken < Len(sent), taken' = taken + 1, sent[taken + 1].type # "Tool",
         rest = <<Says(taken + 1, 0)>> \/ (rest = <<>> /\ sent[taken + 1].type = "Done"),
         driver' \in {"driving", "done", "error"}
  PROVE  Chatting'
<1>1. taken \in Nat /\ more \in Nat /\ Chat(sent, taken, said, batch, last, more)
  BY DEF ChatInv, Chatting, TurnInv, Hears
<1>2. /\ said' = (said \o Counted) \o rest /\ batch' = <<>>
      /\ (last' = last \/ last' = "") /\ more' \in Nat /\ sent' = sent
  BY <1>1 DEF SendBatch, taskVars
<1>3. Counted = CountedOf(batch, more)
  BY DEF Counted, CountedOf
<1>4. Chat(sent, taken, said \o Counted, <<>>, last', more')
  BY <1>1, <1>2, <1>3, FlushedChat
<1>5. Chat(sent, taken + 1, (said \o Counted) \o rest, <<>>, last', more')
  BY <1>1, <1>2, <1>4, OtherTaken
<1> QED  BY <1>2, <1>5 DEF Chatting

(* The driver gives up at the end of a stream, which is no tool call.      *)
LEMMA NoBatchAtEnd ==
  ASSUME ChatInv, task = "over", taken = Len(sent)
  PROVE  batch = <<>>
<1> SUFFICES ASSUME batch # <<>> PROVE FALSE
  OBVIOUS
<1>1. taken \in Nat /\ more \in Nat /\ Chat(sent, taken, said, batch, last, more)
  BY DEF ChatInv, Chatting, TurnInv, Hears
<1>2. batch \in Seq(Rows) /\ Counting(sent, taken, batch, last, more)
  BY <1>1 DEF Chat, Row
<1>3. batch[Len(batch)] \in Rows
  BY <1>2
<1>4. PICK e \in Nat : e = batch[Len(batch)].event
  BY <1>3 DEF Rows
<1>5. e + more = taken /\ \A u \in e..taken : sent[u].type = "Tool"
  BY <1>2, <1>4 DEF Counting
<1>6. sent[taken].type = "Tool"
  <2>1. taken \in e..taken
    BY <1>1, <1>4, <1>5
  <2> QED  BY <1>5, <2>1
<1> QED  BY <1>6 DEF ChatInv, TurnInv, Ends, Ended, LastDone

LEMMA TaskChat ==
  ASSUME ChatInv, TaskNext, UNCHANGED driverVars
  PROVE  Chatting'
<1>1. PICK evs \in Seq(Events) : Sends(evs)
  BY TaskStep DEF ChatInv, TurnInv
<1>2. sent \in Seq(Events) /\ taken \in Nat /\ taken <= Len(sent) /\ more \in Nat
      /\ Chat(sent, taken, said, batch, last, more)
  BY DEF ChatInv, Chatting, TurnInv, Hears, Types
<1>3. \A i \in 1..taken : sent'[i] = sent[i]
  <2>1. \A i \in 1..Len(sent) : (sent \o evs)[i] = sent[i]
    BY <1>2, Joined
  <2>2. \A i \in 1..taken : i \in 1..Len(sent)
    BY <1>2
  <2> QED  BY <1>1, <2>1, <2>2 DEF Sends
<1>4. Chat(sent', taken, said, batch, last, more)
  BY <1>2, <1>3, SamePast
<1> QED  BY <1>4 DEF ChatInv, Chatting, driverVars

LEMMA BeginChat ==
  ASSUME ChatInv,
         \/ \E r \in Requests : Prompt(r[1], r[2], r[3])
         \/ \E k \in Kinds : Passthrough(k)
  PROVE  Chatting'
<1>1. driver = "idle" /\ driver' = "driving" /\ UNCHANGED <<taken, batch, last, more, said>>
  BY DEF Prompt, Passthrough, AtRest, StartDriving
<1>2. taken = 0 /\ said = <<>> /\ batch = <<>> /\ last = "" /\ more = 0
  BY <1>1 DEF ChatInv, Chatting, TurnInv, Hears
<1>3. Chat(sent', 0, <<>>, <<>>, "", 0)
  BY NothingChat
<1> QED  BY <1>1, <1>2, <1>3 DEF Chatting

LEMMA TakeChat ==
  ASSUME ChatInv, Take
  PROVE  Chatting'
<1>1. CASE TakeTool
  BY <1>1, TakeToolChat
<1>2. CASE TakeText \/ TakeFile \/ TakeStructured
  <2>1. /\ SendBatch(<<Says(taken + 1, 0)>>) /\ driver = "driving" /\ UNCHANGED taskVars
        /\ taken < Len(sent) /\ taken' = taken + 1 /\ sent[taken + 1].type # "Tool"
        /\ driver' = driver
    BY <1>2 DEF TakeText, TakeFile, TakeStructured, Receives
  <2> QED  BY <2>1, TakeOtherChat
<1>3. CASE TakeDone
  <2>1. /\ SendBatch(<<>>) /\ driver = "driving" /\ UNCHANGED taskVars /\ driver' = "done"
        /\ taken < Len(sent) /\ taken' = taken + 1 /\ sent[taken + 1].type = "Done"
    BY <1>3 DEF TakeDone, Receives
  <2> QED  BY <2>1, TakeOtherChat
<1>4. CASE TakeError
  <2>1. /\ SendBatch(<<Says(taken + 1, 0)>>) /\ driver = "driving" /\ UNCHANGED taskVars
        /\ taken < Len(sent) /\ taken' = taken + 1 /\ sent[taken + 1].type # "Tool"
        /\ driver' = "error"
    BY <1>4 DEF TakeError, Receives
  <2> QED  BY <2>1, TakeOtherChat
<1>5. CASE StreamCloses
  <2>1. task = "over" /\ taken = Len(sent) /\ driver' = "closed"
        /\ sent' = sent /\ UNCHANGED <<taken, batch, last, more, said>>
    BY <1>5 DEF StreamCloses, taskVars
  <2>2. batch = <<>>
    BY <2>1, NoBatchAtEnd
  <2> QED  BY <2>1, <2>2 DEF ChatInv, Chatting
<1> QED  BY <1>1, <1>2, <1>3, <1>4, <1>5 DEF Take

LEMMA EndChat ==
  ASSUME ChatInv, EndTurn
  PROVE  Chatting'
<1>1. /\ taken' = 0 /\ batch' = <<>> /\ last' = "" /\ more' = 0 /\ said' = <<>>
      /\ driver' = "idle" /\ sent' = sent
  BY DEF EndTurn
<1>2. Chat(sent, 0, <<>>, <<>>, "", 0)
  BY NothingChat
<1> QED  BY <1>1, <1>2 DEF Chatting

LEMMA HangChat ==
  ASSUME ChatInv, SendHangs \/ SendReturns
  PROVE  Chatting'
<1>1. UNCHANGED <<sent, taken, batch, last, more, said>> /\ driver' \in {"driving", "stuck"}
  BY DEF SendHangs, SendReturns, taskVars
<1> QED  BY <1>1 DEF ChatInv, Chatting

LEMMA ChatInvariance == Spec => []ChatInv
<1>1. Init => ChatInv
  <2> SUFFICES ASSUME Init PROVE ChatInv
    OBVIOUS
  <2>1. driver = "idle" /\ taken = 0 /\ said = <<>> /\ batch = <<>> /\ last = "" /\ more = 0
    BY DEF Init
  <2>2. Chat(sent, 0, <<>>, <<>>, "", 0)
    BY NothingChat
  <2> QED  BY <2>1, <2>2, InitTurn DEF ChatInv, Chatting
<1>2. ChatInv /\ [Next]_vars => ChatInv'
  <2> SUFFICES ASSUME ChatInv, [Next]_vars PROVE ChatInv'
    OBVIOUS
  <2>1. TurnInv'
    BY TaskTurn, BeginTurn, TakeTurn, ChatHangs, EndsTurn, StillTurn DEF Next, ChatInv
  <2>2. Chatting'
    <3>1. CASE UNCHANGED vars
      BY <3>1 DEF vars, taskVars, driverVars, ChatInv, Chatting
    <3>2. CASE Next
      BY <3>2, TaskChat, BeginChat, TakeChat, HangChat, EndChat DEF Next
    <3> QED  BY <3>1, <3>2
  <2> QED  BY <2>1, <2>2 DEF ChatInv
<1> QED  BY <1>1, <1>2, PTL DEF Spec

LEMMA OrderKept == ChatInv => SaidInOrder
<1> SUFFICES ASSUME ChatInv PROVE SaidInOrder
  OBVIOUS
<1>1. said \in Seq(Rows) /\ Increasing(said)
  BY DEF ChatInv, Chatting, Chat, Row
<1>2. DOMAIN said = 1..Len(said)
  BY <1>1
<1> QED  BY <1>1, <1>2 DEF SaidInOrder, Increasing

LEMMA AllHeard == ChatInv => NothingSkipped
<1> SUFFICES ASSUME ChatInv, driver \in {"done", "error", "closed"}, NEW i \in 1..taken
             PROVE  \/ IsSaid(i)
                    \/ sent[i].type = "Done"
                    \/ i \in ToolEvents /\ \E t \in ToolEvents : t < i /\ SameRun(t, i)
  BY DEF NothingSkipped
<1>1. batch = <<>> /\ Chat(sent, taken, said, batch, last, more) /\ taken \in Nat
  BY DEF ChatInv, Chatting, TurnInv, Hears
<1>2. said \in Seq(Rows) /\ Heard(sent, said, <<>>, i)
  BY <1>1 DEF Chat, Row
<1>3. CASE Mentions(said, i)
  <2>1. \E j \in DOMAIN said : said[j].event = i
    BY <1>2, <1>3 DEF Mentions
  <2> QED  BY <2>1 DEF IsSaid, ToSet
<1>4. CASE Mentions(<<>>, i)
  <2>1. Len(<<>>) = 0 /\ \A j \in 1..0 : FALSE
    OBVIOUS
  <2> QED  BY <1>4, <2>1 DEF Mentions
<1>5. CASE /\ sent[i].type = "Tool"
           /\ \E u \in 1..(i - 1) : sent[u].type = "Tool" /\ SameCalls(sent, u, i)
  <2>1. PICK u \in 1..(i - 1) : sent[u].type = "Tool" /\ SameCalls(sent, u, i)
    BY <1>5
  <2>2. u \in 1..taken /\ u < i
    BY <1>1, <2>1
  <2>3. SameRun(u, i)
    BY <2>1 DEF SameRun, SameCalls, ToolEvents
  <2> QED  BY <1>5, <2>1, <2>2, <2>3 DEF ToolEvents
<1> QED  BY <1>2, <1>3, <1>4, <1>5 DEF Heard

LEMMA CountsHold == ChatInv => CountsTrue
<1> SUFFICES ASSUME ChatInv, NEW m \in ToSet(said), m.more > 0
             PROVE  \E j \in ToolEvents :
                      /\ SameRun(m.event, j)
                      /\ Cardinality({t \in ToolEvents : m.event < t /\ t <= j}) = m.more
  BY DEF CountsTrue
<1>1. Chat(sent, taken, said, batch, last, more) /\ taken \in Nat
  BY DEF ChatInv, Chatting, TurnInv, Hears
<1>2. said \in Seq(Rows) /\ \A i \in 1..Len(said) : Backed(sent, taken, said[i])
  BY <1>1 DEF Chat, Row
<1>3. m \in Rows /\ Backed(sent, taken, m)
  <2>1. PICK i \in DOMAIN said : m = said[i]
    BY DEF ToSet
  <2>2. i \in 1..Len(said)
    BY <1>2, <2>1
  <2> QED  BY <1>2, <2>1, <2>2
<1>4. PICK e \in Nat, k \in Nat : e = m.event /\ k = m.more
  BY <1>3 DEF Rows
<1>5. /\ k # 0 /\ 1 <= e /\ e + k <= taken
      /\ \A u \in e..(e + k) : sent[u].type = "Tool" /\ sent[u].arg = sent[e].arg
  BY <1>3, <1>4 DEF Backed
<1>6. e + k \in ToolEvents
  <2>1. e + k \in 1..taken /\ e + k \in e..(e + k)
    BY <1>1, <1>4, <1>5
  <2> QED  BY <1>5, <2>1 DEF ToolEvents
<1>7. SameRun(e, e + k)
  BY <1>5 DEF SameRun
<1>8. {t \in ToolEvents : e < t /\ t <= e + k} = (e + 1)..(e + k)
  <2>1. ASSUME NEW t \in ToolEvents, e < t, t <= e + k  PROVE t \in (e + 1)..(e + k)
    BY <1>1, <1>4, <2>1 DEF ToolEvents
  <2>2. ASSUME NEW t \in (e + 1)..(e + k)  PROVE t \in ToolEvents /\ e < t /\ t <= e + k
    <3>1. t \in 1..taken /\ t \in e..(e + k) /\ e < t /\ t <= e + k
      BY <1>1, <1>4, <1>5
    <3> QED  BY <1>5, <3>1 DEF ToolEvents
  <2> QED  BY <2>1, <2>2
<1>9. Cardinality((e + 1)..(e + k)) = k
  <2>1. e + 1 \in Int /\ e + k \in Int /\ ~(e + 1 > e + k) /\ (e + k) - (e + 1) + 1 = k
    BY <1>4, <1>5
  <2> QED  BY <2>1, FS_Interval
<1> QED  BY <1>4, <1>6, <1>7, <1>8, <1>9

(* drive_harness tells the chat of everything a turn brought, in the order *)
(* in which it happened, but for calls like the one before; a count it     *)
(* shows is one of calls that there were.                                  *)
THEOREM ChatHearsAll == Spec => []ChatFaithful
  BY ChatInvariance, OrderKept, AllHeard, CountsHold, PTL DEF ChatFaithful

------------------------------------------------------------------------------
(* The answer: s is the stream; what it says of the line n of the log.     *)
Speaks(s, n) ==
  \E i \in 1..Len(s) : s[i].type \in {"Text", "Structured"} /\ n \in ToSet(s[i].lines)

Fails(s) == \E i \in 1..Len(s) : s[i].type = "Error"

Out(s, n) == Speaks(s, n) \/ Fails(s)

Completed(L) == \E k \in 1..Len(L) : L[k].type = "turn.completed"

(* A text that is in the locals of the read loop and can still be sent, or *)
(* that belongs to a structured turn of codex that was not completed.      *)
Held(n) ==
  \/ Structured /\ ~Completed(log) /\ (task = "reading" => n \in ToSet(rd.text))
  \/ kind \in {"gemini", "claude"} /\ task \in {"reading", "flush"} /\ n \in ToSet(rd.text)

TextsKept == \A n \in 1..Len(log) : IsText(log[n]) => Out(sent, n) \/ Held(n)

Unstarted == task \in {"idle", "spawn", "sub"} => log = <<>> /\ rd.pending = {}

NotCompleted == kind = "codex" /\ task = "reading" => ~Completed(log)

TextInv == TextsKept /\ Unstarted /\ NotCompleted

LEMMA SetOf ==
  /\ ToSet(<<>>) = {}
  /\ \A n \in Nat : ToSet(<<n>>) = {n}
  /\ \A s \in Seq(Nat) : \A n \in Nat : ToSet(Append(s, n)) = ToSet(s) \union {n}
<1>1. ToSet(<<>>) = {}
  BY DEF ToSet
<1>2. ASSUME NEW n \in Nat
      PROVE  ToSet(<<n>>) = {n}
  <2>1. DOMAIN <<n>> = {1} /\ <<n>>[1] = n
    OBVIOUS
  <2> QED  BY <2>1 DEF ToSet
<1>3. ASSUME NEW s \in Seq(Nat), NEW n \in Nat
      PROVE  ToSet(Append(s, n)) = ToSet(s) \union {n}
  <2> DEFINE a == Append(s, n)
  <2>1. /\ DOMAIN s = 1..Len(s) /\ DOMAIN a = 1..(Len(s) + 1) /\ Len(s) \in Nat
        /\ \A i \in 1..Len(s) : a[i] = s[i]
        /\ a[Len(s) + 1] = n
    OBVIOUS
  <2> HIDE DEF a
  <2>2. \A i : i \in DOMAIN a <=> i \in DOMAIN s \/ i = Len(s) + 1
    BY <2>1
  <2>3. ToSet(a) = ToSet(s) \union {n}
    BY <2>1, <2>2 DEF ToSet
  <2> QED  BY <2>3 DEF a
<1> QED  BY <1>1, <1>2, <1>3

LEMMA OutJoined ==
  ASSUME NEW r \in Seq(Events), NEW s \in Seq(Events)
  PROVE  /\ \A n : Out(r, n) \/ Out(s, n) => Out(r \o s, n)
         /\ Fails(r) \/ Fails(s) <=> Fails(r \o s)
<1>1. /\ Len(r) \in Nat /\ Len(s) \in Nat /\ Len(r \o s) = Len(r) + Len(s)
      /\ \A i \in 1..Len(r) : (r \o s)[i] = r[i]
      /\ \A i \in 1..Len(s) : (r \o s)[Len(r) + i] = s[i]
      /\ \A i \in 1..Len(r \o s) : i \in 1..Len(r) \/ i - Len(r) \in 1..Len(s)
  BY Joined
<1>2. \A i \in 1..Len(r) : i \in 1..Len(r \o s)
  BY <1>1
<1>3. \A i \in 1..Len(s) : Len(r) + i \in 1..Len(r \o s)
  BY <1>1
<1>4. \A n : Speaks(r, n) \/ Speaks(s, n) => Speaks(r \o s, n)
  BY <1>1, <1>2, <1>3 DEF Speaks
<1>5. Fails(r) \/ Fails(s) => Fails(r \o s)
  BY <1>1, <1>2, <1>3 DEF Fails
<1>6. ASSUME NEW i \in 1..Len(r \o s), (r \o s)[i].type = "Error"
      PROVE  Fails(r) \/ Fails(s)
  <2>1. CASE i \in 1..Len(r)
    BY <1>1, <1>6, <2>1 DEF Fails
  <2>2. CASE i - Len(r) \in 1..Len(s)
    <3>1. (r \o s)[Len(r) + (i - Len(r))] = s[i - Len(r)] /\ Len(r) + (i - Len(r)) = i
      BY <1>1, <2>2
    <3> QED  BY <1>6, <2>2, <3>1 DEF Fails
  <2> QED  BY <1>1, <2>1, <2>2
<1> QED  BY <1>4, <1>5, <1>6 DEF Out, Fails

(* The events of one line.                                                 *)
LEMMA OneOut ==
  ASSUME NEW t, NEW ls, NEW a
  PROVE  /\ \A n : t \in {"Text", "Structured"} /\ n \in ToSet(ls) => Out(<<Ev(t, ls, a)>>, n)
         /\ t = "Error" <=> Fails(<<Ev(t, ls, a)>>)
<1>1. Len(<<Ev(t, ls, a)>>) = 1 /\ <<Ev(t, ls, a)>>[1] = Ev(t, ls, a)
  OBVIOUS
<1>2. Ev(t, ls, a).type = t /\ Ev(t, ls, a).lines = ls
  BY DEF Ev
<1> QED  BY <1>1, <1>2 DEF Out, Speaks, Fails

LEMMA TextOut ==
  ASSUME NEW text \in Seq(Nat)
  PROVE  \A n \in ToSet(text) : Out(FlushText(text), n)
  BY OneOut, SetOf DEF FlushText

LEMMA ErrOut == Fails(<<Err>>)
  BY OneOut DEF Err

------------------------------------------------------------------------------
(* What one line does to the texts and to the calls.                       *)
StartTypes == {"item.started", "tool_use"}

Quiet(s) == \A i \in 1..Len(s) : s[i].type # "Tool"

Keeping == Structured \/ kind \in {"gemini", "claude"}

TextFate(l, r, evs, n) ==
  /\ Keeping => \A k \in ToSet(rd.text) : k \in ToSet(r.text) \/ Out(evs, k)
  /\ IsText(l) => Out(evs, n) \/ (Keeping /\ n \in ToSet(r.text))
  /\ Structured /\ l.type = "turn.completed" => \A k \in ToSet(rd.text) : Out(evs, k)

CallFate(l, r, evs, n) ==
  \/ /\ l.type \in StartTypes /\ l.id \in ToolIds
     /\ r.pending \in OnUse(rd.pending, l.id, n) /\ Quiet(evs)
  \/ /\ l.type \notin StartTypes /\ l.id \in ToolIds
     /\ r.pending = Without(rd.pending, l.id) /\ evs = OnResult(rd.pending, l.id, n)
  \/ l.type \notin StartTypes /\ r.pending = rd.pending /\ Quiet(evs)

LineFate ==
  \E l \in AnyLine, r \in Locals, evs \in Seq(Events), to \in {"reading", "flush"} :
    /\ Iterate(l, r, evs, to)
    /\ TextFate(l, r, evs, Len(log) + 1)
    /\ kind \in {"codex", "gemini"} => CallFate(l, r, evs, Len(log) + 1)
    /\ kind = "codex" /\ l.type = "turn.completed" => to = "flush"

LEMMA QuietOnes ==
  /\ Quiet(<<>>)
  /\ \A t, ls, a : t # "Tool" => Quiet(<<Ev(t, ls, a)>>)
  /\ \A text : Quiet(FlushText(text))
  /\ Quiet(<<Err>>)
<1>1. Quiet(<<>>)
  BY DEF Quiet
<1>2. ASSUME NEW t, NEW ls, NEW a, t # "Tool"
      PROVE  Quiet(<<Ev(t, ls, a)>>)
  <2>1. Len(<<Ev(t, ls, a)>>) = 1 /\ <<Ev(t, ls, a)>>[1] = Ev(t, ls, a)
    OBVIOUS
  <2> QED  BY <1>2, <2>1 DEF Quiet, Ev
<1>3. \A text : Quiet(FlushText(text))
  BY <1>1, <1>2 DEF FlushText
<1> QED  BY <1>1, <1>2, <1>3 DEF Err

LEMMA QuietJoined ==
  ASSUME NEW r \in Seq(Events), NEW s \in Seq(Events), Quiet(r), Quiet(s)
  PROVE  Quiet(r \o s)
<1>1. /\ Len(r) \in Nat /\ Len(s) \in Nat /\ Len(r \o s) = Len(r) + Len(s)
      /\ \A i \in 1..Len(r) : (r \o s)[i] = r[i]
      /\ \A i \in 1..Len(s) : (r \o s)[Len(r) + i] = s[i]
      /\ \A i \in 1..Len(r \o s) : i \in 1..Len(r) \/ i - Len(r) \in 1..Len(s)
  BY Joined
<1> SUFFICES ASSUME NEW i \in 1..Len(r \o s) PROVE (r \o s)[i].type # "Tool"
  BY DEF Quiet
<1>2. CASE i \in 1..Len(r)
  BY <1>1, <1>2 DEF Quiet
<1>3. CASE i - Len(r) \in 1..Len(s)
  <2>1. (r \o s)[Len(r) + (i - Len(r))] = s[i - Len(r)] /\ Len(r) + (i - Len(r)) = i
    BY <1>1, <1>3
  <2> QED  BY <1>3, <2>1 DEF Quiet
<1> QED  BY <1>1, <1>2, <1>3

LEMMA CodexFate ==
  ASSUME Types, kind = "codex", NEW l \in CodexLines,
         CodexLine(l, Len(log) + 1) \/ CodexCompleted(l)
  PROVE  LineFate
<1> DEFINE n == Len(log) + 1
<1>1. n \in Nat /\ rd \in Locals
  BY DEF Types
<1>2. rd.text \in Seq(Nat) /\ rd.pending \in SUBSET Uses /\ IsFiniteSet(rd.pending)
  BY DEF Types, Locals, Finite
<1>3. l \in AnyLine /\ (l.type \in {"item.started", "item.completed"} => l.id \in ToolIds)
  BY DEF AnyLine, CodexLines, Line, ToolLine
<1>4. "" \in Args
  BY DEF Args
<1>5. <<Ev("Text", <<n>>, "")>> \in Seq(Events) /\ Out(<<Ev("Text", <<n>>, "")>>, n)
  BY <1>1, <1>4, Uttered, OneOut, SetOf
<1> HIDE DEF n
<1>6. ASSUME NEW r, r \in Locals, NEW evs \in Seq(Events), NEW to \in {"reading", "flush"},
             Iterate(l, r, evs, to), TextFate(l, r, evs, n), CallFate(l, r, evs, n),
             l.type = "turn.completed" => to = "flush"
      PROVE  LineFate
  BY <1>3, <1>6 DEF LineFate, n
<1>7. ASSUME NEW r, r.text = rd.text, l.type \notin {"turn.completed", "agent_message"}, NEW evs
      PROVE  TextFate(l, r, evs, n)
  <2>1. ~IsText(l)
    BY <1>7 DEF IsText, CodexLines, Line, ToolLine
  <2> QED  BY <1>7, <2>1 DEF TextFate
<1>8. ASSUME NEW r, r.pending = rd.pending, l.type # "item.started", NEW evs, Quiet(evs)
      PROVE  CallFate(l, r, evs, n)
  <2>1. l.type \notin StartTypes
    BY <1>8 DEF StartTypes, CodexLines, Line, ToolLine
  <2> QED  BY <1>8, <2>1 DEF CallFate
<1>9. Known \in Locals /\ Known.text = rd.text /\ Known.pending = rd.pending
  BY <1>1 DEF Known, Locals
<1>10. CASE l.type \in {"thread.started", "unknown", "error", "turn.failed"}
  <2>1. PICK r \in {[Known EXCEPT !.sid = "s"], rd, Known, [Known EXCEPT !.fatal = TRUE]},
             evs \in {<<>>, <<Err>>}, to \in {"reading", "flush"} : Iterate(l, r, evs, to)
    BY <1>10 DEF CodexLine, CodexCompleted
  <2>2. r \in Locals /\ r.text = rd.text /\ r.pending = rd.pending
    BY <1>1, <1>9, <2>1 DEF Locals
  <2>3. evs \in Seq(Events) /\ Quiet(evs)
    BY <2>1, NoEvents, Errors, QuietOnes
  <2>4. TextFate(l, r, evs, n)
    BY <1>7, <1>10, <2>2
  <2>5. CallFate(l, r, evs, n)
    BY <1>8, <1>10, <2>2, <2>3
  <2> QED  BY <1>6, <1>10, <2>1, <2>2, <2>3, <2>4, <2>5
<1>11. CASE l.type = "agent_message"
  <2>1. CASE Structured /\ Iterate(l, [Known EXCEPT !.text = Append(@, n)], <<>>, "reading")
    <3> DEFINE r == [Known EXCEPT !.text = Append(@, n)]
    <3>1. Append(rd.text, n) \in Seq(Nat)
      BY <1>1, <1>2, LineMore
    <3>2. r \in Locals /\ r.text = Append(rd.text, n) /\ r.pending = rd.pending
      BY <1>9, <3>1 DEF Locals
    <3> HIDE DEF r
    <3>3. TextFate(l, r, <<>>, n)
      BY <1>1, <1>2, <1>11, <2>1, <3>2, SetOf DEF TextFate, Keeping
    <3>4. CallFate(l, r, <<>>, n)
      BY <1>8, <1>11, <3>2, QuietOnes
    <3>5. Iterate(l, r, <<>>, "reading")
      BY <2>1 DEF r
    <3> QED  BY <1>6, <1>11, <3>2, <3>3, <3>4, <3>5, NoEvents
  <2>2. CASE ~Structured /\ Iterate(l, Known, <<Ev("Text", <<n>>, "")>>, "reading")
    <3>1. TextFate(l, Known, <<Ev("Text", <<n>>, "")>>, n)
      BY <1>5, <1>9, <1>11, <2>2 DEF TextFate
    <3>2. CallFate(l, Known, <<Ev("Text", <<n>>, "")>>, n)
      BY <1>8, <1>9, <1>11, QuietOnes
    <3> QED  BY <1>5, <1>6, <1>9, <1>11, <2>2, <3>1, <3>2
  <2> QED  BY <1>11, <2>1, <2>2 DEF CodexLine, CodexCompleted, n
<1>12. CASE l.type = "item.started"
  <2>1. PICK p \in OnUse(rd.pending, l.id, n) :
               Iterate(l, [Known EXCEPT !.pending = p], <<>>, "reading")
    BY <1>12 DEF CodexLine, CodexCompleted, n
  <2> DEFINE r == [Known EXCEPT !.pending = p]
  <2>2. p \in SUBSET Uses
    BY <1>1, <1>2, <1>3, <1>12, <2>1, Pairing
  <2>3. r \in Locals /\ r.text = rd.text /\ r.pending = p
    BY <1>9, <2>2 DEF Locals
  <2>4. Iterate(l, r, <<>>, "reading")
    BY <2>1
  <2> HIDE DEF r
  <2>5. TextFate(l, r, <<>>, n)
    BY <1>7, <1>12, <2>3
  <2>6. CallFate(l, r, <<>>, n)
    BY <1>3, <1>12, <2>1, <2>3, QuietOnes DEF CallFate, StartTypes
  <2> QED  BY <1>6, <1>12, <2>3, <2>4, <2>5, <2>6, NoEvents
<1>13. CASE l.type = "item.completed"
  <2> DEFINE r == [Known EXCEPT !.pending = Without(@, l.id)]
  <2>1. Iterate(l, r, OnResult(rd.pending, l.id, n), "reading")
    BY <1>13 DEF CodexLine, CodexCompleted, n
  <2>2. Without(rd.pending, l.id) \in SUBSET Uses
    BY <1>1, <1>2, <1>3, <1>13, Pairing
  <2>3. r \in Locals /\ r.text = rd.text /\ r.pending = Without(rd.pending, l.id)
    BY <1>9, <2>2 DEF Locals
  <2> HIDE DEF r
  <2>4. OnResult(rd.pending, l.id, n) \in Seq(Events)
    BY <1>1, <1>2, <1>3, <1>13, Results
  <2>5. TextFate(l, r, OnResult(rd.pending, l.id, n), n)
    BY <1>7, <1>13, <2>3
  <2>6. CallFate(l, r, OnResult(rd.pending, l.id, n), n)
    BY <1>3, <1>13, <2>3 DEF CallFate, StartTypes
  <2> QED  BY <1>6, <1>13, <2>1, <2>3, <2>4, <2>5, <2>6
<1>14. CASE l.type = "turn.completed"
  <2>1. PICK evs \in {<<>>, <<Ev("Text", <<>>, "")>>, <<Ev("Structured", rd.text, "")>>, <<Err>>} :
          /\ Iterate(l, Known, evs, "flush")
          /\ Structured => rd.text = <<>> \/ evs \in {<<Ev("Structured", rd.text, "")>>, <<Err>>}
    BY <1>14 DEF CodexLine, CodexCompleted
  <2>2. evs \in Seq(Events)
    BY <1>2, <1>4, <2>1, NoEvents, OneEvent, Errors DEF Kind
  <2>3. Quiet(evs)
    BY <2>1, QuietOnes
  <2>4. CallFate(l, Known, evs, n)
    BY <1>8, <1>9, <1>14, <2>3
  <2>5. ~IsText(l)
    BY <1>14 DEF IsText
  <2>6. Structured => \A k \in ToSet(rd.text) : Out(evs, k)
    <3>1. CASE rd.text = <<>>
      BY <3>1, SetOf
    <3>2. CASE evs = <<Ev("Structured", rd.text, "")>>
      BY <3>2, OneOut
    <3>3. CASE evs = <<Err>>
      BY <3>3, ErrOut DEF Out
    <3> QED  BY <2>1, <3>1, <3>2, <3>3
  <2>7. TextFate(l, Known, evs, n)
    BY <1>9, <2>5, <2>6 DEF TextFate
  <2> QED  BY <1>6, <1>9, <2>1, <2>2, <2>4, <2>7
<1>15. l.type \in {"thread.started", "unknown", "agent_message", "error", "turn.completed",
                   "turn.failed", "item.started", "item.completed"}
  BY DEF CodexLines, Line, ToolLine
<1> QED  BY <1>10, <1>11, <1>12, <1>13, <1>14, <1>15

LEMMA GeminiFate ==
  ASSUME Types, kind = "gemini", NEW l \in GeminiLines,
         GeminiLine(l, Len(log) + 1) \/ GeminiTool(l, Len(log) + 1)
  PROVE  LineFate
<1> DEFINE n == Len(log) + 1
<1>1. n \in Nat /\ rd \in Locals
  BY DEF Types
<1>2. rd.text \in Seq(Nat) /\ rd.pending \in SUBSET Uses /\ IsFiniteSet(rd.pending)
  BY DEF Types, Locals, Finite
<1>3. l \in AnyLine /\ (l.type \in {"tool_use", "tool_result"} => l.id \in ToolIds)
  BY DEF AnyLine, GeminiLines, Line, ToolLine
<1>4. Append(rd.text, n) \in Seq(Nat) /\ <<n>> \in Seq(Nat)
  BY <1>1, <1>2, LineMore, OneLine
<1>5. /\ ToSet(<<>>) = {} /\ ToSet(<<n>>) = {n}
      /\ ToSet(Append(rd.text, n)) = ToSet(rd.text) \union {n}
  BY <1>1, <1>2, SetOf
<1> HIDE DEF n
<1>6. ASSUME NEW r, r \in Locals, NEW evs \in Seq(Events), NEW to \in {"reading", "flush"},
             Iterate(l, r, evs, to), TextFate(l, r, evs, n), CallFate(l, r, evs, n)
      PROVE  LineFate
  BY <1>3, <1>6 DEF LineFate, n
<1>7. ~Structured /\ Keeping
  BY DEF Structured, Keeping
<1>8. ASSUME NEW r, NEW evs,
             \A k \in ToSet(rd.text) : k \in ToSet(r.text) \/ Out(evs, k),
             l.type \in {"delta", "message"} => Out(evs, n) \/ n \in ToSet(r.text)
      PROVE  TextFate(l, r, evs, n)
  <2>1. IsText(l) => l.type \in {"delta", "message"}
    BY DEF IsText, GeminiLines, Line, ToolLine
  <2> QED  BY <1>7, <1>8, <2>1 DEF TextFate
<1>9. ASSUME NEW r, r.pending = rd.pending, l.type # "tool_use", NEW evs, Quiet(evs)
      PROVE  CallFate(l, r, evs, n)
  <2>1. l.type \notin StartTypes
    BY <1>9 DEF StartTypes, GeminiLines, Line, ToolLine
  <2> QED  BY <1>9, <2>1 DEF CallFate
<1>10. Known \in Locals /\ Known.text = rd.text /\ Known.pending = rd.pending
  BY <1>1 DEF Known, Locals
<1>11. CASE l.type \in {"init", "unknown", "warning", "error", "result failed", "result"}
  <2>1. PICK r \in {[Known EXCEPT !.sid = "s"], rd, Known, [Known EXCEPT !.fatal = TRUE]},
             to \in {"reading", "flush"} : Iterate(l, r, <<>>, to)
    BY <1>11 DEF GeminiLine, GeminiTool
  <2>2. r \in Locals /\ r.text = rd.text /\ r.pending = rd.pending
    BY <1>1, <1>10, <2>1 DEF Locals
  <2>3. TextFate(l, r, <<>>, n)
    BY <1>8, <1>11, <2>2
  <2>4. CallFate(l, r, <<>>, n)
    BY <1>9, <1>11, <2>2, QuietOnes
  <2> QED  BY <1>6, <2>1, <2>2, <2>3, <2>4, NoEvents
<1>12. CASE l.type \in {"empty message", "delta", "message"}
  <2>1. ASSUME NEW text \in Seq(Nat), NEW evs \in Seq(Events),
               Iterate(l, [Known EXCEPT !.text = text], evs, "reading"), Quiet(evs),
               \A k \in ToSet(rd.text) : k \in ToSet(text) \/ Out(evs, k),
               l.type \in {"delta", "message"} => Out(evs, n) \/ n \in ToSet(text)
        PROVE  LineFate
    <3> DEFINE r == [Known EXCEPT !.text = text]
    <3>1. r \in Locals /\ r.text = text /\ r.pending = rd.pending
      BY <1>10 DEF Locals
    <3>2. Iterate(l, r, evs, "reading")
      BY <2>1
    <3> HIDE DEF r
    <3>3. TextFate(l, r, evs, n)
      BY <1>8, <2>1, <3>1
    <3>4. CallFate(l, r, evs, n)
      BY <1>9, <1>12, <2>1, <3>1
    <3> QED  BY <1>6, <3>1, <3>2, <3>3, <3>4
  <2>2. CASE l.type = "empty message"
             /\ Iterate(l, [Known EXCEPT !.text = <<>>], FlushText(rd.text), "reading")
    BY <1>2, <2>1, <2>2, NoEvents, QuietOnes, TextOut, TextSent
  <2>3. CASE l.type = "delta"
             /\ Iterate(l, [Known EXCEPT !.text = Append(@, n)], <<>>, "reading")
    <3>1. [Known EXCEPT !.text = Append(@, n)] = [Known EXCEPT !.text = Append(rd.text, n)]
      BY <1>10 DEF Locals
    <3>2. Iterate(l, [Known EXCEPT !.text = Append(rd.text, n)], <<>>, "reading")
      BY <2>3, <3>1
    <3> QED  BY <1>4, <1>5, <2>1, <3>2, NoEvents, QuietOnes
  <2>4. CASE l.type = "delta"
             /\ Iterate(l, [Known EXCEPT !.text = <<n>>], FlushText(rd.text), "reading")
    BY <1>2, <1>4, <1>5, <2>1, <2>4, QuietOnes, TextOut, TextSent
  <2>5. CASE l.type = "message"
             /\ Iterate(l, [Known EXCEPT !.text = <<>>], FlushText(Append(rd.text, n)), "reading")
    BY <1>4, <1>5, <2>1, <2>5, NoEvents, QuietOnes, TextOut, TextSent
  <2>6. CASE l.type = "message"
             /\ Iterate(l, [Known EXCEPT !.text = <<>>], FlushText(rd.text) \o FlushText(<<n>>),
                        "reading")
    <3>1. FlushText(rd.text) \in Seq(Events) /\ FlushText(<<n>>) \in Seq(Events)
      BY <1>2, <1>4, TextSent
    <3>2. \A k \in ToSet(rd.text) \union {n} :
            Out(FlushText(rd.text), k) \/ Out(FlushText(<<n>>), k)
      BY <1>2, <1>4, <1>5, TextOut
    <3> DEFINE evs == FlushText(rd.text) \o FlushText(<<n>>)
    <3>3. evs \in Seq(Events)
      BY <3>1, Joined
    <3>4. Quiet(evs)
      BY <3>1, QuietOnes, QuietJoined
    <3>5. \A k \in ToSet(rd.text) \union {n} : Out(evs, k)
      BY <3>1, <3>2, OutJoined
    <3> QED  BY <2>1, <2>6, <3>3, <3>4, <3>5, NoEvents
  <2>7. n = Len(log) + 1
    BY DEF n
  <2> QED  BY <1>12, <2>2, <2>3, <2>4, <2>5, <2>6, <2>7 DEF GeminiLine, GeminiTool
<1>13. CASE l.type = "tool_use"
  <2>1. PICK p \in OnUse(rd.pending, l.id, n) :
          Iterate(l, [Known EXCEPT !.text = <<>>, !.pending = p], FlushText(rd.text), "reading")
    BY <1>13 DEF GeminiLine, GeminiTool, n
  <2> DEFINE r == [Known EXCEPT !.text = <<>>, !.pending = p]
  <2>2. p \in SUBSET Uses
    BY <1>1, <1>2, <1>3, <1>13, <2>1, Pairing
  <2>3. r \in Locals /\ r.text = <<>> /\ r.pending = p
    BY <1>10, <2>2, NoEvents DEF Locals
  <2>4. Iterate(l, r, FlushText(rd.text), "reading")
    BY <2>1
  <2> HIDE DEF r
  <2>5. TextFate(l, r, FlushText(rd.text), n)
    BY <1>2, <1>8, <1>13, TextOut
  <2>6. CallFate(l, r, FlushText(rd.text), n)
    BY <1>3, <1>13, <2>1, <2>3, QuietOnes DEF CallFate, StartTypes
  <2> QED  BY <1>2, <1>6, <2>3, <2>4, <2>5, <2>6, TextSent
<1>14. CASE l.type = "tool_result"
  <2> DEFINE r == [Known EXCEPT !.pending = Without(@, l.id)]
  <2>1. Iterate(l, r, OnResult(rd.pending, l.id, n), "reading")
    BY <1>14 DEF GeminiLine, GeminiTool, n
  <2>2. Without(rd.pending, l.id) \in SUBSET Uses
    BY <1>1, <1>2, <1>3, <1>14, Pairing
  <2>3. r \in Locals /\ r.text = rd.text /\ r.pending = Without(rd.pending, l.id)
    BY <1>10, <2>2 DEF Locals
  <2> HIDE DEF r
  <2>4. OnResult(rd.pending, l.id, n) \in Seq(Events)
    BY <1>1, <1>2, <1>3, <1>14, Results
  <2>5. TextFate(l, r, OnResult(rd.pending, l.id, n), n)
    BY <1>8, <1>14, <2>3
  <2>6. CallFate(l, r, OnResult(rd.pending, l.id, n), n)
    BY <1>3, <1>14, <2>3 DEF CallFate, StartTypes
  <2> QED  BY <1>6, <2>1, <2>3, <2>4, <2>5, <2>6
<1>15. l.type \in {"init", "unknown", "warning", "error", "result failed", "result",
                   "empty message", "delta", "message", "tool_use", "tool_result"}
  BY DEF GeminiLines, Line, ToolLine
<1> QED  BY <1>11, <1>12, <1>13, <1>14, <1>15

(* opencode keeps nothing, claude all until the end.                       *)
LEMMA OpencodeFate ==
  ASSUME Types, kind = "opencode", NEW l \in OpencodeLines, OpencodeLine(l, Len(log) + 1)
  PROVE  LineFate
<1> DEFINE n == Len(log) + 1
<1>1. n \in Nat /\ rd \in Locals
  BY DEF Types
<1>2. l \in AnyLine /\ (l.type = "tool_use" => l.id \in ToolIds)
  BY DEF AnyLine, OpencodeLines, Line, ToolLine
<1>3. OpencodeKnown \in Locals
  BY <1>1 DEF OpencodeKnown, Known, Locals
<1>4. ~Structured /\ ~Keeping
  BY DEF Structured, Keeping
<1>5. "" \in Args
  BY DEF Args
<1>6. <<Ev("Text", <<n>>, "")>> \in Seq(Events) /\ Out(<<Ev("Text", <<n>>, "")>>, n)
  BY <1>1, <1>5, Uttered, OneOut, SetOf
<1> HIDE DEF n
<1>7. ASSUME NEW r, r \in Locals, NEW evs \in Seq(Events),
             OpencodeIterate(l, r, evs) \/ Iterate(l, r, evs, "reading"),
             l.type = "text" => Out(evs, n)
      PROVE  LineFate
  <2>1. IsText(l) => l.type = "text"
    BY DEF IsText, OpencodeLines, Line, ToolLine
  <2>2. TextFate(l, r, evs, n)
    BY <1>4, <1>7, <2>1 DEF TextFate
  <2>3. PICK to \in {"reading", "flush"} : Iterate(l, r, evs, to)
    BY <1>7 DEF OpencodeIterate
  <2> QED  BY <1>2, <1>7, <2>2, <2>3 DEF LineFate, n
<1>8. /\ [OpencodeKnown EXCEPT !.steps = @ + 1] \in Locals
       /\ [OpencodeKnown EXCEPT !.steps = @ - 1, !.finished = TRUE] \in Locals
  <2>1. \A k \in Int : /\ [OpencodeKnown EXCEPT !.steps = k] \in Locals
                       /\ [OpencodeKnown EXCEPT !.steps = k, !.finished = TRUE] \in Locals
    BY <1>3 DEF Locals
  <2>2. PICK k \in Int : k = OpencodeKnown.steps
    BY <1>3 DEF Locals
  <2>3. k + 1 \in Int /\ k - 1 \in Int
    BY <2>2
  <2>4. /\ [OpencodeKnown EXCEPT !.steps = @ + 1] = [OpencodeKnown EXCEPT !.steps = k + 1]
        /\ [OpencodeKnown EXCEPT !.steps = @ - 1, !.finished = TRUE]
             = [OpencodeKnown EXCEPT !.steps = k - 1, !.finished = TRUE]
    BY <1>3, <2>2 DEF Locals
  <2> QED  BY <2>1, <2>3, <2>4
<1>9. CASE l.type = "step_start" /\ OpencodeIterate(l, [OpencodeKnown EXCEPT !.steps = @ + 1], <<>>)
  BY <1>7, <1>9, <1>8, NoEvents
<1>10. CASE /\ l.type = "step_finish"
           /\ OpencodeIterate(l, [OpencodeKnown EXCEPT !.steps = @ - 1, !.finished = TRUE], <<>>)
  BY <1>7, <1>10, <1>8, NoEvents
<1>11. CASE OpencodeIterate(l, OpencodeKnown, <<Ev("Text", <<n>>, "")>>)
  BY <1>3, <1>6, <1>7, <1>11
<1>12. CASE /\ l.type = "tool_use"
            /\ OpencodeIterate(l, OpencodeKnown, <<Ev("Tool", <<n>>, ToolOf[l.id])>>)
  <2>1. <<Ev("Tool", <<n>>, ToolOf[l.id])>> \in Seq(Events)
    BY <1>1, <1>2, <1>12, Uttered, HarnessBounds DEF Args
  <2> QED  BY <1>3, <1>7, <1>12, <2>1
<1>13. CASE l.type = "unknown" /\ Iterate(l, [rd EXCEPT !.sid = "s"], <<>>, "reading")
  <2>1. [rd EXCEPT !.sid = "s"] \in Locals
    BY <1>1 DEF Locals
  <2> QED  BY <1>7, <1>13, <2>1, NoEvents
<1> QED  BY <1>9, <1>10, <1>11, <1>12, <1>13 DEF OpencodeLine, n

LEMMA ClaudeFate ==
  ASSUME Types, kind = "claude", NEW l \in ClaudeLines, ClaudeLine(l, Len(log) + 1)
  PROVE  LineFate
<1> DEFINE n == Len(log) + 1
<1>1. n \in Nat /\ rd \in Locals
  BY DEF Types
<1>2. rd.text \in Seq(Nat)
  BY <1>1 DEF Locals
<1>3. l \in AnyLine /\ (l.type = "tool" => l.id \in ToolIds)
  BY DEF AnyLine, ClaudeLines, Line, ToolLine
<1>4. Append(rd.text, n) \in Seq(Nat)
  BY <1>1, <1>2, LineMore
<1>5. ToSet(Append(rd.text, n)) = ToSet(rd.text) \union {n}
  BY <1>1, <1>2, SetOf
<1>6. ~Structured /\ Keeping
  BY DEF Structured, Keeping
<1>7. "" \in Args /\ "Write" \in Args
  BY DEF Args
<1> HIDE DEF n
<1>8. ASSUME NEW r, r \in Locals, NEW evs \in Seq(Events), NEW to \in {"reading", "flush"},
             Iterate(l, r, evs, to), r.text = rd.text \/ r.text = Append(rd.text, n),
             l.type = "text" => r.text = Append(rd.text, n)
      PROVE  LineFate
  <2>1. IsText(l) => l.type = "text"
    BY DEF IsText, ClaudeLines, Line, ToolLine
  <2>2. TextFate(l, r, evs, n)
    BY <1>5, <1>6, <1>8, <2>1 DEF TextFate
  <2> QED  BY <1>3, <1>8, <2>2 DEF LineFate, n
<1>9. CASE Iterate(l, [rd EXCEPT !.text = Append(@, n)], <<>>, "reading")
  <2> DEFINE r == [rd EXCEPT !.text = Append(@, n)]
  <2>1. r \in Locals /\ r.text = Append(rd.text, n)
    BY <1>1, <1>4 DEF Locals
  <2>2. Iterate(l, r, <<>>, "reading")
    BY <1>9
  <2> HIDE DEF r
  <2> QED  BY <1>8, <2>1, <2>2, NoEvents
<1>10. CASE l.type = "tool" /\ Iterate(l, rd, <<Ev("Tool", <<n>>, ToolOf[l.id])>>, "reading")
  <2>1. <<Ev("Tool", <<n>>, ToolOf[l.id])>> \in Seq(Events)
    BY <1>1, <1>3, <1>10, Uttered, HarnessBounds DEF Args
  <2> QED  BY <1>1, <1>8, <1>10, <2>1
<1>11. CASE /\ l.type = "write"
            /\ Iterate(l, [rd EXCEPT !.files = @ \union {n}], <<Ev("Tool", <<n>>, "Write")>>,
                       "reading")
  <2> DEFINE r == [rd EXCEPT !.files = @ \union {n}]
  <2>1. r \in Locals /\ r.text = rd.text
    BY <1>1 DEF Locals
  <2>2. Iterate(l, r, <<Ev("Tool", <<n>>, "Write")>>, "reading")
    BY <1>11
  <2>3. <<Ev("Tool", <<n>>, "Write")>> \in Seq(Events)
    BY <1>1, <1>7, Uttered
  <2> HIDE DEF r
  <2> QED  BY <1>8, <1>11, <2>1, <2>2, <2>3
<1>12. CASE /\ l.type \in {"result", "retries"}
            /\ \E evs \in {<<>>, <<Ev("Structured", <<>>, "")>>, <<Err>>} :
                 Iterate(l, [rd EXCEPT !.sid = "s"], evs, "reading")
  <2>1. PICK evs \in {<<>>, <<Ev("Structured", <<>>, "")>>, <<Err>>} :
          Iterate(l, [rd EXCEPT !.sid = "s"], evs, "reading")
    BY <1>12
  <2>2. evs \in Seq(Events)
    BY <1>7, <2>1, NoEvents, OneEvent, Errors DEF Kind
  <2> DEFINE r == [rd EXCEPT !.sid = "s"]
  <2>3. r \in Locals /\ r.text = rd.text
    BY <1>1 DEF Locals
  <2>4. Iterate(l, r, evs, "reading")
    BY <2>1
  <2> HIDE DEF r
  <2> QED  BY <1>8, <1>12, <2>2, <2>3, <2>4
<1>13. CASE /\ l.type \in {"parse error", "io error"}
            /\ Iterate(l, rd, <<>>, "reading") \/ Iterate(l, rd, <<Err>>, "flush")
  BY <1>1, <1>8, <1>13, NoEvents, Errors
<1> QED  BY <1>9, <1>10, <1>11, <1>12, <1>13 DEF ClaudeLine, n

LEMMA ReadFate ==
  ASSUME Types, ReadLine
  PROVE  LineFate
  BY CodexFate, GeminiFate, OpencodeFate, ClaudeFate DEF ReadLine

------------------------------------------------------------------------------
(* The calls: L is the log, S the stream, P the calls that are pending.    *)
StartsIn(L, id) == {n \in 1..Len(L) : L[n].type \in StartTypes /\ L[n].id = id}
AllStarts(L) == {n \in 1..Len(L) : L[n].type \in StartTypes /\ L[n].id \in ToolIds}

Carries(e, L, id) == e.type = "Tool" /\ \E n \in ToSet(e.lines) : L[n].id = id
CallsIn(S, L, id) == {i \in 1..Len(S) : Carries(S[i], L, id)}

One(P, id) == IF \E p \in P : p.id = id THEN 1 ELSE 0

Within(S, L) == \A i \in 1..Len(S) : S[i].type = "Tool" => ToSet(S[i].lines) \subseteq 1..Len(L)

(* Every pending call is of a line, and has its id for itself.             *)
Awaited(L, P) ==
  /\ \A p \in P : p.line \in 1..Len(L) /\ L[p.line].id = p.id
  /\ \A p, q \in P : p.id = q.id => p = q
  /\ Cardinality(P) <= Cardinality(AllStarts(L))

(* A call is told, or pending, at most once for each of its starts; one    *)
(* that started once, in a buffer that never was full, surely once.        *)
Matched(L, S, P) ==
  /\ Awaited(L, P) /\ Within(S, L)
  /\ \A id \in ToolIds :
       /\ Cardinality(CallsIn(S, L, id)) + One(P, id) <= Cardinality(StartsIn(L, id))
       /\ Cardinality(AllStarts(L)) <= Cap /\ Cardinality(StartsIn(L, id)) = 1 =>
            Fails(S) \/ CallsIn(S, L, id) # {} \/ One(P, id) = 1

LEMMA CountsAre ==
  ASSUME NEW L \in Seq(AnyLine), NEW S \in Seq(Events), NEW id
  PROVE  /\ IsFiniteSet(StartsIn(L, id)) /\ Cardinality(StartsIn(L, id)) \in Nat
         /\ IsFiniteSet(AllStarts(L)) /\ Cardinality(AllStarts(L)) \in Nat
         /\ IsFiniteSet(CallsIn(S, L, id)) /\ Cardinality(CallsIn(S, L, id)) \in Nat
<1>1. Len(L) \in Nat /\ Len(S) \in Nat
  OBVIOUS
<1>2. IsFiniteSet(1..Len(L)) /\ IsFiniteSet(1..Len(S))
  BY <1>1, FS_Interval
<1>3. /\ StartsIn(L, id) \in SUBSET (1..Len(L)) /\ AllStarts(L) \in SUBSET (1..Len(L))
      /\ CallsIn(S, L, id) \in SUBSET (1..Len(S))
  BY DEF StartsIn, AllStarts, CallsIn
<1>4. IsFiniteSet(StartsIn(L, id)) /\ IsFiniteSet(AllStarts(L)) /\ IsFiniteSet(CallsIn(S, L, id))
  BY <1>2, <1>3, FS_Subset
<1> QED  BY <1>4, FS_CardinalityType

LEMMA OneIs ==
  ASSUME NEW P, NEW id
  PROVE  One(P, id) \in {0, 1} /\ (One(P, id) = 1 <=> \E p \in P : p.id = id)
  BY DEF One

(* Events that tell some of the pending calls, each once.                  *)
LEMMA MatchedSaid ==
  ASSUME NEW L \in Seq(AnyLine), NEW S \in Seq(Events), NEW evs \in Seq(Events),
         NEW P, IsFiniteSet(P), NEW Q \in SUBSET P, Matched(L, S, P), Within(evs, L),
         \A id \in ToolIds : \A i, j \in CallsIn(evs, L, id) :
           i = j /\ One(P, id) = 1 /\ One(Q, id) = 0,
         \A id \in ToolIds : One(P, id) = 1 =>
           Fails(S \o evs) \/ CallsIn(evs, L, id) # {} \/ One(Q, id) = 1
  PROVE  Matched(L, S \o evs, Q)
<1> DEFINE T == S \o evs
<1>1. /\ T \in Seq(Events) /\ Len(S) \in Nat /\ Len(evs) \in Nat /\ Len(T) = Len(S) + Len(evs)
      /\ \A i \in 1..Len(S) : T[i] = S[i]
      /\ \A i \in 1..Len(evs) : T[Len(S) + i] = evs[i]
      /\ \A i \in 1..Len(T) : i \in 1..Len(S) \/ i - Len(S) \in 1..Len(evs)
  BY Joined
<1>2. Fails(S) => Fails(T)
  BY OutJoined
<1> HIDE DEF T
<1>3. ASSUME NEW i \in 1..Len(T), i \notin 1..Len(S)
      PROVE  i - Len(S) \in 1..Len(evs) /\ T[i] = evs[i - Len(S)]
  <2>1. i - Len(S) \in 1..Len(evs) /\ Len(S) + (i - Len(S)) = i
    BY <1>1, <1>3
  <2> QED  BY <1>1, <2>1
<1>4. Within(T, L)
  <2> SUFFICES ASSUME NEW i \in 1..Len(T), T[i].type = "Tool"
               PROVE  ToSet(T[i].lines) \subseteq 1..Len(L)
    BY DEF Within
  <2>1. CASE i \in 1..Len(S)
    BY <1>1, <2>1 DEF Matched, Within
  <2>2. CASE i \notin 1..Len(S)
    BY <1>3, <2>2 DEF Within
  <2> QED  BY <2>1, <2>2
<1>5. Awaited(L, Q)
  <2>1. Cardinality(P) \in Nat /\ Cardinality(Q) \in Nat /\ Cardinality(Q) <= Cardinality(P)
    BY FS_Subset, FS_CardinalityType
  <2>2. Cardinality(AllStarts(L)) \in Nat /\ Cardinality(P) <= Cardinality(AllStarts(L))
    BY CountsAre DEF Matched, Awaited
  <2>3. Cardinality(Q) <= Cardinality(AllStarts(L))
    BY <2>1, <2>2
  <2> QED  BY <2>3 DEF Matched, Awaited
<1>6. ASSUME NEW id \in ToolIds
      PROVE  /\ Cardinality(CallsIn(T, L, id)) + One(Q, id) <= Cardinality(StartsIn(L, id))
             /\ Cardinality(AllStarts(L)) <= Cap /\ Cardinality(StartsIn(L, id)) = 1 =>
                  Fails(T) \/ CallsIn(T, L, id) # {} \/ One(Q, id) = 1
  <2> DEFINE A == CallsIn(S, L, id)
             B == CallsIn(evs, L, id)
             C == CallsIn(T, L, id)
  <2>1. \A i \in A : i \in C
    <3>1. \A i \in 1..Len(S) : i \in 1..Len(T)
      BY <1>1
    <3> QED  BY <1>1, <3>1 DEF CallsIn
  <2>2. \A i \in B : Len(S) + i \in C
    <3>1. \A i \in 1..Len(evs) : Len(S) + i \in 1..Len(T)
      BY <1>1
    <3> QED  BY <1>1, <3>1 DEF CallsIn
  <2>3. \A i \in C : i \in A \/ i - Len(S) \in B
    BY <1>1, <1>3 DEF CallsIn
  <2>4. /\ IsFiniteSet(A) /\ Cardinality(A) \in Nat /\ Cardinality(StartsIn(L, id)) \in Nat
        /\ Cardinality(A) + One(P, id) <= Cardinality(StartsIn(L, id))
    BY CountsAre DEF Matched
  <2>5. /\ Cardinality(AllStarts(L)) <= Cap /\ Cardinality(StartsIn(L, id)) = 1 =>
             Fails(S) \/ A # {} \/ One(P, id) = 1
    BY DEF Matched
  <2>6. \A i \in A : i \in Int
    BY <1>1 DEF CallsIn
  <2>7. \A i \in B : i \in Int
    BY <1>1 DEF CallsIn
  <2>8. \A i \in C : i \in Int
    BY <1>1 DEF CallsIn
  <2> HIDE DEF A, B, C
  <2>9. CASE B = {}
    <3>1. C = A
      BY <2>1, <2>3, <2>9
    <3>2. One(Q, id) <= One(P, id) /\ One(Q, id) \in Nat /\ One(P, id) \in Nat
      BY OneIs DEF One
    <3>3. Cardinality(A) + One(Q, id) <= Cardinality(StartsIn(L, id))
      BY <2>4, <3>2
    <3> QED  BY <1>2, <2>5, <2>9, <3>1, <3>3 DEF B, C, T
  <2>10. CASE B # {}
    <3>1. PICK k : k \in B
      BY <2>10
    <3>2. (\A i \in B : i = k) /\ One(P, id) = 1 /\ One(Q, id) = 0
      BY <3>1 DEF B
    <3>3. C = A \union {Len(S) + k}
      <4>1. \A i \in C : i \in A \/ i = Len(S) + k
        <5>1. SUFFICES ASSUME NEW i \in C, i - Len(S) \in B PROVE i = Len(S) + k
          BY <2>3
        <5>2. i - Len(S) = k /\ i \in Int /\ Len(S) \in Int
          BY <1>1, <2>8, <3>2, <5>1
        <5> QED  BY <5>2
      <4> QED  BY <2>1, <2>2, <3>1, <4>1
    <3>4. Cardinality(C) <= Cardinality(A) + 1 /\ Cardinality(C) \in Nat
      <4>1. /\ IsFiniteSet(A \union {Len(S) + k})
            /\ Cardinality(A \union {Len(S) + k})
                 = IF Len(S) + k \in A THEN Cardinality(A) ELSE Cardinality(A) + 1
        BY <2>4, FS_AddElement
      <4>2. Cardinality(C) \in {Cardinality(A), Cardinality(A) + 1}
        BY <3>3, <4>1
      <4> QED  BY <2>4, <4>2
    <3>5. Cardinality(C) + 0 <= Cardinality(StartsIn(L, id))
      BY <2>4, <3>2, <3>4
    <3>6. C # {}
      BY <3>3
    <3> QED  BY <3>2, <3>5, <3>6 DEF C
  <2> QED  BY <2>9, <2>10
<1> QED  BY <1>4, <1>5, <1>6 DEF Matched, T

LEMMA NoCalls ==
  ASSUME NEW evs \in Seq(Events), Quiet(evs), NEW L
  PROVE  Within(evs, L) /\ \A id : CallsIn(evs, L, id) = {}
  BY DEF Quiet, Within, CallsIn, Carries

LEMMA MatchedQuiet ==
  ASSUME NEW L \in Seq(AnyLine), NEW S \in Seq(Events), NEW evs \in Seq(Events),
         NEW P, IsFiniteSet(P), Matched(L, S, P), Quiet(evs)
  PROVE  Matched(L, S \o evs, P) /\ (Fails(evs) => Matched(L, S \o evs, {}))
<1>1. Within(evs, L) /\ \A id : CallsIn(evs, L, id) = {}
  BY NoCalls
<1>2. Matched(L, S \o evs, P)
  BY <1>1, MatchedSaid
<1>3. ASSUME Fails(evs) PROVE Matched(L, S \o evs, {})
  <2>1. Fails(S \o evs)
    BY <1>3, OutJoined
  <2> QED  BY <1>1, <2>1, MatchedSaid
<1> QED  BY <1>2, <1>3

(* The log with another line.                                              *)
LEMMA LogMore ==
  ASSUME NEW L \in Seq(AnyLine), NEW l \in AnyLine
  PROVE  /\ Append(L, l) \in Seq(AnyLine) /\ Len(Append(L, l)) = Len(L) + 1 /\ Len(L) \in Nat
         /\ \A n \in 1..Len(L) : n \in 1..(Len(L) + 1) /\ Append(L, l)[n] = L[n]
         /\ Append(L, l)[Len(L) + 1] = l /\ Len(L) + 1 \notin 1..Len(L)
         /\ \A n \in 1..(Len(L) + 1) : n \in 1..Len(L) \/ n = Len(L) + 1
OBVIOUS

LEMMA SameCallsIn ==
  ASSUME NEW L \in Seq(AnyLine), NEW l \in AnyLine, NEW S \in Seq(Events), Within(S, L)
  PROVE  /\ Within(S, Append(L, l))
         /\ \A id : CallsIn(S, Append(L, l), id) = CallsIn(S, L, id)
<1> DEFINE M == Append(L, l)
<1>1. /\ Len(M) = Len(L) + 1 /\ Len(L) \in Nat
      /\ \A n \in 1..Len(L) : n \in 1..Len(M) /\ M[n] = L[n]
  BY LogMore
<1> HIDE DEF M
<1>2. Within(S, M)
  BY <1>1 DEF Within
<1>3. ASSUME NEW id, NEW i \in 1..Len(S)
      PROVE  Carries(S[i], M, id) <=> Carries(S[i], L, id)
  BY <1>1 DEF Within, Carries
<1>4. \A id : CallsIn(S, M, id) = CallsIn(S, L, id)
  BY <1>3 DEF CallsIn
<1> QED  BY <1>2, <1>4 DEF M

(* A line that starts no call.                                             *)
LEMMA MatchedLine ==
  ASSUME NEW L \in Seq(AnyLine), NEW l \in AnyLine, l.type \notin StartTypes,
         NEW S \in Seq(Events), NEW P, Matched(L, S, P)
  PROVE  Matched(Append(L, l), S, P)
<1> DEFINE M == Append(L, l)
<1>1. Within(S, M) /\ \A id : CallsIn(S, M, id) = CallsIn(S, L, id)
  BY SameCallsIn DEF Matched
<1>2. /\ Len(M) = Len(L) + 1 /\ Len(L) \in Nat /\ M[Len(L) + 1] = l
      /\ \A n \in 1..Len(L) : n \in 1..Len(M) /\ M[n] = L[n]
      /\ \A n \in 1..Len(M) : n \in 1..Len(L) \/ n = Len(L) + 1
  BY LogMore
<1> HIDE DEF M
<1>3. AllStarts(M) = AllStarts(L) /\ \A id : StartsIn(M, id) = StartsIn(L, id)
  BY <1>2 DEF AllStarts, StartsIn
<1>4. Awaited(M, P)
  BY <1>2, <1>3 DEF Matched, Awaited
<1> QED  BY <1>1, <1>3, <1>4 DEF Matched, M

(* A line that starts a call.                                              *)
LEMMA MatchedStart ==
  ASSUME NEW L \in Seq(AnyLine), NEW l \in AnyLine, l.type \in StartTypes, l.id \in ToolIds,
         NEW S \in Seq(Events), NEW P, IsFiniteSet(P), Matched(L, S, P),
         NEW Q \in OnUse(P, l.id, Len(L) + 1)
  PROVE  Matched(Append(L, l), S, Q)
<1> DEFINE M == Append(L, l)
           n == Len(L) + 1
           new == [id |-> l.id, line |-> n]
<1>1. Within(S, M) /\ \A id : CallsIn(S, M, id) = CallsIn(S, L, id)
  BY SameCallsIn DEF Matched
<1>2. /\ M \in Seq(AnyLine) /\ Len(M) = n /\ Len(L) \in Nat /\ n \in Nat /\ M[n] = l
      /\ n \in 1..Len(M)
      /\ \A k \in 1..Len(L) : k \in 1..Len(M) /\ M[k] = L[k]
      /\ \A k \in 1..Len(M) : k \in 1..Len(L) \/ k = n
      /\ n \notin 1..Len(L)
  BY LogMore
<1>3. new.id = l.id /\ new.line = n
  OBVIOUS
<1>4. PICK K : /\ K \in SUBSET P /\ Q = K \union {new}
               /\ \/ /\ Cardinality(P) >= Cap /\ \A p \in P : p.id # l.id
                     /\ \E p \in P : K = P \ {p}
                  \/ K = Without(P, l.id)
  BY DEF OnUse, Without
<1> HIDE DEF M, n, new
<1>5. AllStarts(M) = AllStarts(L) \union {n} /\ n \notin AllStarts(L)
  BY <1>2 DEF AllStarts
<1>6. StartsIn(M, l.id) = StartsIn(L, l.id) \union {n} /\ n \notin StartsIn(L, l.id)
  BY <1>2 DEF StartsIn
<1>7. \A id : id # l.id => StartsIn(M, id) = StartsIn(L, id)
  BY <1>2 DEF StartsIn
<1>8. /\ Cardinality(AllStarts(L)) \in Nat
      /\ Cardinality(AllStarts(M)) = Cardinality(AllStarts(L)) + 1
      /\ \A id : Cardinality(StartsIn(L, id)) \in Nat
      /\ \A id : Cardinality(CallsIn(S, L, id)) \in Nat
      /\ Cardinality(StartsIn(M, l.id)) = Cardinality(StartsIn(L, l.id)) + 1
  BY <1>5, <1>6, CountsAre, FS_AddElement
<1>9. /\ IsFiniteSet(K) /\ Cardinality(K) \in Nat /\ Cardinality(P) \in Nat
      /\ Cardinality(K) <= Cardinality(P)
  BY <1>4, FS_Subset, FS_CardinalityType
<1>10. Cardinality(Q) \in {Cardinality(K), Cardinality(K) + 1}
  BY <1>4, <1>9, FS_AddElement
<1>11. \A p \in K : p.id # l.id
  BY <1>4 DEF Without
<1>12. Awaited(L, P)
  BY DEF Matched
<1>13. Awaited(M, Q)
  <2>1. \A p \in Q : p.line \in 1..Len(M) /\ M[p.line].id = p.id
    BY <1>2, <1>3, <1>4, <1>12 DEF Awaited
  <2>2. \A p, q \in Q : p.id = q.id => p = q
    BY <1>3, <1>4, <1>11, <1>12 DEF Awaited
  <2>3. Cardinality(Q) <= Cardinality(AllStarts(M))
    BY <1>8, <1>9, <1>10, <1>12 DEF Awaited
  <2> QED  BY <2>1, <2>2, <2>3 DEF Awaited
<1>14. Cap \in Nat
  BY HarnessBounds
<1>15. ASSUME NEW id \in ToolIds
       PROVE  /\ Cardinality(CallsIn(S, L, id)) + One(Q, id) <= Cardinality(StartsIn(M, id))
              /\ Cardinality(AllStarts(M)) <= Cap /\ Cardinality(StartsIn(M, id)) = 1 =>
                   Fails(S) \/ CallsIn(S, L, id) # {} \/ One(Q, id) = 1
  <2>1. One(P, id) \in {0, 1} /\ One(Q, id) \in {0, 1}
    BY OneIs
  <2>2. Cardinality(CallsIn(S, L, id)) + One(P, id) <= Cardinality(StartsIn(L, id))
    BY DEF Matched
  <2>3. CASE id = l.id
    <3>1. One(Q, id) = 1
      BY <1>3, <1>4, <2>3, OneIs
    <3>2. Cardinality(CallsIn(S, L, id)) + 1 <= Cardinality(StartsIn(L, id)) + 1
      BY <1>8, <2>1, <2>2
    <3> QED  BY <1>8, <2>3, <3>1, <3>2
  <2>4. CASE id # l.id
    <3>1. One(Q, id) = 1 => One(P, id) = 1
      BY <1>3, <1>4, <2>4, OneIs
    <3>2. Cardinality(CallsIn(S, L, id)) + One(Q, id) <= Cardinality(StartsIn(L, id))
      BY <1>8, <2>1, <2>2, <3>1
    <3>3. CASE K = Without(P, l.id)
      <4>1. One(P, id) = 1 => One(Q, id) = 1
        BY <1>4, <2>4, <3>3, OneIs DEF Without
      <4>2. Cardinality(AllStarts(M)) <= Cap => Cardinality(AllStarts(L)) <= Cap
        BY <1>8, <1>14
      <4> QED  BY <1>7, <2>4, <3>2, <4>1, <4>2 DEF Matched
    <3>4. CASE Cardinality(P) >= Cap
      <4>1. ~(Cardinality(AllStarts(M)) <= Cap)
        BY <1>8, <1>9, <1>12, <1>14, <3>4 DEF Awaited
      <4> QED  BY <1>7, <2>4, <3>2, <4>1
    <3> QED  BY <1>4, <3>3, <3>4
  <2> QED  BY <2>3, <2>4
<1> QED  BY <1>1, <1>13, <1>15 DEF Matched, M

(* A result: the call that was waiting for it is told.                     *)
LEMMA MatchedResult ==
  ASSUME NEW L \in Seq(AnyLine), NEW l \in AnyLine, l.type \notin StartTypes, l.id \in ToolIds,
         NEW S \in Seq(Events), NEW P \in SUBSET Uses, IsFiniteSet(P), Matched(L, S, P)
  PROVE  Matched(Append(L, l), S \o OnResult(P, l.id, Len(L) + 1), Without(P, l.id))
<1> DEFINE M == Append(L, l)
           n == Len(L) + 1
           evs == OnResult(P, l.id, n)
           Q == Without(P, l.id)
<1>1. M \in Seq(AnyLine) /\ n \in Nat /\ n \in 1..n /\ Len(M) = n /\ M[n] = l
  BY LogMore
<1>2. Matched(M, S, P)
  BY MatchedLine
<1>3. evs \in Seq(Events)
  BY <1>1, Results
<1>4. Q \in SUBSET P /\ One(Q, l.id) = 0
  BY DEF Without, One
<1>5. \A id : id # l.id => One(Q, id) = One(P, id)
  BY DEF Without, One
<1>6. CASE \E p \in P : p.id = l.id
  <2>1. evs = <<Ev("Tool", <<n>>, ToolOf[l.id])>> /\ One(P, l.id) = 1
    BY <1>6 DEF OnResult, One
  <2>2. 1..Len(evs) = {1} /\ evs[1].type = "Tool" /\ evs[1].lines = <<n>>
    <3>1. Len(evs) = 1 /\ evs[1] = Ev("Tool", <<n>>, ToolOf[l.id])
      BY <2>1
    <3> HIDE DEF evs, n
    <3>2. \A i : i \in 1..1 <=> i = 1
      OBVIOUS
    <3>3. 1..Len(evs) = {1}
      BY <3>1, <3>2
    <3>4. evs[1].type = "Tool" /\ evs[1].lines = <<n>>
      BY <3>1 DEF Ev
    <3> QED  BY <3>3, <3>4
  <2>3. ToSet(<<n>>) = {n}
    BY <1>1, SetOf
  <2> HIDE DEF M, n, evs, Q
  <2>4. Within(evs, M)
    BY <1>1, <2>2, <2>3 DEF Within
  <2>5. CallsIn(evs, M, l.id) = {1} /\ \A id : id # l.id => CallsIn(evs, M, id) = {}
    BY <1>1, <2>2, <2>3 DEF CallsIn, Carries
  <2>6. \A id \in ToolIds : \A i, j \in CallsIn(evs, M, id) :
          i = j /\ One(P, id) = 1 /\ One(Q, id) = 0
    BY <1>4, <2>1, <2>5
  <2>7. \A id \in ToolIds : One(P, id) = 1 =>
          Fails(S \o evs) \/ CallsIn(evs, M, id) # {} \/ One(Q, id) = 1
    BY <1>5, <2>5
  <2>8. Matched(M, S \o evs, Q)
    BY <1>1, <1>2, <1>3, <1>4, <2>4, <2>6, <2>7, MatchedSaid
  <2> QED  BY <2>8 DEF M, n, evs, Q
<1>7. CASE ~\E p \in P : p.id = l.id
  <2>1. evs = <<>> /\ Q = P
    BY <1>7 DEF OnResult, Without
  <2> HIDE DEF M, n, evs, Q
  <2>2. Matched(M, S \o evs, P)
    BY <1>1, <1>2, <1>3, <2>1, QuietOnes, MatchedQuiet
  <2> QED  BY <2>1, <2>2 DEF M, n, evs, Q
<1> QED  BY <1>6, <1>7

(* The calls that are left are told, each once.                            *)
LEMMA MatchedFlush ==
  ASSUME NEW L \in Seq(AnyLine), NEW S \in Seq(Events), NEW P \in SUBSET Uses, IsFiniteSet(P),
         Matched(L, S, P), NEW evs \in FlushPending(P)
  PROVE  Matched(L, S \o evs, {})
<1>1. PICK s \in SetToSeqs(P) :
        evs = [i \in DOMAIN s |-> Ev("Tool", <<s[i].line>>, ToolOf[s[i].id])]
  BY DEF FlushPending
<1>2. PICK m \in Nat : m = Cardinality(P)
  BY FS_CardinalityType
<1>3. s \in [1..m -> P] /\ \A i, j \in 1..m : i # j => s[i] # s[j]
  BY <1>1, <1>2 DEF SetToSeqs
<1>4. \A p \in P : \E i \in 1..m : s[i] = p
  <2>1. IsFiniteSet(1..m) /\ Cardinality(1..m) = m
    BY FS_Interval
  <2>2. s \in Injection(1..m, P)
    BY <1>3 DEF Injection, IsInjective
  <2>3. s \in Surjection(1..m, P)
    BY <1>2, <2>1, <2>2, FS_Injection
  <2> QED  BY <2>3 DEF Surjection
<1>5. evs \in Seq(Events)
  BY CallsSent
<1>6. DOMAIN evs = 1..m /\ evs = [i \in 1..m |-> evs[i]]
  BY <1>1, <1>3
<1>7. Len(evs) = m
  BY <1>5, <1>6
<1>8. ASSUME NEW i \in 1..m
      PROVE  /\ evs[i].type = "Tool" /\ ToSet(evs[i].lines) = {s[i].line}
             /\ s[i] \in P /\ s[i].line \in 1..Len(L) /\ L[s[i].line].id = s[i].id
  <2>1. s[i] \in P /\ s[i].line \in Nat
    BY <1>3 DEF Uses
  <2>2. evs[i] = Ev("Tool", <<s[i].line>>, ToolOf[s[i].id])
    BY <1>1, <1>3
  <2>3. ToSet(<<s[i].line>>) = {s[i].line}
    BY <2>1, SetOf
  <2> QED  BY <2>1, <2>2, <2>3 DEF Ev, Matched, Awaited
<1>9. Within(evs, L)
  BY <1>7, <1>8 DEF Within
<1>10. \A id : CallsIn(evs, L, id) = {i \in 1..m : s[i].id = id}
  BY <1>7, <1>8 DEF CallsIn, Carries
<1>11. \A id \in ToolIds : \A i, j \in CallsIn(evs, L, id) :
         i = j /\ One(P, id) = 1 /\ One({}, id) = 0
  <2> SUFFICES ASSUME NEW id \in ToolIds, NEW i \in 1..m, NEW j \in 1..m, s[i].id = id, s[j].id = id
               PROVE  i = j /\ One(P, id) = 1 /\ One({}, id) = 0
    BY <1>10
  <2>1. s[i] = s[j]
    BY <1>8 DEF Matched, Awaited
  <2> QED  BY <1>3, <1>8, <2>1 DEF One
<1>12. \A id \in ToolIds : One(P, id) = 1 =>
         Fails(S \o evs) \/ CallsIn(evs, L, id) # {} \/ One({}, id) = 1
  <2> SUFFICES ASSUME NEW id \in ToolIds, One(P, id) = 1 PROVE CallsIn(evs, L, id) # {}
    OBVIOUS
  <2>1. PICK p \in P : p.id = id
    BY DEF One
  <2>2. PICK i \in 1..m : s[i] = p
    BY <1>4
  <2> QED  BY <1>10, <2>1, <2>2
<1> QED  BY <1>5, <1>9, <1>11, <1>12, MatchedSaid

------------------------------------------------------------------------------
(* The steps of the task.                                                  *)
Left == IF task \in {"reading", "flush"} THEN rd.pending ELSE {}

CallInv == kind \in {"codex", "gemini"} => Matched(log, sent, Left)

LEMMA LeftIs ==
  ASSUME Types
  PROVE  Left \in SUBSET Uses /\ IsFiniteSet(Left) /\ log \in Seq(AnyLine) /\ sent \in Seq(Events)
  BY FS_EmptySet DEF Types, Locals, Finite, Left, AnyLine

LEMMA TextsStay ==
  ASSUME Types, TextsKept, UNCHANGED log, NEW evs \in Seq(Events), sent' = sent \o evs,
         \A n \in 1..Len(log) : Held(n) => Held(n)' \/ Out(evs, n)
  PROVE  TextsKept'
<1>1. sent \in Seq(Events)
  BY DEF Types
<1>2. \A n : Out(sent, n) \/ Out(evs, n) => Out(sent \o evs, n)
  BY <1>1, OutJoined
<1>3. \A n : Out(sent, n) \/ Out(evs, n) => Out(sent', n)
  BY <1>2
<1> QED  BY <1>3 DEF TextsKept

LEMMA CallsStay ==
  ASSUME Types, CallInv, UNCHANGED <<kind, log>>, NEW evs \in Seq(Events), sent' = sent \o evs,
         Quiet(evs), Left' = Left \/ (Left' = {} /\ Fails(evs))
  PROVE  CallInv'
<1>1. SUFFICES ASSUME kind \in {"codex", "gemini"} PROVE Matched(log, sent \o evs, Left')
  BY DEF CallInv
<1>2. Matched(log, sent, Left)
  BY <1>1 DEF CallInv
<1>3. /\ Matched(log, sent \o evs, Left)
      /\ Fails(evs) => Matched(log, sent \o evs, {})
  BY <1>2, LeftIs, MatchedQuiet
<1> QED  BY <1>3

(* One line.                                                               *)
LEMMA ReadTold ==
  ASSUME TurnInv, TextInv, CallInv, ReadLine
  PROVE  TextInv' /\ CallInv'
<1> DEFINE n == Len(log) + 1
<1>1. Types
  BY DEF TurnInv
<1>2. PICK l \in AnyLine, r \in Locals, evs \in Seq(Events), to \in {"reading", "flush"} :
        /\ Iterate(l, r, evs, to)
        /\ TextFate(l, r, evs, n)
        /\ kind \in {"codex", "gemini"} => CallFate(l, r, evs, n)
        /\ kind = "codex" /\ l.type = "turn.completed" => to = "flush"
  BY <1>1, ReadFate DEF LineFate
<1>3. /\ log' = Append(log, l) /\ rd' = r /\ sent' = sent \o evs /\ task' = to
      /\ task = "reading" /\ UNCHANGED <<kind, schema>>
  BY <1>2 DEF Iterate, ReadLine
<1>4. log \in Seq(AnyLine) /\ sent \in Seq(Events)
  BY <1>1, LeftIs
<1>5. /\ Len(log') = n /\ Len(log) \in Nat /\ log'[n] = l /\ n \in 1..n
      /\ \A k \in 1..Len(log) : k \in 1..n /\ log'[k] = log[k]
      /\ \A k \in 1..n : k \in 1..Len(log) \/ k = n
  BY <1>3, <1>4, LogMore
<1> HIDE DEF n
<1>6. Completed(log') <=> Completed(log) \/ l.type = "turn.completed"
  BY <1>5 DEF Completed
<1>7. NotCompleted'
  <2> SUFFICES ASSUME kind = "codex", to = "reading" PROVE ~Completed(log')
    BY <1>3 DEF NotCompleted
  <2> QED  BY <1>2, <1>3, <1>6 DEF TextInv, NotCompleted
<1>8. Unstarted'
  BY <1>3 DEF Unstarted
<1>9. Structured' = Structured
  BY <1>3 DEF Structured
<1>10. \A k : Out(sent, k) \/ Out(evs, k) => Out(sent', k)
  <2>1. \A k : Out(sent, k) \/ Out(evs, k) => Out(sent \o evs, k)
    BY <1>4, OutJoined
  <2> QED  BY <1>3, <2>1
<1>11. ASSUME NEW k, Keeping, k \in ToSet(r.text),
              Structured /\ l.type = "turn.completed" => Out(evs, k)
       PROVE  Held(k)' \/ Out(evs, k)
  <2>1. CASE Structured
    <3>1. kind = "codex"
      BY <2>1 DEF Structured
    <3>2. ~Completed(log)
      BY <1>3, <3>1 DEF TextInv, NotCompleted
    <3> QED  BY <1>3, <1>6, <1>9, <1>11, <2>1, <3>2 DEF Held
  <2>2. CASE kind \in {"gemini", "claude"}
    BY <1>3, <1>11, <2>2 DEF Held
  <2> QED  BY <1>11, <2>1, <2>2 DEF Keeping
<1>12. TextsKept'
  <2> SUFFICES ASSUME NEW k \in 1..n, IsText(log'[k]) PROVE Out(sent', k) \/ Held(k)'
    BY <1>5 DEF TextsKept
  <2>1. CASE k \in 1..Len(log)
    <3>1. Out(sent, k) \/ Held(k)
      BY <1>5, <2>1 DEF TextInv, TextsKept
    <3>2. CASE Held(k)
      <4>1. Keeping /\ k \in ToSet(rd.text)
        BY <1>3, <3>2 DEF Held, Keeping
      <4>2. k \in ToSet(r.text) \/ Out(evs, k)
        BY <1>2, <4>1 DEF TextFate
      <4>3. Structured /\ l.type = "turn.completed" => Out(evs, k)
        BY <1>2, <4>1 DEF TextFate
      <4> QED  BY <1>10, <1>11, <4>1, <4>2, <4>3
    <3> QED  BY <1>10, <3>1, <3>2
  <2>2. CASE k = n
    <3>1. IsText(l)
      BY <1>5, <2>2
    <3>2. Out(evs, n) \/ (Keeping /\ n \in ToSet(r.text))
      BY <1>2, <3>1 DEF TextFate
    <3>3. l.type # "turn.completed"
      BY <3>1 DEF IsText
    <3> QED  BY <1>10, <1>11, <2>2, <3>2, <3>3
  <2> QED  BY <1>5, <2>1, <2>2
<1>13. CallInv'
  <2>1. SUFFICES ASSUME kind \in {"codex", "gemini"} PROVE Matched(log, sent, Left)'
    BY <1>3 DEF CallInv
  <2>2. Left = rd.pending /\ Left' = r.pending
    BY <1>3 DEF Left
  <2>3. Matched(log, sent, rd.pending) /\ rd.pending \in SUBSET Uses /\ IsFiniteSet(rd.pending)
    BY <1>1, <2>1, <2>2, LeftIs DEF CallInv
  <2>4. r.pending = rd.pending \/ r.pending \in OnUse(rd.pending, l.id, n)
          \/ r.pending = Without(rd.pending, l.id)
    BY <1>2, <2>1 DEF CallFate
  <2>5. Append(log, l) \in Seq(AnyLine)
    BY <1>4, LogMore
  <2>6. SUFFICES Matched(Append(log, l), sent \o evs, r.pending)
    BY <1>3, <2>2
  <2>7. CASE /\ l.type \in StartTypes /\ l.id \in ToolIds
             /\ r.pending \in OnUse(rd.pending, l.id, n) /\ Quiet(evs)
    <3>1. r.pending \in OnUse(rd.pending, l.id, Len(log) + 1)
      BY <2>7 DEF n
    <3>2. Matched(Append(log, l), sent, r.pending)
      BY <1>4, <2>3, <2>7, <3>1, MatchedStart
    <3>3. IsFiniteSet(r.pending)
      BY <1>5, <2>3, <2>7, Pairing
    <3> QED  BY <1>4, <2>5, <2>7, <3>2, <3>3, MatchedQuiet
  <2>8. CASE /\ l.type \notin StartTypes /\ l.id \in ToolIds
             /\ r.pending = Without(rd.pending, l.id) /\ evs = OnResult(rd.pending, l.id, n)
    <3>1. evs = OnResult(rd.pending, l.id, Len(log) + 1)
      BY <2>8 DEF n
    <3> QED  BY <1>4, <2>3, <2>8, <3>1, MatchedResult
  <2>9. CASE l.type \notin StartTypes /\ r.pending = rd.pending /\ Quiet(evs)
    <3>1. Matched(Append(log, l), sent, rd.pending)
      BY <1>4, <2>3, <2>9, MatchedLine
    <3> QED  BY <1>4, <2>3, <2>5, <2>9, <3>1, MatchedQuiet
  <2> QED  BY <1>2, <2>1, <2>7, <2>8, <2>9 DEF CallFate
<1> QED  BY <1>7, <1>8, <1>12, <1>13 DEF TextInv

LEMMA StepTold ==
  ASSUME TurnInv, TextInv, CallInv, UNCHANGED <<kind, schema, log>>,
         NEW evs \in Seq(Events), sent' = sent \o evs,
         \A n \in 1..Len(log) : Held(n) => Held(n)' \/ Out(evs, n),
         kind = "claude" \/ (Quiet(evs) /\ (Left' = Left \/ (Left' = {} /\ Fails(evs)))),
         task' \in {"idle", "spawn", "sub"} => task' = task /\ rd' = rd,
         task' = "reading" => task = "reading" \/ log = <<>>
  PROVE  TextInv' /\ CallInv'
<1>1. Types
  BY DEF TurnInv
<1>2. TextsKept'
  BY <1>1, TextsStay DEF TextInv
<1>3. Unstarted'
  BY DEF TextInv, Unstarted
<1>4. NotCompleted'
  <2>1. log = <<>> => ~Completed(log)
    BY DEF Completed
  <2> QED  BY <2>1 DEF TextInv, NotCompleted
<1>5. CallInv'
  <2>1. CASE kind = "claude"
    BY <2>1 DEF CallInv
  <2>2. CASE Quiet(evs) /\ (Left' = Left \/ (Left' = {} /\ Fails(evs)))
    BY <1>1, <2>2, CallsStay
  <2> QED  BY <2>1, <2>2
<1> QED  BY <1>2, <1>3, <1>4, <1>5 DEF TextInv

LEMMA NoLines == \A n \in 1..Len(<<>>) : FALSE
OBVIOUS

LEMMA NothingSent ==
  ASSUME Types
  PROVE  sent = sent \o <<>> /\ <<>> \in Seq(Events)
  BY DEF Types

LEMMA ErrorSent ==
  ASSUME Types
  PROVE  Append(sent, Err) = sent \o <<Err>> /\ <<Err>> \in Seq(Events)
  BY Appended, Errors DEF Types

(* The read loop ends.                                                     *)
LEMMA FlushTold ==
  ASSUME TurnInv, TextInv, CallInv, Flush
  PROVE  TextInv' /\ CallInv'
<1> DEFINE text == IF kind = "gemini" THEN FlushText(rd.text) ELSE <<>>
<1>1. PICK calls \in FlushPending(rd.pending) : sent' = (sent \o text) \o calls
  BY DEF Flush
<1>2. /\ task = "flush" /\ kind # "claude" /\ task' = "wait" /\ UNCHANGED <<kind, schema, log>>
      /\ Types
  BY DEF Flush, TurnInv
<1>3. rd.text \in Seq(Nat) /\ rd.pending \in SUBSET Uses /\ IsFiniteSet(rd.pending)
      /\ sent \in Seq(Events) /\ log \in Seq(AnyLine)
  BY <1>2, LeftIs DEF Types, Locals, Finite
<1>4. text \in Seq(Events) /\ Quiet(text)
  BY <1>3, TextSent, NoEvents, QuietOnes
<1>5. calls \in Seq(Events)
  BY <1>3, CallsSent
<1>6. kind = "gemini" => \A n \in ToSet(rd.text) : Out(text, n)
  BY <1>3, TextOut
<1> HIDE DEF text
<1>7. sent' = sent \o (text \o calls) /\ text \o calls \in Seq(Events)
  BY <1>1, <1>3, <1>4, <1>5, ConcatAssoc, Joined
<1>8. ASSUME NEW n \in 1..Len(log), Held(n)
      PROVE  Held(n)' \/ Out(text \o calls, n)
  <2>1. CASE Structured /\ ~Completed(log)
    BY <1>2, <2>1 DEF Held, Structured
  <2>2. CASE kind \in {"gemini", "claude"} /\ n \in ToSet(rd.text)
    <3>1. Out(text, n)
      BY <1>2, <1>6, <2>2
    <3> QED  BY <1>4, <1>5, <3>1, OutJoined
  <2> QED  BY <1>8, <2>1, <2>2 DEF Held
<1>9. TextsKept'
  BY <1>2, <1>7, <1>8, TextsStay DEF TextInv
<1>10. CallInv'
  <2>1. SUFFICES ASSUME kind \in {"codex", "gemini"} PROVE Matched(log, sent', {})
    BY <1>2 DEF CallInv, Left
  <2>2. Matched(log, sent, rd.pending)
    BY <1>2, <2>1 DEF CallInv, Left
  <2>3. Matched(log, sent \o text, rd.pending)
    BY <1>3, <1>4, <2>2, MatchedQuiet
  <2>4. sent \o text \in Seq(Events)
    BY <1>3, <1>4, Joined
  <2> QED  BY <1>1, <1>3, <2>3, <2>4, MatchedFlush
<1> QED  BY <1>2, <1>9, <1>10 DEF TextInv, Unstarted, NotCompleted

(* claude's text, its files and Done.                                      *)
LEMMA ConcludeTold ==
  ASSUME TurnInv, TextInv, CallInv, Conclude
  PROVE  TextInv' /\ CallInv'
<1>1. PICK fs \in Delivered(rd.files) :
        sent' = ((sent \o FlushText(rd.text)) \o [i \in DOMAIN fs |-> Ev("File", <<fs[i]>>, "")])
                  \o <<Done(rd.sid)>>
  BY DEF Conclude
<1>2. /\ task = "flush" /\ kind = "claude" /\ task' = "guard" /\ UNCHANGED <<kind, schema, log>>
      /\ Types
  BY DEF Conclude, TurnInv
<1> DEFINE x == FlushText(rd.text)
           y == [i \in DOMAIN fs |-> Ev("File", <<fs[i]>>, "")]
           z == <<Done(rd.sid)>>
<1>3. rd.text \in Seq(Nat) /\ rd.files \in SUBSET Nat /\ IsFiniteSet(rd.files) /\ rd.sid \in Args
      /\ sent \in Seq(Events)
  BY <1>2 DEF Types, Locals, Finite, Args
<1>4. x \in Seq(Events) /\ y \in Seq(Events) /\ z \in Seq(Events)
  BY <1>3, TextSent, FilesSent, DoneLast
<1>5. \A n \in ToSet(rd.text) : Out(x, n)
  BY <1>3, TextOut
<1>6. sent' = ((sent \o x) \o y) \o z
  BY <1>1
<1> HIDE DEF x, y, z
<1>7. /\ (sent \o x) \o y = sent \o (x \o y) /\ x \o y \in Seq(Events)
  <2>1. sent \in Seq(Events)
    BY <1>3
  <2>2. x \in Seq(Events) /\ y \in Seq(Events)
    BY <1>4
  <2> QED  BY ONLY <2>1, <2>2, ConcatAssoc, Joined
<1>8. (sent \o (x \o y)) \o z = sent \o ((x \o y) \o z) /\ (x \o y) \o z \in Seq(Events)
  <2>1. sent \in Seq(Events)
    BY <1>3
  <2>2. x \o y \in Seq(Events) /\ z \in Seq(Events)
    BY <1>4, <1>7
  <2> QED  BY ONLY <2>1, <2>2, ConcatAssoc, Joined
<1>9. \A n \in ToSet(rd.text) : Out((x \o y) \o z, n)
  BY <1>4, <1>5, <1>7, OutJoined
<1>10. \A n \in 1..Len(log) : Held(n) => n \in ToSet(rd.text)
  BY <1>2 DEF Held, Structured
<1>11. sent' = sent \o ((x \o y) \o z)
  BY <1>6, <1>7, <1>8
<1> QED  BY <1>2, <1>8, <1>9, <1>10, <1>11, StepTold

LEMMA PanicFails ==
  PanicEvents \in Seq(Events) /\ Fails(PanicEvents) /\ Quiet(PanicEvents)
<1>1. "" \in Args
  BY DEF Args
<1>2. <<Err>> \in Seq(Events) /\ Fails(<<Err>>) /\ Quiet(<<Err>>)
  BY Errors, ErrOut, QuietOnes
<1>3. <<Done("")>> \in Seq(Events) /\ Quiet(<<Done("")>>)
  BY <1>1, DoneLast, QuietOnes DEF Done
<1>4. <<Err>> \o <<Done("")>> = <<Err, Done("")>>
  BY <1>2, <1>3, OneOf, TwoEvents
<1>5. /\ <<Err>> \o <<Done("")>> \in Seq(Events) /\ Fails(<<Err>> \o <<Done("")>>)
      /\ Quiet(<<Err>> \o <<Done("")>>)
  BY <1>2, <1>3, Joined, OutJoined, QuietJoined
<1>6. /\ <<Err, Done("")>> \in Seq(Events) /\ Fails(<<Err, Done("")>>)
      /\ Quiet(<<Err, Done("")>>)
  BY <1>4, <1>5
<1> QED  BY <1>2, <1>6 DEF PanicEvents

LEMMA TaskTold ==
  ASSUME TurnInv, TextInv, CallInv, TaskNext
  PROVE  TextInv' /\ CallInv'
<1>1. Types
  BY DEF TurnInv
<1>2. sent \in Seq(Events) /\ rd \in Locals /\ "" \in Args
  BY <1>1 DEF Types, Args
<1>3. sent = sent \o <<>> /\ <<>> \in Seq(Events)
  BY <1>1, NothingSent
<1>4. Append(sent, Err) = sent \o <<Err>> /\ <<Err>> \in Seq(Events)
  BY <1>1, ErrorSent
<1>5. CASE ReadLine
  BY <1>5, ReadTold
<1>6. CASE Thinking
  <2>1. /\ sent' = Append(sent, Ev("Tool", <<>>, "Thinking")) /\ task = "reading" /\ kind = "claude"
        /\ UNCHANGED <<kind, schema, task, log>> /\ rd' = [rd EXCEPT !.thinking = TRUE]
    BY <1>6 DEF Thinking
  <2>2. <<Ev("Tool", <<>>, "Thinking")>> \in Seq(Events)
    BY NoEvents, OneEvent DEF Kind, Args
  <2>3. sent' = sent \o <<Ev("Tool", <<>>, "Thinking")>>
    BY <1>2, <2>1, <2>2, Appended
  <2>4. rd'.text = rd.text
    BY <1>2, <2>1 DEF Locals
  <2>5. \A n \in 1..Len(log) : Held(n) => Held(n)'
    BY <2>1, <2>4 DEF Held, Structured
  <2> QED  BY <2>1, <2>2, <2>3, <2>5, StepTold
<1>7. CASE EndOfStream
  <2>1. /\ task = "reading" /\ task' = "flush" /\ UNCHANGED <<kind, schema, log, sent>>
        /\ rd' = [rd EXCEPT !.closed = TRUE]
    BY <1>7 DEF EndOfStream
  <2>2. rd'.text = rd.text /\ rd'.pending = rd.pending
    BY <1>2, <2>1 DEF Locals
  <2>3. \A n \in 1..Len(log) : Held(n) => Held(n)'
    BY <2>1, <2>2 DEF Held, Structured
  <2>4. Left' = Left
    BY <2>1, <2>2 DEF Left
  <2>5. sent' = sent \o <<>>
    BY <1>3, <2>1
  <2> QED  BY <1>3, <2>1, <2>3, <2>4, <2>5, QuietOnes, StepTold
<1>8. CASE ReadError \/ Timeout
  <2>1. /\ task = "reading" /\ task' = "flush" /\ UNCHANGED <<kind, schema, log, rd>>
        /\ sent' = sent \o <<Err>>
    BY <1>4, <1>8 DEF ReadError, Timeout
  <2>2. \A n \in 1..Len(log) : Out(<<Err>>, n)
    BY ErrOut DEF Out
  <2>3. Left' = Left
    BY <2>1 DEF Left
  <2> QED  BY <1>4, <2>1, <2>2, <2>3, QuietOnes, StepTold
<1>9. CASE Flush
  BY <1>9, FlushTold
<1>10. CASE CollectStderr
  <2> DEFINE x == ExitError
             y == NoContent
             z == <<Done(rd.sid)>>
  <2>1. /\ task = "stderr" /\ task' = "guard" /\ UNCHANGED <<kind, schema, log, rd>>
        /\ sent' = ((sent \o x) \o y) \o z
    BY <1>10 DEF CollectStderr
  <2>2. x \in Seq(Events) /\ Quiet(x)
    BY NoEvents, Errors, QuietOnes DEF ExitError
  <2>3. y \in Seq(Events) /\ Quiet(y)
    <3>1. <<Ev("Text", <<>>, "")>> \in Seq(Events)
      BY <1>2, NoEvents, OneEvent DEF Kind
    <3> QED  BY <3>1, NoEvents, QuietOnes DEF NoContent
  <2>4. z \in Seq(Events) /\ Quiet(z)
    <3>1. rd.sid \in Args
      BY <1>2 DEF Locals, Args
    <3> QED  BY <3>1, DoneLast, QuietOnes DEF Done
  <2> HIDE DEF x, y, z
  <2>5. /\ (sent \o x) \o y = sent \o (x \o y) /\ x \o y \in Seq(Events) /\ Quiet(x \o y)
    BY <1>2, <2>2, <2>3, ConcatAssoc, Joined, QuietJoined
  <2>6. /\ (sent \o (x \o y)) \o z = sent \o ((x \o y) \o z) /\ (x \o y) \o z \in Seq(Events)
        /\ Quiet((x \o y) \o z)
    BY <1>2, <2>4, <2>5, ConcatAssoc, Joined, QuietJoined
  <2>7. \A n \in 1..Len(log) : Held(n) => Held(n)'
    BY <2>1 DEF Held, Structured
  <2>8. Left' = Left
    BY <2>1 DEF Left
  <2>9. sent' = sent \o ((x \o y) \o z)
    BY <2>1, <2>5, <2>6
  <2> QED  BY <2>1, <2>6, <2>7, <2>8, <2>9, StepTold
<1>11. CASE Conclude
  BY <1>11, ConcludeTold
<1>12. CASE Panic
  <2>1. task' = "guard" /\ UNCHANGED <<kind, schema, log, rd>> /\ sent' = sent \o PanicEvents
    BY <1>12 DEF Panic
  <2>2. PanicEvents \in Seq(Events) /\ Fails(PanicEvents) /\ Quiet(PanicEvents)
    BY PanicFails
  <2>3. Left' = {} /\ \A n \in 1..Len(log) : Out(PanicEvents, n)
    BY <2>1, <2>2 DEF Left, Out
  <2> QED  BY <2>1, <2>2, <2>3, StepTold
<1>13. CASE Guard
  <2>1. task = "guard" /\ task' = "over" /\ UNCHANGED <<kind, schema, log, sent>>
    BY <1>13 DEF Guard
  <2>2. \A n \in 1..Len(log) : Held(n) => Held(n)'
    BY <2>1 DEF Held, Structured
  <2>3. Left' = Left /\ sent' = sent \o <<>>
    BY <1>3, <2>1 DEF Left
  <2> QED  BY <1>3, <2>1, <2>2, <2>3, QuietOnes, StepTold
<1>14. CASE Spawn
  <2>1. task = "spawn" /\ UNCHANGED <<kind, schema, log, rd>> /\ log = <<>> /\ rd.pending = {}
    BY <1>14 DEF Spawn, TextInv, Unstarted
  <2>2. \A n \in 1..Len(log) : FALSE
    BY <2>1
  <2>3. Left' = {} /\ Left = {}
    BY <2>1 DEF Left
  <2>4. CASE task' = "reading" /\ UNCHANGED sent
    <3>1. sent' = sent \o <<>>
      BY <1>3, <2>4
    <3> QED  BY <1>3, <2>1, <2>2, <2>3, <2>4, <3>1, QuietOnes, StepTold
  <2>5. CASE sent' = sent \o PanicEvents /\ task' = "guard"
    BY <2>1, <2>2, <2>3, <2>5, PanicFails, StepTold
  <2> QED  BY <1>14, <2>4, <2>5 DEF Spawn
<1>15. CASE Subcommand
  <2>1. PICK ev \in {Ev("Text", <<>>, ""), Err} : sent' = sent \o <<ev, Done("")>>
    BY <1>15 DEF Subcommand
  <2>2. task = "sub" /\ task' = "guard" /\ UNCHANGED <<kind, schema, log, rd>> /\ log = <<>>
    BY <1>15 DEF Subcommand, TextInv, Unstarted
  <2>3. \A n \in 1..Len(log) : FALSE
    BY <2>2, NoLines
  <2>4. Left' = {} /\ Left = {}
    BY <2>2 DEF Left
  <2>5. <<ev>> \in Seq(Events) /\ Quiet(<<ev>>)
    <3>1. <<Ev("Text", <<>>, "")>> \in Seq(Events)
      BY <1>2, NoEvents, OneEvent DEF Kind
    <3> QED  BY <2>1, <3>1, Errors, QuietOnes
  <2>6. <<Done("")>> \in Seq(Events) /\ Quiet(<<Done("")>>)
    BY <1>2, DoneLast, QuietOnes DEF Done
  <2>7. <<ev>> \o <<Done("")>> = <<ev, Done("")>>
    BY <2>5, <2>6, OneOf, TwoEvents
  <2>8. <<ev>> \o <<Done("")>> \in Seq(Events) /\ Quiet(<<ev>> \o <<Done("")>>)
    BY <2>5, <2>6, Joined, QuietJoined
  <2>9. sent' = sent \o (<<ev>> \o <<Done("")>>)
    BY <2>1, <2>7
  <2> QED  BY <2>2, <2>3, <2>4, <2>8, <2>9, StepTold
<1>16. CASE ChildExits \/ PrintUnread
  <2>1. UNCHANGED <<kind, schema, task, rd, log, sent>>
    BY <1>16 DEF ChildExits, PrintUnread
  <2>2. \A n \in 1..Len(log) : Held(n) => Held(n)'
    BY <2>1 DEF Held, Structured
  <2>3. Left' = Left /\ sent' = sent \o <<>>
    BY <1>3, <2>1 DEF Left
  <2> QED  BY <1>3, <2>1, <2>2, <2>3, QuietOnes, StepTold
<1>17. CASE Reap
  <2>1. /\ task = "wait" /\ task' \in {"stderr", "held"} /\ UNCHANGED <<kind, schema, log, rd>>
        /\ sent' = sent \o Fatal
    BY <1>17 DEF Reap
  <2>2. Fatal \in Seq(Events) /\ Quiet(Fatal)
    BY NoEvents, Errors, QuietOnes DEF Fatal
  <2>3. \A n \in 1..Len(log) : Held(n) => Held(n)'
    BY <2>1 DEF Held, Structured
  <2>4. Left' = Left
    BY <2>1 DEF Left
  <2> QED  BY <2>1, <2>2, <2>3, <2>4, StepTold
<1>18. CASE PipeCloses
  <2>1. task = "held" /\ task' = "stderr" /\ UNCHANGED <<kind, schema, log, rd, sent>>
    BY <1>18 DEF PipeCloses
  <2>2. \A n \in 1..Len(log) : Held(n) => Held(n)'
    BY <2>1 DEF Held, Structured
  <2>3. Left' = Left /\ sent' = sent \o <<>>
    BY <1>3, <2>1 DEF Left
  <2> QED  BY <1>3, <2>1, <2>2, <2>3, QuietOnes, StepTold
<1> QED  BY <1>5, <1>6, <1>7, <1>8, <1>9, <1>10, <1>11, <1>12, <1>13, <1>14, <1>15, <1>16,
            <1>17, <1>18 DEF TaskNext

------------------------------------------------------------------------------
(* Why a turn has left something unread: it has failed, or will when the   *)
(* child is reaped, or the last line read ended it.                        *)
LastEnds == log # <<>> /\ EndsLoop(log[Len(log)])

Excused == Fails(sent) \/ LastEnds \/ (rd.fatal /\ task \in {"flush", "wait"})

ReadInv ==
  /\ task \in {"flush", "wait"} /\ kind # "claude" /\ ~rd.closed => Excused
  /\ unread => Excused /\ kind # "claude" /\ task \notin {"spawn", "sub", "reading"}
  /\ kind = "opencode" /\ task \in {"spawn", "reading"} => ~BreaksOnStepFinish(rd)

LEMMA LastOf ==
  ASSUME NEW l \in AnyLine, log \in Seq(AnyLine), log' = Append(log, l), EndsLoop(l)
  PROVE  LastEnds'
<1>1. Append(log, l) # <<>> /\ Append(log, l)[Len(Append(log, l))] = l
  OBVIOUS
<1> QED  BY <1>1 DEF LastEnds

LEMMA CodexEnds ==
  ASSUME rd \in Locals, NEW l, NEW n, CodexLine(l, n) \/ CodexCompleted(l)
  PROVE  /\ log' = Append(log, l)
         /\ task' = "reading" \/ (task' = "flush" /\ (EndsLoop(l) \/ rd'.fatal))
<1>1. CASE CodexLine(l, n)
  BY <1>1 DEF CodexLine, Iterate, Known, Locals
<1>2. CASE CodexCompleted(l)
  BY <1>2 DEF CodexCompleted, Iterate, EndsLoop
<1> QED  BY <1>1, <1>2

LEMMA GeminiEnds ==
  ASSUME rd \in Locals, NEW l, NEW n, GeminiLine(l, n) \/ GeminiTool(l, n)
  PROVE  /\ log' = Append(log, l)
         /\ task' = "reading" \/ (task' = "flush" /\ (EndsLoop(l) \/ rd'.fatal))
<1>1. CASE GeminiLine(l, n)
  BY <1>1 DEF GeminiLine, Iterate, Known, Locals, EndsLoop
<1>2. CASE GeminiTool(l, n)
  BY <1>2 DEF GeminiTool, Iterate
<1> QED  BY <1>1, <1>2

(* A line that does not end a step leaves the number of open ones positive *)
(* where one has ended.                                                    *)
LEMMA OpencodeEnds ==
  ASSUME rd \in Locals, ~BreaksOnStepFinish(rd), NEW l, NEW n, OpencodeLine(l, n)
  PROVE  /\ log' = Append(log, l)
         /\ \/ task' = "reading" /\ ~BreaksOnStepFinish(rd')
            \/ task' = "flush" /\ EndsLoop(l)
<1>0. rd.steps \in Int /\ rd.finished \in BOOLEAN /\ (rd.finished => rd.steps > 0)
  <2>1. rd.steps \in Int /\ rd.finished \in BOOLEAN
    BY DEF Locals
  <2>2. ASSUME rd.finished  PROVE rd.steps > 0
    <3>1. ~(rd.steps <= 0)
      BY <2>2 DEF BreaksOnStepFinish
    <3> QED  BY <2>1, <3>1
  <2> QED  BY <2>1, <2>2
<1>1. ASSUME NEW q, NEW evs, OpencodeIterate(l, q, evs)
      PROVE  /\ log' = Append(log, l) /\ rd' = q
             /\ \/ task' = "reading" /\ ~BreaksOnStepFinish(q)
                \/ task' = "flush" /\ BreaksOnStepFinish(q)
  BY <1>1 DEF OpencodeIterate, Iterate
<1>2. CASE l.type = "step_start"
  <2> DEFINE q == [OpencodeKnown EXCEPT !.steps = @ + 1]
  <2>1. OpencodeIterate(l, q, <<>>)
    BY <1>2 DEF OpencodeLine
  <2>2. q.steps = rd.steps + 1 /\ q.finished = rd.finished
    BY DEF OpencodeKnown, Known, Locals
  <2>3. ~BreaksOnStepFinish(q)
    BY <1>0, <2>2 DEF BreaksOnStepFinish
  <2> QED  BY <1>1, <2>1, <2>3
<1>3. CASE l.type = "step_finish"
  <2> DEFINE q == [OpencodeKnown EXCEPT !.steps = @ - 1, !.finished = TRUE]
  <2>1. OpencodeIterate(l, q, <<>>)
    BY <1>3 DEF OpencodeLine
  <2>2. EndsLoop(l)
    BY <1>3 DEF EndsLoop
  <2> HIDE DEF q
  <2> QED  BY <1>1, <2>1, <2>2
<1>4. CASE l.type \in {"text", "tool_use"}
  <2>1. PICK evs : OpencodeIterate(l, OpencodeKnown, evs)
    BY <1>4 DEF OpencodeLine
  <2>2. OpencodeKnown.steps = rd.steps /\ OpencodeKnown.finished = rd.finished
    BY DEF OpencodeKnown, Known, Locals
  <2>3. ~BreaksOnStepFinish(OpencodeKnown)
    BY <1>0, <2>2 DEF BreaksOnStepFinish
  <2> QED  BY <1>1, <2>1, <2>3
<1>5. CASE l.type = "unknown"
  <2>1. Iterate(l, [rd EXCEPT !.sid = "s"], <<>>, "reading")
    BY <1>5 DEF OpencodeLine
  <2>2. rd'.steps = rd.steps /\ rd'.finished = rd.finished
    BY <2>1 DEF Iterate, Locals
  <2> QED  BY <1>0, <2>1, <2>2 DEF Iterate, BreaksOnStepFinish
<1> QED  BY <1>2, <1>3, <1>4, <1>5 DEF OpencodeLine

LEMMA LineRead ==
  ASSUME TurnInv, ReadInv, ReadLine
  PROVE  ReadInv'
<1>1. /\ task = "reading" /\ ~unread /\ ~unread' /\ kind' = kind /\ rd \in Locals
      /\ log \in Seq(AnyLine)
  BY DEF ReadLine, ReadInv, TurnInv, Types, AnyLine
<1>2. ASSUME NEW l \in AnyLine, log' = Append(log, l),
             task' = "reading" \/ (task' = "flush" /\ (EndsLoop(l) \/ rd'.fatal)),
             kind # "opencode"
      PROVE  ReadInv'
  BY <1>1, <1>2, LastOf DEF ReadInv, Excused
<1>3. CASE kind = "codex"
  <2>1. PICK l \in CodexLines : CodexLine(l, Len(log) + 1) \/ CodexCompleted(l)
    BY <1>3 DEF ReadLine
  <2> QED  BY <1>1, <1>2, <1>3, <2>1, CodexEnds DEF AnyLine
<1>4. CASE kind = "gemini"
  <2>1. PICK l \in GeminiLines : GeminiLine(l, Len(log) + 1) \/ GeminiTool(l, Len(log) + 1)
    BY <1>4 DEF ReadLine
  <2> QED  BY <1>1, <1>2, <1>4, <2>1, GeminiEnds DEF AnyLine
<1>5. CASE kind = "opencode"
  <2>1. PICK l \in OpencodeLines : OpencodeLine(l, Len(log) + 1)
    BY <1>5 DEF ReadLine
  <2>2. ~BreaksOnStepFinish(rd)
    BY <1>1, <1>5 DEF ReadInv
  <2>3. /\ log' = Append(log, l)
        /\ \/ task' = "reading" /\ ~BreaksOnStepFinish(rd')
           \/ task' = "flush" /\ EndsLoop(l)
    BY <1>1, <2>1, <2>2, OpencodeEnds
  <2>4. task' = "flush" => LastEnds'
    BY <1>1, <2>3, LastOf DEF AnyLine
  <2> QED  BY <1>1, <2>3, <2>4 DEF ReadInv, Excused
<1>6. CASE kind = "claude"
  <2>1. task' \in {"reading", "flush"}
    BY <1>6 DEF ReadLine, ClaudeLine, Iterate
  <2> QED  BY <1>1, <1>6, <2>1 DEF ReadInv
<1> QED  BY <1>3, <1>4, <1>5, <1>6 DEF ReadLine

(* An error that was sent stays.                                           *)
LEMMA StillFails ==
  ASSUME TurnInv, TaskNext, Fails(sent)
  PROVE  Fails(sent')
<1>1. PICK evs \in Seq(Events) : Sends(evs)
  BY TaskStep DEF TurnInv
<1>2. sent \in Seq(Events) /\ sent' = sent \o evs
  BY <1>1 DEF Sends, TurnInv, Types
<1>3. PICK i \in 1..Len(sent) : sent[i].type = "Error"
  BY DEF Fails
<1>4. /\ Len(sent \o evs) = Len(sent) + Len(evs) /\ Len(sent) \in Nat /\ Len(evs) \in Nat
      /\ (sent \o evs)[i] = sent[i]
  BY <1>2, Joined
<1> QED  BY <1>2, <1>3, <1>4 DEF Fails

LEMMA FailsThen ==
  ASSUME TurnInv, NEW evs \in Seq(Events), Fails(evs), sent' = sent \o evs
  PROVE  Fails(sent')
<1>1. sent \in Seq(Events)
  BY DEF TurnInv, Types
<1>2. PICK i \in 1..Len(evs) : evs[i].type = "Error"
  BY DEF Fails
<1>3. /\ Len(sent \o evs) = Len(sent) + Len(evs) /\ Len(sent) \in Nat /\ Len(evs) \in Nat
      /\ (sent \o evs)[Len(sent) + i] = evs[i]
  BY <1>1, Joined
<1>4. Len(sent) + i \in 1..Len(sent \o evs)
  BY <1>3
<1> QED  BY <1>2, <1>3, <1>4 DEF Fails

LEMMA TaskRead ==
  ASSUME TurnInv, ReadInv, TaskNext
  PROVE  ReadInv'
<1>0. rd \in Locals /\ (Fails(sent) => Fails(sent'))
  BY StillFails DEF TurnInv, Types
<1>1. CASE ReadLine
  BY <1>1, LineRead
<1>2. CASE Thinking
  BY <1>2 DEF Thinking, ReadInv
<1>3. CASE EndOfStream
  BY <1>0, <1>3 DEF EndOfStream, ReadInv, Locals
<1>4. CASE ReadError \/ Timeout
  <2>1. sent' = sent \o <<Err>> /\ <<Err>> \in Seq(Events)
    BY <1>4, ErrorSent DEF ReadError, Timeout, TurnInv
  <2>2. Fails(sent')
    BY <2>1, ErrOut, FailsThen
  <2> QED  BY <1>4, <2>2 DEF ReadError, Timeout, ReadInv, Excused
<1>5. CASE Flush
  <2>1. /\ task = "flush" /\ task' = "wait" /\ UNCHANGED <<kind, log, unread>>
        /\ rd' = [rd EXCEPT !.text = <<>>, !.pending = {}]
    BY <1>5 DEF Flush
  <2>2. rd'.fatal = rd.fatal /\ rd'.closed = rd.closed
    BY <1>0, <2>1 DEF Locals
  <2> QED  BY <1>0, <2>1, <2>2 DEF ReadInv, Excused, LastEnds
<1>6. CASE Reap
  <2>1. task = "wait" /\ task' \in {"stderr", "held"} /\ UNCHANGED <<kind, log, unread, rd>>
        /\ sent' = sent \o Fatal
    BY <1>6 DEF Reap
  <2>2. rd.fatal => Fails(sent')
    <3>1. rd.fatal => Fatal = <<Err>> /\ <<Err>> \in Seq(Events)
      BY Errors DEF Fatal
    <3> QED  BY <2>1, <3>1, ErrOut, FailsThen
  <2> QED  BY <1>0, <2>1, <2>2 DEF ReadInv, Excused, LastEnds
<1>7. CASE CollectStderr \/ PipeCloses
  <2>1. task \in {"stderr", "held"} /\ task' \in {"guard", "stderr"}
        /\ UNCHANGED <<kind, log, unread, rd>>
    BY <1>7 DEF CollectStderr, PipeCloses
  <2> QED  BY <1>0, <2>1 DEF ReadInv, Excused, LastEnds
<1>8. CASE Conclude
  BY <1>8 DEF Conclude, ReadInv
<1>9. CASE Panic
  <2>1. task' = "guard" /\ UNCHANGED <<kind, unread>>
        /\ task \in {"spawn", "reading", "flush", "wait", "stderr"}
    BY <1>9 DEF Panic
  <2>2. Fails(sent')
    BY <1>9, PanicFails, FailsThen DEF Panic
  <2> QED  BY <2>1, <2>2 DEF ReadInv, Excused
<1>10. CASE Guard
  BY <1>0, <1>10 DEF Guard, ReadInv, Excused, LastEnds
<1>11. CASE Spawn
  BY <1>11 DEF Spawn, ReadInv
<1>12. CASE Subcommand
  BY <1>12 DEF Subcommand, ReadInv
<1>13. CASE ChildExits
  BY <1>13 DEF ChildExits, ReadInv, Excused, LastEnds
<1>14. CASE PrintUnread
  BY <1>14 DEF PrintUnread, ReadInv, Excused, LastEnds
<1> QED  BY <1>1, <1>2, <1>3, <1>4, <1>5, <1>6, <1>7, <1>8, <1>9, <1>10, <1>11, <1>12, <1>13,
            <1>14 DEF TaskNext

LEMMA BeginRead ==
  ASSUME \/ \E r \in Requests : Prompt(r[1], r[2], r[3])
         \/ \E k \in Kinds : Passthrough(k)
  PROVE  ReadInv'
<1>1. ~unread' /\ rd' = Fresh /\ task' \notin {"flush", "wait"}
  BY DEF Prompt, Passthrough, RunPrompt, RunSubcommand
<1> QED  BY <1>1 DEF ReadInv, Fresh, BreaksOnStepFinish

LEMMA StillRead ==
  ASSUME ReadInv, UNCHANGED <<kind, task, rd, log, unread, sent>>
  PROVE  ReadInv'
  BY DEF ReadInv, Excused, LastEnds

(* The driver has seen no error before, and Done last.                     *)
Heeded ==
  /\ driver \in {"driving", "stuck", "done"} => \A i \in 1..taken : sent[i].type # "Error"
  /\ driver = "done" => taken \in 1..Len(sent) /\ sent[taken].type = "Done"

ToldInv == ChatInv /\ TextInv /\ CallInv /\ ReadInv /\ Heeded

LEMMA MatchedEmpty ==
  ASSUME NEW S \in Seq(Events), Quiet(S)
  PROVE  Matched(<<>>, S, {})
<1>1. <<>> \in Seq(AnyLine) /\ \A n \in 1..Len(<<>>) : FALSE
  OBVIOUS
<1>2. AllStarts(<<>>) = {} /\ \A id : StartsIn(<<>>, id) = {}
  BY <1>1 DEF AllStarts, StartsIn
<1>3. Within(S, <<>>) /\ \A id : CallsIn(S, <<>>, id) = {} /\ One({}, id) = 0
  BY NoCalls DEF One
<1>4. Awaited(<<>>, {})
  BY <1>2, FS_EmptySet DEF Awaited
<1>5. Cardinality({}) = 0
  BY FS_EmptySet
<1>6. ASSUME NEW id \in ToolIds
      PROVE  /\ Cardinality(CallsIn(S, <<>>, id)) + One({}, id) <= Cardinality(StartsIn(<<>>, id))
             /\ Cardinality(StartsIn(<<>>, id)) # 1
  <2>1. CallsIn(S, <<>>, id) = {} /\ StartsIn(<<>>, id) = {} /\ One({}, id) = 0
    BY <1>2, <1>3
  <2>2. Cardinality(CallsIn(S, <<>>, id)) = 0 /\ Cardinality(StartsIn(<<>>, id)) = 0
    BY <1>5, <2>1
  <2> QED  BY <2>1, <2>2
<1> QED  BY <1>3, <1>4, <1>6 DEF Matched

(* A turn that has no lines yet.                                           *)
LEMMA FreshTold ==
  ASSUME log = <<>>, rd = Fresh, sent \in Seq(Events), Quiet(sent),
         task \notin {"reading", "flush"}
  PROVE  TextInv /\ CallInv
<1>1. \A n \in 1..Len(log) : FALSE
  BY NoLines
<1>2. Left = {}
  BY DEF Left
<1>3. Matched(log, sent, Left)
  BY <1>2, MatchedEmpty
<1>4. Fresh.pending = {}
  BY DEF Fresh
<1> QED  BY <1>1, <1>3, <1>4 DEF TextInv, TextsKept, Unstarted, NotCompleted, CallInv

LEMMA BeginTold ==
  ASSUME ToldInv,
         \/ \E r \in Requests : Prompt(r[1], r[2], r[3])
         \/ \E k \in Kinds : Passthrough(k)
  PROVE  TextInv' /\ CallInv' /\ Heeded'
<1>1. /\ log' = <<>> /\ rd' = Fresh /\ task' \notin {"reading", "flush"}
      /\ sent' \in {<<Err, Done("")>>, <<>>, <<Ev("Text", <<>>, "")>>}
      /\ driver = "idle" /\ driver' = "driving" /\ taken' = taken
  BY DEF Prompt, Passthrough, RunPrompt, RunSubcommand, AtRest, StartDriving
<1>2. taken = 0
  BY <1>1 DEF ToldInv, ChatInv, TurnInv, Hears
<1>3. Heeded'
  <2>1. \A i \in 1..0 : FALSE
    OBVIOUS
  <2> QED  BY <1>1, <1>2, <2>1 DEF Heeded
<1>4. "" \in Args
  BY DEF Args
<1>5. <<Err, Done("")>> \in Seq(Events) /\ Quiet(<<Err, Done("")>>)
  <2>1. <<Err>> \in Seq(Events) /\ Quiet(<<Err>>) /\ <<Done("")>> \in Seq(Events)
        /\ Quiet(<<Done("")>>)
    BY <1>4, Errors, DoneLast, QuietOnes DEF Done
  <2>2. <<Err>> \o <<Done("")>> = <<Err, Done("")>>
    BY <2>1, OneOf, TwoEvents
  <2>3. <<Err>> \o <<Done("")>> \in Seq(Events) /\ Quiet(<<Err>> \o <<Done("")>>)
    BY <2>1, Joined, QuietJoined
  <2> QED  BY <2>2, <2>3
<1>6. <<Ev("Text", <<>>, "")>> \in Seq(Events) /\ Quiet(<<Ev("Text", <<>>, "")>>)
  BY <1>4, NoEvents, OneEvent, QuietOnes DEF Kind
<1>7. sent' \in Seq(Events) /\ Quiet(sent')
  <2>1. \A s \in {<<Err, Done("")>>, <<>>, <<Ev("Text", <<>>, "")>>} : s \in Seq(Events) /\ Quiet(s)
    BY <1>5, <1>6, NoEvents, QuietOnes
  <2> QED  BY <1>1, <2>1
<1>8. \A n \in 1..Len(log') : FALSE
  BY <1>1, NoLines
<1>9. Left' = {} /\ Fresh.pending = {}
  BY <1>1 DEF Left, Fresh
<1>10. Matched(log', sent', Left')
  <2>1. Matched(<<>>, sent', {})
    BY <1>7, MatchedEmpty
  <2> QED  BY <1>1, <1>9, <2>1
<1>11. TextInv' /\ CallInv'
  BY <1>1, <1>8, <1>9, <1>10 DEF TextInv, TextsKept, Unstarted, NotCompleted, CallInv
<1> QED  BY <1>3, <1>11

LEMMA StillTold ==
  ASSUME TextInv, CallInv, UNCHANGED <<kind, schema, task, rd, log, sent>>
  PROVE  TextInv' /\ CallInv'
  BY DEF TextInv, TextsKept, Held, Structured, Unstarted, NotCompleted, CallInv, Left

LEMMA TakeTold ==
  ASSUME ToldInv, Take
  PROVE  TextInv' /\ CallInv' /\ Heeded'
<1>1. UNCHANGED taskVars /\ driver = "driving" /\ taken \in Nat
  BY DEF Take, TakeTool, TakeText, TakeFile, TakeStructured, TakeDone, TakeError, StreamCloses,
         Receives, ToldInv, ChatInv, TurnInv, Hears
<1>2. TextInv' /\ CallInv'
  BY <1>1, StillTold DEF ToldInv, taskVars
<1>3. sent' = sent /\ \A i \in 1..taken : sent[i].type # "Error"
  BY <1>1 DEF ToldInv, Heeded, taskVars
<1>4. CASE StreamCloses \/ TakeError
  BY <1>2, <1>4 DEF StreamCloses, TakeError, Heeded
<1>5. CASE TakeTool \/ TakeText \/ TakeFile \/ TakeStructured \/ TakeDone
  <2>1. /\ taken < Len(sent) /\ taken' = taken + 1 /\ sent[taken + 1].type # "Error"
        /\ driver' = "done" => sent[taken + 1].type = "Done"
    BY <1>1, <1>5 DEF TakeTool, TakeText, TakeFile, TakeStructured, TakeDone, Receives
  <2>2. Len(sent) \in Nat
    BY DEF ToldInv, ChatInv, TurnInv, Types
  <2>3. taken + 1 \in 1..Len(sent) /\ \A i \in 1..(taken + 1) : i \in 1..taken \/ i = taken + 1
    BY <1>1, <2>1, <2>2
  <2> QED  BY <1>2, <1>3, <2>1, <2>3 DEF Heeded
<1> QED  BY <1>2, <1>4, <1>5 DEF Take

LEMMA TaskHeeded ==
  ASSUME ToldInv, TaskNext, UNCHANGED driverVars
  PROVE  Heeded'
<1>1. PICK evs \in Seq(Events) : Sends(evs)
  BY TaskStep DEF ToldInv, ChatInv, TurnInv
<1>2. sent \in Seq(Events) /\ taken \in Nat /\ taken <= Len(sent)
  BY DEF ToldInv, ChatInv, TurnInv, Hears, Types
<1>3. /\ Len(sent \o evs) = Len(sent) + Len(evs) /\ Len(sent) \in Nat /\ Len(evs) \in Nat
      /\ \A i \in 1..Len(sent) : (sent \o evs)[i] = sent[i]
  BY <1>2, Joined
<1>4. \A i \in 1..taken : i \in 1..Len(sent) /\ sent'[i] = sent[i]
  BY <1>1, <1>2, <1>3 DEF Sends
<1>5. \A i \in 1..Len(sent) : i \in 1..Len(sent \o evs)
  BY <1>3
<1>6. driver = "done" => taken \in 1..taken /\ taken \in 1..Len(sent')
  BY <1>1, <1>2, <1>5 DEF Sends, ToldInv, Heeded
<1> QED  BY <1>4, <1>6 DEF ToldInv, Heeded, driverVars

LEMMA ToldInvariance == Spec => []ToldInv
<1>1. Init => TextInv /\ CallInv /\ ReadInv /\ Heeded
  BY FreshTold, NoEvents, QuietOnes DEF Init, Heeded, ReadInv
<1>2. ToldInv /\ [Next]_vars => TextInv' /\ CallInv' /\ ReadInv' /\ Heeded'
  <2> SUFFICES ASSUME ToldInv, [Next]_vars PROVE TextInv' /\ CallInv' /\ ReadInv' /\ Heeded'
    OBVIOUS
  <2>0. TextInv /\ CallInv /\ ReadInv /\ Heeded /\ TurnInv
    BY DEF ToldInv, ChatInv
  <2>1. CASE TaskNext /\ UNCHANGED driverVars
    BY <2>0, <2>1, TaskTold, TaskRead, TaskHeeded
  <2>2. CASE \/ \E r \in Requests : Prompt(r[1], r[2], r[3])
             \/ \E k \in Kinds : Passthrough(k)
    BY <2>2, BeginTold, BeginRead
  <2>3. CASE Take
    <3>1. UNCHANGED taskVars
      BY <2>3 DEF Take, TakeTool, TakeText, TakeFile, TakeStructured, TakeDone, TakeError,
                  StreamCloses, Receives
    <3>2. ReadInv'
      BY <2>0, <3>1, StillRead DEF taskVars
    <3> QED  BY <2>3, <3>2, TakeTold
  <2>4. CASE SendHangs \/ SendReturns
    <3>1. UNCHANGED <<kind, schema, task, rd, log, unread, sent, taken>>
          /\ driver \in {"driving", "stuck"} /\ driver' \in {"driving", "stuck"}
      BY <2>4 DEF SendHangs, SendReturns, taskVars
    <3> QED  BY <2>0, <3>1, StillTold, StillRead DEF Heeded
  <2>5. CASE EndTurn
    <3>1. UNCHANGED <<kind, schema, task, rd, log, unread, sent>> /\ driver' = "idle"
      BY <2>5 DEF EndTurn
    <3> QED  BY <2>0, <3>1, StillTold, StillRead DEF Heeded
  <2>6. CASE UNCHANGED vars
    BY <2>0, <2>6, StillTold, StillRead DEF Heeded, vars, taskVars, driverVars
  <2> QED  BY <2>1, <2>2, <2>3, <2>4, <2>5, <2>6 DEF Next
<1>3. TextInv /\ CallInv /\ ReadInv /\ Heeded /\ ChatInv => ToldInv
  BY DEF ToldInv
<1> QED  BY <1>1, <1>2, <1>3, ChatInvariance, PTL DEF Spec

LEMMA AllTold == ToldInv => TurnTold
<1> SUFFICES ASSUME ToldInv, driver = "done" PROVE TextsTold /\ CallsTold /\ AllRead
  BY DEF TurnTold
<1>1. Types /\ task \in Ended /\ LastDone(sent) /\ NothingSkipped
  BY AllHeard DEF ToldInv, ChatInv, TurnInv, Hears, Ends
<1>2. taken = Len(sent) /\ ~Fails(sent)
  BY <1>1 DEF ToldInv, Heeded, LastDone, Fails
<1>3. Left = {}
  BY <1>1 DEF Left, Ended
<1>4. log \in Seq(AnyLine) /\ sent \in Seq(Events) /\ DOMAIN log = 1..Len(log)
  BY <1>1, LeftIs
<1>5. ASSUME NEW n \in DOMAIN log, IsText(log[n])
      PROVE  \/ Carried(n)
             \/ Structured /\ (\A k \in DOMAIN log : log[k].type # "turn.completed")
  <2>1. Out(sent, n) \/ Held(n)
    BY <1>4, <1>5 DEF ToldInv, TextInv, TextsKept
  <2>2. CASE Held(n)
    BY <1>1, <1>4, <2>2 DEF Held, Ended, Completed
  <2>3. CASE Out(sent, n)
    <3>1. PICK i \in 1..taken :
            sent[i].type \in {"Text", "Structured"} /\ n \in ToSet(sent[i].lines)
      BY <1>2, <2>3 DEF Out, Speaks
    <3>2. IsSaid(i)
      BY <1>1, <3>1 DEF NothingSkipped, ToolEvents
    <3> QED  BY <3>1, <3>2 DEF Carried
  <2> QED  BY <2>1, <2>2, <2>3
<1>6. ASSUME kind \in {"codex", "gemini"}, NEW id \in ToolIds
      PROVE  /\ Cardinality(CallEvents(id)) <= Cardinality(Starts(id))
             /\ Cardinality(UNION {Starts(i) : i \in ToolIds}) <= Cap /\ Cardinality(Starts(id)) = 1
                  => Cardinality(CallEvents(id)) = 1
  <2>1. Matched(log, sent, {})
    BY <1>3, <1>6 DEF ToldInv, CallInv
  <2>2. CallEvents(id) = CallsIn(sent, log, id)
    BY <1>2 DEF CallEvents, CallsIn, Carries, ToolEvents
  <2>3. Starts(id) = StartsIn(log, id)
    BY <1>4 DEF Starts, StartsIn, StartTypes
  <2>4. UNION {Starts(i) : i \in ToolIds} = AllStarts(log)
    BY <1>4 DEF Starts, AllStarts, StartTypes
  <2>5. /\ IsFiniteSet(CallsIn(sent, log, id)) /\ Cardinality(CallsIn(sent, log, id)) \in Nat
        /\ Cardinality(StartsIn(log, id)) \in Nat
    BY <1>4, CountsAre
  <2>6. One({}, id) = 0
    BY DEF One
  <2>7. Cardinality(CallsIn(sent, log, id)) <= Cardinality(StartsIn(log, id))
    BY <2>1, <2>5, <2>6 DEF Matched
  <2>8. ASSUME Cardinality(AllStarts(log)) <= Cap, Cardinality(StartsIn(log, id)) = 1
        PROVE  Cardinality(CallsIn(sent, log, id)) = 1
    <3>1. CallsIn(sent, log, id) # {}
      BY <1>2, <2>1, <2>6, <2>8 DEF Matched
    <3>2. Cardinality(CallsIn(sent, log, id)) # 0
      BY <2>5, <3>1, FS_EmptySet
    <3> QED  BY <2>5, <2>7, <2>8, <3>2
  <2> QED  BY <2>2, <2>3, <2>4, <2>7, <2>8
<1>7. unread => LastEnds
  BY <1>1, <1>2 DEF ToldInv, ReadInv, Excused, Ended
<1> QED  BY <1>5, <1>6, <1>7 DEF TextsTold, CallsTold, AllRead, LastEnds

(* A turn that ended without an error has told its answer: every text that *)
(* was read, and every call no more often than it started, surely once if  *)
(* it has its id for itself and the calls fit the buffer - through the     *)
(* buffers and the pairing of the back ends (codex.rs, gemini.rs,          *)
(* opencode.rs, claude.rs), their flush and drive_harness, for every set   *)
(* of calls and every size of a buffer.  Unread is only what a subprocess  *)
(* printed behind the line that ended the loop; opencode's first finished  *)
(* step is such a line, and the text of the next step is not told.         *)
THEOREM AnswerIsTold == Spec => []TurnTold
  BY AllTold, ToldInvariance, PTL

------------------------------------------------------------------------------
(* The terminal sessions (Sessions), the other work of the main loop.      *)

(* What is dead has no lines; what is not disturbed shows all of its, has  *)
(* told some of them, and its anchor is among them.                        *)
Pane(n) ==
  /\ bottom[n] <= printed
  /\ n \notin alive => bottom[n] = 0 /\ told[n] = {}
  /\ n \in disturbed => told[n] = {}
  /\ n \notin disturbed =>
       /\ top[n] = 0 /\ \A k \in told[n] : k <= bottom[n]
       /\ n \in sessions \cap alive => anchor[n] <= bottom[n]

Panes == \A n \in Names : Pane(n)

(* A process that is down tracks nothing.                                  *)
Stopped == run = "down" => sessions = {}

TermInv ==
  /\ SessionsTypeOK /\ OneForeground /\ BuffersFollow /\ ToldOnce
  /\ Panes /\ Stopped

LEMMA TerminalLimits ==
  MaxSessions \in Nat /\ MaxSuffix \in Nat /\ MaxPrinted \in Nat
  BY BoundsAssumption

(* The types again, without the sets of functions.                         *)
LEMMA TermTyped ==
  ASSUME SessionsTypeOK, NEW n \in Names
  PROVE  /\ top[n] \in Nat /\ bottom[n] \in Nat /\ printed \in Nat
         /\ anchor[n] \in Nat /\ top[n] <= bottom[n] /\ Lines(n) \in 0..MaxPrinted
         /\ \A k \in told[n] : k \in Nat
  BY TerminalLimits DEF SessionsTypeOK, Numbers, Lines

LEMMA TermInit ==
  ASSUME SessionsInit
  PROVE  TermInv
  BY TerminalLimits
     DEF SessionsInit, TermInv, SessionsTypeOK, OneForeground,
         BuffersFollow, ToldOnce, Panes, Pane, Stopped, Numbers

(* A line more is not told yet.                                            *)
LEMMA PrintsStep ==
  ASSUME TermInv, NEW n \in Names, Prints(n)
  PROVE  TermInv'
  <1>1. SessionsTypeOK'
    <2>1. /\ bottom[n] \in Nat /\ printed \in Nat /\ bottom[n] <= printed
          /\ printed + 1 <= MaxPrinted /\ printed' = printed + 1
      <3>1. bottom[n] \in Nat /\ printed \in Nat
        BY TermTyped DEF TermInv
      <3>2. bottom[n] <= printed
        BY DEF TermInv, Panes, Pane
      <3>3. printed < MaxPrinted /\ printed' = printed + 1
        BY DEF Prints
      <3> QED  BY <3>1, <3>2, <3>3, TerminalLimits
    <2>2. PICK b \in 1..MaxPrinted : b = bottom[n] + 1 /\ bottom' = [bottom EXCEPT ![n] = b]
      <3>1. bottom' = [bottom EXCEPT ![n] = bottom[n] + 1]
        BY DEF Prints
      <3>2. bottom[n] + 1 \in 1..MaxPrinted
        BY <2>1, TerminalLimits
      <3> QED  BY <3>1, <3>2
    <2>3. bottom' \in [Names -> 0..MaxPrinted] /\ printed' \in 0..MaxPrinted
      BY <2>1, <2>2, TerminalLimits DEF TermInv, SessionsTypeOK
    <2>4. bottom'[n] = b
      BY <2>2 DEF TermInv, SessionsTypeOK
    <2>5. \/ output' = [output EXCEPT ![n] = @ \cup {b}]
          \/ output' = output
      BY <2>4 DEF Prints
    <2>6. output' \in [Names -> SUBSET Numbers]
      BY <2>5 DEF TermInv, SessionsTypeOK, Numbers
    <2>7. ASSUME NEW m \in Names
          PROVE  top'[m] <= bottom'[m] /\ output'[m] \subseteq 1..bottom'[m]
      <3>1. /\ top[m] \in Nat /\ bottom[m] \in Nat /\ top[m] <= bottom[m]
            /\ output[m] \subseteq 1..bottom[m] /\ top' = top
        BY TermTyped DEF TermInv, Prints, SessionsTypeOK
      <3>2. CASE m = n
        <4>1. output'[m] \subseteq output[m] \cup {b} /\ bottom'[m] = b
          BY <2>4, <2>5, <3>2 DEF TermInv, SessionsTypeOK
        <4> QED  BY <2>2, <3>1, <3>2, <4>1
      <3>3. CASE m # n
        BY <2>2, <2>5, <3>1, <3>3 DEF TermInv, SessionsTypeOK
      <3> QED  BY <3>2, <3>3
    <2>8. UNCHANGED <<run, alive, sessions, buffers, disturbed, top, status, foreground, anchor,
                      from, waiting, told, repeated>>
      BY DEF Prints, mgrVars, bufVars, tellVars
    <2> QED  BY <2>3, <2>6, <2>7, <2>8 DEF TermInv, SessionsTypeOK
  <1>2. OneForeground' /\ BuffersFollow'
    BY DEF TermInv, Prints, OneForeground, BuffersFollow, mgrVars,
           bufVars
  <1>3. ToldOnce'
    BY DEF TermInv, Prints, ToldOnce, mgrVars, bufVars, tellVars
  <1>4. Panes'
    BY TermTyped DEF TermInv, Prints, Panes, Pane, mgrVars, bufVars,
                     tellVars
  <1>5. Stopped'
    BY DEF TermInv, Prints, Stopped, mgrVars
  <1> QED
    BY <1>1, <1>2, <1>3, <1>4, <1>5 DEF TermInv

(* The session is disturbed from now on.                                   *)
LEMMA ScrollsStep ==
  ASSUME TermInv, NEW n \in Names, Scrolls(n)
  PROVE  TermInv'
  <1>1. SessionsTypeOK'
    BY TerminalLimits DEF TermInv, Scrolls, Disturb, SessionsTypeOK, mgrVars
  <1>2. OneForeground' /\ BuffersFollow'
    BY DEF TermInv, Scrolls, OneForeground, BuffersFollow, mgrVars
  <1>3. ToldOnce'
    BY DEF TermInv, Scrolls, Disturb, SessionsTypeOK, ToldOnce, mgrVars
  <1>4. Panes'
    BY DEF TermInv, Scrolls, Disturb, Panes, Pane, mgrVars
  <1>5. Stopped'
    BY DEF TermInv, Scrolls, Stopped, mgrVars
  <1> QED
    BY <1>1, <1>2, <1>3, <1>4, <1>5 DEF TermInv

(* All of the pane is gone, and what was told of it.                       *)
LEMMA ExitsStep ==
  ASSUME TermInv, NEW n \in Names, Exits(n)
  PROVE  TermInv'
  <1>1. SessionsTypeOK'
    BY TerminalLimits DEF TermInv, Exits, Blank, SessionsTypeOK, mgrVars
  <1>2. OneForeground' /\ BuffersFollow'
    BY DEF TermInv, Exits, OneForeground, BuffersFollow, mgrVars
  <1>3. ToldOnce'
    BY DEF TermInv, Exits, Blank, ToldOnce, Panes, Pane, mgrVars
  <1>4. Panes'
    BY DEF TermInv, Exits, Blank, SessionsTypeOK, Panes, Pane, mgrVars
  <1>5. Stopped'
    BY DEF TermInv, Exits, Stopped, mgrVars
  <1> QED
    BY <1>1, <1>2, <1>3, <1>4, <1>5 DEF TermInv

(* A captured session starts behind all of its lines.                      *)
LEMMA StartStep ==
  ASSUME TermInv, ReconcileStartup
  PROVE  TermInv'
  <1>1. SessionsTypeOK'
    BY TermTyped DEF TermInv, BuffersFollow, Stopped, ReconcileStartup, Capture,
                     Disturb, SessionsTypeOK, tmuxVars
  <1>2. OneForeground' /\ BuffersFollow'
    BY DEF TermInv, ReconcileStartup, SessionsTypeOK, OneForeground, BuffersFollow
  <1>3. ToldOnce'
    BY DEF TermInv, ReconcileStartup, Capture, Disturb, SessionsTypeOK, ToldOnce,
           Panes, Pane, Lines, tmuxVars
  <1>4. Panes'
    BY TermTyped DEF TermInv, ReconcileStartup, Capture, Disturb, Panes, Pane,
                     Lines, tmuxVars
  <1>5. Stopped'
    BY DEF ReconcileStartup, Stopped
  <1> QED
    BY <1>1, <1>2, <1>3, <1>4, <1>5 DEF TermInv

LEMMA StopStep ==
  ASSUME TermInv, Stop
  PROVE  TermInv'
  <1>1. SessionsTypeOK'
    BY TerminalLimits DEF TermInv, Stop, SessionsTypeOK, tmuxVars, tellVars
  <1>2. OneForeground' /\ BuffersFollow'
    BY DEF Stop, OneForeground, BuffersFollow
  <1>3. ToldOnce'
    BY DEF TermInv, Stop, ToldOnce, tellVars
  <1>4. Panes'
    BY DEF TermInv, Stop, Panes, Pane, tmuxVars, tellVars
  <1>5. Stopped'
    BY DEF Stop, Stopped
  <1> QED
    BY <1>1, <1>2, <1>3, <1>4, <1>5 DEF TermInv

(* The name had no anchor and no lines.                                    *)
LEMMA NewSessionStep ==
  ASSUME TermInv, NEW n \in Names, NewSession(n)
  PROVE  TermInv'
  <1>1. SessionsTypeOK'
    BY DEF TermInv, NewSession, InForeground, SessionsTypeOK, tellVars
  <1>2. OneForeground' /\ BuffersFollow'
    BY DEF TermInv, NewSession, InForeground, SessionsTypeOK, OneForeground,
           BuffersFollow
  <1>3. ToldOnce'
    BY DEF TermInv, NewSession, ToldOnce, Panes, Pane, tellVars
  <1>4. Panes'
    BY DEF TermInv, BuffersFollow, NewSession, SessionsTypeOK, Panes, Pane, tellVars
  <1>5. Stopped'
    BY DEF NewSession, Stopped
  <1> QED
    BY <1>1, <1>2, <1>3, <1>4, <1>5 DEF TermInv

LEMMA FgStep ==
  ASSUME TermInv, NEW n \in Names, Fg(n)
  PROVE  TermInv'
  <1>1. SessionsTypeOK'
    BY DEF TermInv, Fg, InForeground, SessionsTypeOK, tmuxVars, bufVars,
           tellVars
  <1>2. OneForeground' /\ BuffersFollow'
    BY DEF TermInv, Fg, InForeground, SessionsTypeOK, OneForeground,
           BuffersFollow, bufVars
  <1>3. ToldOnce'
    BY DEF TermInv, Fg, ToldOnce, tmuxVars, bufVars, tellVars
  <1>4. Panes'
    BY DEF TermInv, Fg, Panes, Pane, tmuxVars, bufVars, tellVars
  <1>5. Stopped'
    BY DEF Fg, Stopped
  <1> QED
    BY <1>1, <1>2, <1>3, <1>4, <1>5 DEF TermInv

LEMMA BgStep ==
  ASSUME TermInv, Bg
  PROVE  TermInv'
  <1>1. SessionsTypeOK'
    BY DEF TermInv, Bg, SessionsTypeOK, tmuxVars, bufVars, tellVars
  <1>2. OneForeground' /\ BuffersFollow'
    BY NamesAssumption, BoundsAssumption DEF TermInv, Bg, SessionsTypeOK, OneForeground,
           BuffersFollow, bufVars
  <1>3. ToldOnce'
    BY DEF TermInv, Bg, ToldOnce, tmuxVars, bufVars, tellVars
  <1>4. Panes'
    BY DEF TermInv, Bg, Panes, Pane, tmuxVars, bufVars, tellVars
  <1>5. Stopped'
    BY DEF Bg, Stopped
  <1> QED
    BY <1>1, <1>2, <1>3, <1>4, <1>5 DEF TermInv

(* The parts of TypeOK that Untrack disturbs.                              *)
LEMMA UntrackTypes ==
  ASSUME SessionsTypeOK, NEW D \in SUBSET Names, Untrack(D)
  PROVE  /\ sessions' \subseteq Names /\ buffers' \subseteq Names
         /\ status' \in [Names -> {"fg", "bg"}] /\ foreground' \in Names \cup {NoName}
         /\ anchor' \in [Names -> 0..MaxPrinted] /\ from' \in [Names -> 0..MaxPrinted]
         /\ waiting' \in [Names -> BOOLEAN]
         /\ \A n \in Names \ buffers' : anchor'[n] = 0 /\ ~ waiting'[n]
         /\ run' = run
  <1>1. \A n \in Names \ buffers' : anchor'[n] = 0 /\ ~ waiting'[n]
    BY DEF Untrack, SessionsTypeOK
  <1> QED
    BY <1>1, TerminalLimits DEF Untrack, SessionsTypeOK

(* The name keeps no anchor.                                               *)
LEMMA KillStep ==
  ASSUME TermInv, NEW n \in Names, KillSession(n)
  PROVE  TermInv'
  <1>1. SessionsTypeOK'
    <2>1. CASE UNCHANGED <<tmuxVars, tellVars, disturbed>>
      BY <2>1, UntrackTypes DEF TermInv, KillSession, SessionsTypeOK, tmuxVars, tellVars
    <2>2. CASE alive' = alive \ {n} /\ Blank(n)
      BY <2>2, UntrackTypes, TerminalLimits DEF TermInv, KillSession, Blank, SessionsTypeOK
    <2> QED
      BY <2>1, <2>2 DEF KillSession
  <1>2. OneForeground' /\ BuffersFollow'
    BY NamesAssumption, BoundsAssumption DEF TermInv, KillSession, Untrack, SessionsTypeOK,
           OneForeground, BuffersFollow
  <1>3. ToldOnce'
    BY DEF TermInv, KillSession, Blank, Untrack, SessionsTypeOK, ToldOnce,
           tmuxVars, tellVars
  <1>4. Panes'
    BY DEF TermInv, KillSession, Blank, Untrack, SessionsTypeOK, Panes, Pane,
           tmuxVars, tellVars
  <1>5. Stopped'
    BY DEF KillSession, Untrack, Stopped
  <1> QED
    BY <1>1, <1>2, <1>3, <1>4, <1>5 DEF TermInv

LEMMA HealthCheckStep ==
  ASSUME TermInv, NEW D \in SUBSET Names, HealthCheck(D)
  PROVE  TermInv'
  <1>1. SessionsTypeOK'
    BY UntrackTypes DEF TermInv, HealthCheck, SessionsTypeOK, tmuxVars, tellVars
  <1>2. OneForeground' /\ BuffersFollow'
    BY NamesAssumption, BoundsAssumption DEF TermInv, HealthCheck, Untrack, SessionsTypeOK,
           OneForeground, BuffersFollow
  <1>3. ToldOnce'
    BY DEF TermInv, HealthCheck, Untrack, SessionsTypeOK, ToldOnce,
           tmuxVars, tellVars
  <1>4. Panes'
    BY DEF TermInv, HealthCheck, Untrack, Panes, Pane, tmuxVars, tellVars
  <1>5. Stopped'
    BY DEF HealthCheck, Untrack, Stopped
  <1> QED
    BY <1>1, <1>2, <1>3, <1>4, <1>5 DEF TermInv

(* The anchor moves to the end.                                            *)
LEMMA InputStep ==
  ASSUME TermInv, Input
  PROVE  TermInv'
  <1>1. SessionsTypeOK'
    BY TermTyped DEF TermInv, Input, Capture, SessionsTypeOK, tmuxVars,
                     mgrVars, tellVars
  <1>2. OneForeground' /\ BuffersFollow'
    BY DEF TermInv, Input, OneForeground, BuffersFollow, mgrVars
  <1>3. ToldOnce'
    BY DEF TermInv, Input, Capture, SessionsTypeOK, ToldOnce, Panes, Pane,
           Lines, tmuxVars, mgrVars,
           tellVars
  <1>4. Panes'
    BY TermTyped DEF TermInv, Input, Capture, Panes, Pane, Lines,
                     tmuxVars, mgrVars, tellVars
  <1>5. Stopped'
    BY DEF Input, Stopped
  <1> QED
    BY <1>1, <1>2, <1>3, <1>4, <1>5 DEF TermInv

(* What is told lies between the anchor and the end.                       *)
LEMMA PollStep ==
  ASSUME TermInv, NEW n \in Names, Poll(n)
  PROVE  TermInv'
  <1>1. SessionsTypeOK'
    BY TermTyped DEF TermInv, Poll, Tell, SessionsTypeOK, tmuxVars, mgrVars
  <1>2. OneForeground' /\ BuffersFollow'
    BY DEF TermInv, Poll, OneForeground, BuffersFollow, mgrVars
  <1>3. ToldOnce'
    <2>1. told[n] \cap Suffix(n) = {}
      <3>1. CASE n \in disturbed
        BY <3>1 DEF TermInv, Panes, Pane
      <3>2. CASE n \notin disturbed
        <4>1. Effective(n) = anchor[n]
          BY <3>2, TermTyped DEF TermInv, Poll, Effective, BuffersFollow,
                                 Panes, Pane, Lines
        <4> QED
          BY <3>2, <4>1, TermTyped DEF TermInv, Poll, BuffersFollow,
                                       ToldOnce, Suffix
      <3> QED
        BY <3>1, <3>2
    <2>2. /\ repeated' = repeated /\ disturbed' = disturbed
          /\ sessions' = sessions /\ top' = top
      BY <2>1, Zenon DEF Poll, Tell, tmuxVars, mgrVars
    <2>3. ASSUME NEW m \in sessions \ disturbed, NEW k \in told'[m]
          PROVE  k <= top[m] + anchor'[m]
      <3> m \in Names
        BY DEF TermInv, SessionsTypeOK
      <3>1. CASE m = n
        <4>1. k \in told[n] \/ k \in Suffix(n)
          BY <3>1 DEF Poll, Tell
        <4>2. anchor'[n] = bottom[n] - top[n]
          BY DEF TermInv, Poll, SessionsTypeOK, Lines
        <4>3. k \in Nat /\ k <= bottom[n]
          BY <4>1, TermTyped DEF TermInv, Panes, Pane, Suffix, Numbers
        <4> QED
          BY <3>1, <4>2, <4>3, TermTyped DEF TermInv
      <3>2. CASE m # n
        BY <3>2 DEF TermInv, Poll, Tell, ToldOnce
      <3> QED
        BY <3>1, <3>2
    <2> QED
      BY <2>2, <2>3 DEF TermInv, ToldOnce
  <1>4. Panes'
    BY DEF TermInv, Poll, Tell, SessionsTypeOK, Panes, Pane, Lines,
           tmuxVars, mgrVars
  <1>5. Stopped'
    BY DEF Poll, Stopped
  <1> QED
    BY <1>1, <1>2, <1>3, <1>4, <1>5 DEF TermInv

(* The inductive invariant.                                                *)
LEMMA TermInvariance ==
  SessionsSpec => []TermInv
  <1>1. ASSUME TermInv, [SessionsNext]_sessionVars
        PROVE  TermInv'
    <2>1. CASE UNCHANGED sessionVars
      BY <1>1, <2>1
         DEF TermInv, sessionVars, tmuxVars, mgrVars, bufVars, tellVars,
             SessionsTypeOK, OneForeground, BuffersFollow, ToldOnce, Panes, Pane,
             Stopped, Lines, Numbers
    <2>2. CASE SessionsNext
      BY <1>1, <2>2, PrintsStep, ScrollsStep, ExitsStep, NewSessionStep, FgStep, KillStep,
         PollStep, HealthCheckStep, StartStep, StopStep, BgStep, InputStep
         DEF SessionsNext, Tmux, SessionCommand
    <2> QED
      BY <1>1, <2>1, <2>2
  <1> QED
    BY TermInit, <1>1, PTL DEF SessionsSpec

(* Every variable keeps its type, and what is not tracked has no buffer    *)
(* with a past.                                                            *)
THEOREM TerminalTypes ==
  SessionsSpec => []SessionsTypeOK
  BY TermInvariance, PTL DEF TermInv

(* No sequence of commands, deaths, starts and stops leaves two sessions   *)
(* in the foreground, or one that is not tracked.                          *)
THEOREM ForegroundIsOne ==
  SessionsSpec => []OneForeground
  BY TermInvariance, PTL DEF TermInv

(* App.buffers and SessionManager.sessions, kept in two places, have the   *)
(* same keys whenever the main loop is back in its select.                 *)
THEOREM BuffersAreSessions ==
  SessionsSpec => []BuffersFollow
  BY TermInvariance, PTL DEF TermInv

(* The anchor is never before a line that was told, whatever moved it, so  *)
(* no poll says a line again.                                              *)
THEOREM NoLineTwice ==
  SessionsSpec => []ToldOnce
  BY TermInvariance, PTL DEF TermInv

------------------------------------------------------------------------------
(* What a command can have for a name.                                     *)
NameOrNone == ValidNames \union {""}
NamesValid(o) == o.name \in NameOrNone /\ o.resume \in NameOrNone

LEMMA LastIsOne ==
  ASSUME NEW S, NEW ft, \A i \in S : Value(ft, i) \in ValidNames
  PROVE  LastOr(S, ft) \in NameOrNone
<1>1. CASE \E i \in S : IsLast(i, S)
  <2>1. (CHOOSE i \in S : IsLast(i, S)) \in S
    BY <1>1
  <2> QED  BY <1>1, <2>1 DEF LastOr, NameOrNone
<1>2. CASE ~ \E i \in S : IsLast(i, S)
  BY <1>2 DEF LastOr, NameOrNone
<1> QED  BY <1>1, <1>2

LEMMA LongFlags ==
  /\ Long("--continue") = "--continue" /\ Long("--resume") = "--resume"
  /\ \A w : Long(w) = "--name" => w # "--continue"
  BY DEF Long, ShortFlags

LEMMA BareIsContinue ==
  ASSUME NEW ft, NEW i, ft[i].w # "--continue"
  PROVE  ~BareContinue(ft, i)
<1>1. ft[i] # Word("--continue")
  BY DEF Word
<1> QED  BY <1>1 DEF BareContinue

(* A flag for names that was accepted has a valid one.                     *)
LEMMA AcceptedName ==
  ASSUME NEW ft, NEW i, NEW k, Accepted(ft, i, k), Long(ft[i].w) \in NameFlags,
         ~BareContinue(ft, i)
  PROVE  Value(ft, i) \in ValidNames
<1>1. Long(ft[i].w) \notin BooleanFlags
  BY DEF NameFlags, BooleanFlags
<1>2. Legal(Long(ft[i].w), Value(ft, i))
  BY <1>1 DEF Accepted
<1> QED  BY <1>2 DEF Legal, ValidName

LEMMA SplitNames ==
  ASSUME NEW toks, NEW k
  PROVE  NamesValid(Split(toks, k).options)
<1> DEFINE ft == SubSeq(toks, 1, FlagEnd(toks))
           at == FlagPositions(ft)
           bare == {i \in at : BareContinue(ft, i)}
           names == {i \in at : Long(ft[i].w) = "--name"}
           resumes == {i \in at \ bare : ft[i].w \in {"--resume", "--continue"}}
<1>0. NamesValid(NoOptions)
  BY DEF NamesValid, NoOptions, NameOrNone
<1>1. CASE \A i \in at : Accepted(ft, i, k)
  <2>1. LastOr(names, ft) \in NameOrNone
    <3>1. ASSUME NEW i \in names
          PROVE  Value(ft, i) \in ValidNames
      <4>1. ft[i].w # "--continue"
        BY <3>1, LongFlags
      <4>2. ~BareContinue(ft, i)
        BY <4>1, BareIsContinue
      <4>3. Accepted(ft, i, k) /\ Long(ft[i].w) \in NameFlags
        BY <1>1, <3>1 DEF NameFlags
      <4> QED  BY <4>2, <4>3, AcceptedName
    <3> QED  BY <3>1, LastIsOne
  <2>2. LastOr(resumes, ft) \in NameOrNone
    <3>1. ASSUME NEW i \in resumes
          PROVE  Value(ft, i) \in ValidNames
      <4>1. Accepted(ft, i, k) /\ ~BareContinue(ft, i)
        BY <1>1, <3>1
      <4>2. Long(ft[i].w) \in NameFlags
        BY <3>1, LongFlags DEF NameFlags
      <4> QED  BY <4>1, <4>2, AcceptedName
    <3> QED  BY <3>1, LastIsOne
  <2>3. OptionsOf(ft).name = LastOr(names, ft) /\ OptionsOf(ft).resume = LastOr(resumes, ft)
    BY DEF OptionsOf
  <2> HIDE DEF ft, at, bare, names, resumes
  <2>4. NamesValid(OptionsOf(ft))
    BY <2>1, <2>2, <2>3 DEF NamesValid
  <2>5. Split(toks, k).options = OptionsOf(ft) \/ Split(toks, k).options = NoOptions
    BY DEF Split, Failed, ft
  <2> QED  BY <1>0, <2>4, <2>5
<1>2. CASE ~ \A i \in at : Accepted(ft, i, k)
  <2>1. Split(toks, k).options = NoOptions
    BY <1>2 DEF Split, Failed
  <2> QED  BY <1>0, <2>1
<1> QED  BY <1>1, <1>2

LEMMA ParseNames ==
  ASSUME NEW m
  PROVE  NamesValid(Parse(m).options)
<1>1. NamesValid(NoOptions)
  BY DEF NamesValid, NoOptions, NameOrNone
<1>2. NamesValid(Error.options) /\ \A c : NamesValid(Plain(c).options)
  BY <1>1 DEF Error, Plain, Command
<1>3. \A c, args : NamesValid(Named(c, args).options)
  BY <1>1, <1>2 DEF Named, Command
<1>4. \A k, args : NamesValid(HarnessPrompt(k, args).options)
  BY <1>2, SplitNames DEF HarnessPrompt, Command
<1>5. \A k, args : NamesValid(HarnessOn(k, args).options)
  BY <1>1, <1>2, SplitNames DEF HarnessOn, Command
<1>6. ASSUME NEW k, NEW args
      PROVE  NamesValid(Harness(k, args).options)
  <2>1. NamesValid(Command("off", k, "", NoOptions, <<>>).options)
    BY <1>1 DEF Command
  <2>2. NamesValid(Command("subcommand", k, "", NoOptions, <<>>).options)
    BY <1>1 DEF Command
  <2>3. \/ Harness(k, args) = HarnessOn(k, Tail(args))
        \/ Harness(k, args) = Command("off", k, "", NoOptions, <<>>)
        \/ Harness(k, args) = Command("subcommand", k, "", NoOptions, <<>>)
        \/ Harness(k, args) = Error \/ Harness(k, args) = HarnessPrompt(k, args)
    BY Zenon DEF Harness
  <2> QED  BY <1>2, <1>4, <1>5, <2>1, <2>2, <2>3
<1>7. NamesValid(Shell(m).options)
  BY <1>2 DEF Shell
<1>8. NamesValid(Command("stdin", "", "", NoOptions, m.words).options)
  BY <1>1 DEF Command
<1> QED  BY <1>2, <1>3, <1>6, <1>7, <1>8 DEF Parse

------------------------------------------------------------------------------
(* The conversations, and whose they are.  Every entry of the index has a  *)
(* conversation that was begun where the entry says, by the harness in its *)
(* key; that of a terminal was begun by its harness and here.              *)
Keys == STRING \union {SessionKey(k, n) : k \in Registered, n \in ValidNames}
Convs == [kind : HarnessKinds, cwd : Dirs]
AnyEntry == [key : Keys, sid : Nat, cwd : Dirs]
NamedUses == [kind : Registered, name : ValidNames, sid : Nat \ {0}]

Begun(cs, c, dir) == c \in 1..Len(cs) /\ cs[c].cwd = dir
Owns(cs, k, c) == c \in 1..Len(OldConvs) \/ cs[c].kind = k
Rightly(cs, k, c, dir) == c # 0 => Begun(cs, c, dir) /\ Owns(cs, k, c)

EntryTrue(cs, e) ==
  e.sid # 0 =>
    /\ Begun(cs, e.sid, e.cwd)
    /\ e.key \in ValidNames => e.sid \in 1..Len(OldConvs)
    /\ \A k \in Registered, n \in ValidNames : e.key = SessionKey(k, n) => Owns(cs, k, e.sid)

IndexTrue == \A i \in 1..Len(index) : EntryTrue(convs, index[i])

StoreTrue ==
  \A k \in Registered : \A t \in DOMAIN store[k] :
    Begun(convs, store[k][t], cwd) /\ convs[store[k][t]].kind = k

ModesValid == \A t \in Terminals : NamesValid(mode[t].options)

(* The sessions used last are the end of the index.                        *)
Matching(e, u) == e.key = SessionKey(u.kind, u.name) /\ e.sid = u.sid

EndsWith(s, r) ==
  Len(r) <= Len(s) /\ \A i \in 1..Len(r) : Matching(s[Len(s) - Len(r) + i], r[i])

Unique(list) == \A i, j \in 1..Len(list) : list[i].key = list[j].key => i = j

IndexTypes ==
  /\ convs \in Seq(Convs) /\ Len(OldConvs) <= Len(convs)
  /\ index \in Seq(AnyEntry) /\ recent \in Seq(NamedUses) /\ cwd \in Dirs

HarnessInv ==
  /\ IndexTypes /\ DOMAIN store = Registered
  /\ IndexTrue /\ StoreTrue /\ Unique(index) /\ OwnConversation
  /\ EndsWith(index, recent) /\ Len(recent) <= MaxNamed

(* The state file has an index as good as that.                            *)
SavedTrue ==
  /\ saved \in Seq(AnyEntry) /\ recentSaved \in Seq(NamedUses)
  /\ (\A i \in 1..Len(saved) : EntryTrue(convs, saved[i])) /\ Unique(saved)
  /\ EndsWith(saved, recentSaved) /\ Len(recentSaved) <= MaxNamed

RouteInv == HarnessInv /\ ModesValid /\ SavedTrue

(* The back ends begin conversations, and lose none.                       *)
Grows ==
  /\ convs' \in Seq(Convs) /\ Len(convs) <= Len(convs')
  /\ \A c \in 1..Len(convs) : convs'[c] = convs[c]

------------------------------------------------------------------------------
(* A list without one of its elements, or without any.                     *)
Omits(b, s, p) ==
  /\ p \in 1..Len(s) /\ Len(b) = Len(s) - 1
  /\ \A j \in 1..(Len(s) - 1) : b[j] = s[IF j < p THEN j ELSE j + 1]

LEMMA SkippingIs ==
  ASSUME NEW T, NEW s \in Seq(T), NEW used \in SUBSET (1..Len(s))
  PROVE  /\ Skipping(s, used) \in Seq(T)
         /\ \/ used = {} /\ Skipping(s, used) = s
            \/ \E p \in used : Omits(Skipping(s, used), s, p)
<1>1. CASE used = {}
  BY <1>1 DEF Skipping
<1>2. CASE used # {}
  <2>1. PICK p \in used : p = CHOOSE i \in used : TRUE
    BY <1>2
  <2>2. Skipping(s, used) = RemoveAt(s, p)
    BY <1>2, <2>1 DEF Skipping
  <2> DEFINE a == SubSeq(s, 1, p - 1)  b == SubSeq(s, p + 1, Len(s))
  <2>3. p \in 1..Len(s)
    OBVIOUS
  <2>4. a \in Seq(T) /\ Len(a) = p - 1 /\ \A j \in 1..(p - 1) : a[j] = s[j]
    BY <2>3
  <2>5. b \in Seq(T) /\ Len(b) = Len(s) - p /\ \A j \in 1..(Len(s) - p) : b[j] = s[p + j]
    BY <2>3
  <2>6. RemoveAt(s, p) = a \o b
    BY DEF RemoveAt
  <2> HIDE DEF a, b
  <2>7. a \o b \in Seq(T) /\ Len(a \o b) = Len(s) - 1
    BY <2>3, <2>4, <2>5
  <2>8. ASSUME NEW j \in 1..(Len(s) - 1)
        PROVE  (a \o b)[j] = s[IF j < p THEN j ELSE j + 1]
    <3>1. CASE j < p
      BY <2>3, <2>4, <2>5, <3>1
    <3>2. CASE ~ (j < p)
      <4>1. (a \o b)[j] = b[j - (p - 1)] /\ j - (p - 1) \in 1..(Len(s) - p)
        BY <2>3, <2>4, <2>5, <3>2
      <4>2. b[j - (p - 1)] = s[p + (j - (p - 1))]
        BY <2>5, <4>1
      <4>3. p + (j - (p - 1)) = j + 1
        BY <2>3
      <4> QED  BY <3>2, <4>1, <4>2, <4>3
    <3> QED  BY <3>1, <3>2
  <2> QED  BY <2>2, <2>3, <2>6, <2>7, <2>8 DEF Omits
<1> QED  BY <1>1, <1>2

LEMMA OldLength == Len(OldConvs) \in Nat
  BY IndexesAssumption

(* What was true of an entry, or of an owner, stays so.                    *)
LEMMA TruthStays ==
  ASSUME IndexTypes, Grows
  PROVE  /\ \A c, d : Begun(convs, c, d) => Begun(convs', c, d) /\ convs'[c] = convs[c]
         /\ \A k, c, d : Begun(convs, c, d) /\ Owns(convs, k, c) => Owns(convs', k, c)
         /\ \A e : EntryTrue(convs, e) => EntryTrue(convs', e)
         /\ convs' \in Seq(Convs) /\ Len(OldConvs) <= Len(convs')
<1>1. \A c, d : Begun(convs, c, d) => Begun(convs', c, d) /\ convs'[c] = convs[c]
  BY DEF IndexTypes, Grows, Begun
<1>2. \A k, c, d : Begun(convs, c, d) /\ Owns(convs, k, c) => Owns(convs', k, c)
  BY <1>1 DEF Owns
<1>3. ASSUME NEW e, EntryTrue(convs, e)
      PROVE  EntryTrue(convs', e)
  BY <1>1, <1>2, <1>3 DEF EntryTrue
<1>4. Len(OldConvs) <= Len(convs')
  BY OldLength DEF IndexTypes, Grows
<1> QED  BY <1>1, <1>2, <1>3, <1>4 DEF Grows

LEMMA TailOmits ==
  ASSUME NEW T, NEW s \in Seq(T), Len(s) # 0
  PROVE  Tail(s) \in Seq(T) /\ Omits(Tail(s), s, 1)
  BY DEF Omits

(* The end of a list, when both lose an element or get one.                *)
LEMMA EndBothOmit ==
  ASSUME NEW T, NEW U, NEW s \in Seq(T), NEW r \in Seq(U), EndsWith(s, r),
         NEW b \in Seq(T), NEW p \in Nat, NEW rb \in Seq(U), NEW q \in Nat,
         Omits(b, s, p), Omits(rb, r, q), p = (Len(s) - Len(r)) + q
  PROVE  EndsWith(b, rb)
<1>1. Len(s) \in Nat /\ Len(r) \in Nat /\ Len(b) = Len(s) - 1 /\ Len(rb) = Len(r) - 1
  BY DEF Omits
<1>2. Len(rb) <= Len(b)
  BY <1>1 DEF EndsWith
<1>3. ASSUME NEW i \in 1..Len(rb)
      PROVE  Matching(b[Len(b) - Len(rb) + i], rb[i])
  <2> DEFINE d == Len(s) - Len(r)
  <2>1. d \in Nat /\ Len(b) - Len(rb) = d /\ i \in Nat /\ i \in 1..(Len(r) - 1)
        /\ d + i \in 1..(Len(s) - 1)
    BY <1>1, <1>2
  <2>2. rb[i] = r[IF i < q THEN i ELSE i + 1]
    BY <2>1 DEF Omits
  <2>3. b[d + i] = s[IF d + i < p THEN d + i ELSE d + i + 1]
    BY <2>1 DEF Omits
  <2>4. p = d + q
    OBVIOUS
  <2> HIDE DEF d
  <2>5. d + i < p <=> i < q
    BY <2>1, <2>4
  <2>6. CASE i < q
    <3>1. b[d + i] = s[d + i] /\ rb[i] = r[i] /\ i \in 1..Len(r)
      BY <1>1, <2>1, <2>2, <2>3, <2>5, <2>6
    <3>2. Matching(s[d + i], r[i])
      BY <3>1 DEF EndsWith, d
    <3> QED  BY <2>1, <3>1, <3>2
  <2>7. CASE ~ (i < q)
    <3>1. b[d + i] = s[d + (i + 1)] /\ rb[i] = r[i + 1] /\ i + 1 \in 1..Len(r)
      BY <1>1, <2>1, <2>2, <2>3, <2>5, <2>7
    <3>2. Matching(s[d + (i + 1)], r[i + 1])
      BY <3>1 DEF EndsWith, d
    <3> QED  BY <2>1, <3>1, <3>2
  <2> QED  BY <2>6, <2>7
<1> QED  BY <1>2, <1>3 DEF EndsWith

LEMMA EndFrontOmits ==
  ASSUME NEW T, NEW U, NEW s \in Seq(T), NEW r \in Seq(U), EndsWith(s, r),
         NEW b \in Seq(T), NEW p \in Nat, Omits(b, s, p), p <= Len(s) - Len(r)
  PROVE  EndsWith(b, r)
<1>1. Len(s) \in Nat /\ Len(r) \in Nat /\ Len(b) = Len(s) - 1 /\ p \in 1..Len(s)
  BY DEF Omits
<1>2. Len(r) <= Len(b)
  BY <1>1
<1>3. ASSUME NEW i \in 1..Len(r)
      PROVE  Matching(b[Len(b) - Len(r) + i], r[i])
  <2>1. Len(b) - Len(r) + i \in 1..(Len(s) - 1) /\ ~ (Len(b) - Len(r) + i < p)
        /\ (Len(b) - Len(r) + i) + 1 = Len(s) - Len(r) + i
    BY <1>1, <1>2
  <2>2. b[Len(b) - Len(r) + i] = s[(Len(b) - Len(r) + i) + 1]
    BY <2>1 DEF Omits
  <2> QED  BY <2>1, <2>2 DEF EndsWith
<1> QED  BY <1>2, <1>3 DEF EndsWith

LEMMA EndAppend ==
  ASSUME NEW T, NEW U, NEW s \in Seq(T), NEW r \in Seq(U), EndsWith(s, r),
         NEW e \in T, NEW u \in U, Matching(e, u)
  PROVE  EndsWith(Append(s, e), Append(r, u))
<1> DEFINE a == Append(s, e)  b == Append(r, u)
<1>1. /\ Len(s) \in Nat /\ Len(r) \in Nat /\ Len(a) = Len(s) + 1 /\ Len(b) = Len(r) + 1
      /\ a[Len(s) + 1] = e /\ b[Len(r) + 1] = u
      /\ \A i \in 1..Len(s) : a[i] = s[i]
      /\ \A i \in 1..Len(r) : b[i] = r[i]
  OBVIOUS
<1> HIDE DEF a, b
<1>2. ASSUME NEW i \in 1..Len(b)
      PROVE  Matching(a[Len(a) - Len(b) + i], b[i])
  <2>1. CASE i = Len(r) + 1
    <3>1. Len(a) - Len(b) + i = Len(s) + 1
      BY <1>1, <2>1
    <3> QED  BY <1>1, <2>1, <3>1
  <2>2. CASE i \in 1..Len(r)
    <3>1. Len(a) - Len(b) + i = Len(s) - Len(r) + i /\ Len(s) - Len(r) + i \in 1..Len(s)
      BY <1>1, <2>2 DEF EndsWith
    <3>2. a[Len(s) - Len(r) + i] = s[Len(s) - Len(r) + i] /\ b[i] = r[i]
      BY <1>1, <2>2, <3>1
    <3> QED  BY <2>2, <3>1, <3>2 DEF EndsWith
  <2>3. i = Len(r) + 1 \/ i \in 1..Len(r)
    BY <1>1
  <2> QED  BY <2>1, <2>2, <2>3
<1>3. Len(b) <= Len(a)
  BY <1>1 DEF EndsWith
<1>4. EndsWith(a, b)
  BY <1>2, <1>3 DEF EndsWith
<1> QED  BY <1>4 DEF a, b

LEMMA EndTail ==
  ASSUME NEW T, NEW U, NEW s \in Seq(T), NEW r \in Seq(U), EndsWith(s, r), Len(r) # 0
  PROVE  EndsWith(s, Tail(r))
<1>1. Len(s) \in Nat /\ Len(r) \in Nat /\ Len(Tail(r)) = Len(r) - 1
  OBVIOUS
<1>2. ASSUME NEW i \in 1..Len(Tail(r))
      PROVE  Matching(s[Len(s) - Len(Tail(r)) + i], Tail(r)[i])
  <2>1. Tail(r)[i] = r[i + 1] /\ i + 1 \in 1..Len(r)
        /\ Len(s) - Len(Tail(r)) + i = Len(s) - Len(r) + (i + 1)
    BY <1>1
  <2> QED  BY <2>1 DEF EndsWith
<1> QED  BY <1>1, <1>2 DEF EndsWith

LEMMA LookUpTrue ==
  ASSUME IndexTypes, IndexTrue, NEW k \in Registered, NEW n \in ValidNames, LookUp(k, n).sid # 0
  PROVE  /\ Begun(convs, LookUp(k, n).sid, LookUp(k, n).cwd)
         /\ Owns(convs, k, LookUp(k, n).sid) /\ LookUp(k, n).cwd \in Dirs
<1> DEFINE e == LookUp(k, n)
<1>1. e \in Entries(SessionKey(k, n)) \/ e \in Entries(n) \/ e = NoEntry
  BY DEF LookUp
<1>2. NoEntry.sid = 0
  BY DEF NoEntry, Entry
<1>3. PICK i \in 1..Len(index) : e = index[i] /\ (e.key = SessionKey(k, n) \/ e.key = n)
  BY <1>1, <1>2 DEF Entries, ToSet, IndexTypes
<1> HIDE DEF e
<1>4. EntryTrue(convs, e) /\ e.sid # 0 /\ e.cwd \in Dirs
  <2>1. EntryTrue(convs, index[i]) /\ index[i] \in AnyEntry
    BY DEF IndexTrue, IndexTypes
  <2> QED  BY <1>3, <2>1 DEF AnyEntry, e
<1>5. Owns(convs, k, e.sid)
  BY <1>3, <1>4 DEF EntryTrue, Owns
<1> QED  BY <1>4, <1>5 DEF EntryTrue, e

(* What was kept under a name is found.                                    *)
LEMMA LookUpFinds ==
  ASSUME IndexTypes, Unique(index), NEW k \in Registered, NEW n \in ValidNames,
         NEW i \in 1..Len(index), index[i].key = SessionKey(k, n)
  PROVE  LookUp(k, n) = index[i]
<1>1. Entries(SessionKey(k, n)) = {index[i]}
  BY DEF Entries, ToSet, Unique, IndexTypes
<1> QED  BY <1>1 DEF LookUp

LEMMA OmitsKeys ==
  ASSUME NEW s, Len(s) \in Nat, Unique(s), NEW b, NEW p, Omits(b, s, p)
  PROVE  /\ Unique(b) /\ \A j \in 1..Len(b) : b[j].key # s[p].key
         /\ \A j \in 1..Len(b) : \E i \in 1..Len(s) : b[j] = s[i]
  BY DEF Unique, Omits

(* The index before the entry e comes to its end.                          *)
Cleared(b, e) ==
  /\ b \in Seq(AnyEntry) /\ Unique(b)
  /\ \A j \in 1..Len(b) : b[j].key # e.key
  /\ \A j \in 1..Len(b) : \E i \in 1..Len(index) : b[j] = index[i]
  /\ \/ Keyed(e.key) = {} /\ Len(index) < MaxNamed /\ b = index
     \/ \E p \in Keyed(e.key) : Omits(b, index, p)
     \/ Keyed(e.key) = {} /\ Len(index) >= MaxNamed /\ Omits(b, index, 1)

LEMMA PersistedIs ==
  ASSUME IndexTypes, Unique(index), NEW e
  PROVE  \E b : Cleared(b, e) /\ Persisted(e) = Append(b, e)
<1>1. /\ index \in Seq(AnyEntry) /\ Len(index) \in Nat /\ MaxNamed \in Nat \ {0}
      /\ Keyed(e.key) \in SUBSET (1..Len(index))
      /\ \A p \in 1..Len(index) : p \in Keyed(e.key) <=> index[p].key = e.key
  BY RegistryAssumption DEF IndexTypes, Keyed
<1>2. CASE Evicts(e.key)
  <2>1. Keyed(e.key) = {} /\ Len(index) >= MaxNamed /\ Len(index) # 0
    BY <1>1, <1>2 DEF Evicts
  <2>2. Tail(index) \in Seq(AnyEntry) /\ Omits(Tail(index), index, 1)
    BY <1>1, <2>1, TailOmits
  <2>3. \A j \in 1..Len(Tail(index)) : Tail(index)[j].key # e.key
    BY <1>1, <2>1, <2>2, OmitsKeys
  <2>4. Cleared(Tail(index), e)
    BY <1>1, <2>1, <2>2, <2>3, OmitsKeys DEF Cleared
  <2> QED  BY <1>2, <2>4 DEF Persisted
<1>3. CASE ~Evicts(e.key)
  <2> DEFINE b == Skipping(index, Keyed(e.key))
  <2>1. b \in Seq(AnyEntry) /\ (\/ Keyed(e.key) = {} /\ b = index
                               \/ \E p \in Keyed(e.key) : Omits(b, index, p))
    BY <1>1, SkippingIs
  <2> HIDE DEF b
  <2>2. ASSUME Keyed(e.key) = {}, b = index
        PROVE  Cleared(b, e)
    <3>1. Len(index) < MaxNamed
      BY <1>1, <1>3, <2>2 DEF Evicts
    <3>2. Cleared(index, e)
      BY <1>1, <2>2, <3>1 DEF Cleared
    <3> QED  BY <2>2, <3>2
  <2>3. ASSUME \E p \in Keyed(e.key) : Omits(b, index, p)
        PROVE  Cleared(b, e)
    <3>1. PICK p \in Keyed(e.key) : Omits(b, index, p)
      BY <2>3
    <3>2. p \in 1..Len(index) /\ index[p].key = e.key
      BY <1>1
    <3>3. /\ Unique(b) /\ \A j \in 1..Len(b) : b[j].key # index[p].key
          /\ \A j \in 1..Len(b) : \E i \in 1..Len(index) : b[j] = index[i]
      BY <1>1, <3>1, OmitsKeys
    <3>4. \A j \in 1..Len(b) : b[j].key # e.key
      BY <3>2, <3>3
    <3> QED  BY <2>1, <3>1, <3>3, <3>4 DEF Cleared
  <2>4. Cleared(b, e)
    BY <2>1, <2>2, <2>3
  <2> QED  BY <1>3, <2>4 DEF Persisted, b
<1> QED  BY <1>2, <1>3

(* The index after a session is kept.                                      *)
LEMMA PersistTrue ==
  ASSUME IndexTypes, IndexTrue, Unique(index), Grows, NEW e \in AnyEntry, EntryTrue(convs', e),
         index' = Persisted(e)
  PROVE  index' \in Seq(AnyEntry) /\ Unique(index') /\ IndexTrue'
<1>1. PICK b : Cleared(b, e) /\ index' = Append(b, e)
  BY PersistedIs
<1>2. b \in Seq(AnyEntry) /\ Len(b) \in Nat /\ Len(index') = Len(b) + 1 /\ index'[Len(b) + 1] = e
      /\ \A j \in 1..Len(b) : index'[j] = b[j]
  BY <1>1 DEF Cleared
<1>3. index' \in Seq(AnyEntry)
  BY <1>1, <1>2
<1>4. Unique(index')
  BY <1>1, <1>2 DEF Unique, Cleared
<1>5. ASSUME NEW j \in 1..Len(index')
      PROVE  EntryTrue(convs', index'[j])
  <2>1. CASE j = Len(b) + 1
    BY <1>2, <2>1
  <2>2. CASE j \in 1..Len(b)
    <3>1. PICK i \in 1..Len(index) : b[j] = index[i]
      BY <1>1, <2>2 DEF Cleared
    <3>2. EntryTrue(convs', index[i])
      BY TruthStays DEF IndexTrue
    <3> QED  BY <1>2, <2>2, <3>1, <3>2
  <2> QED  BY <1>2, <2>1, <2>2
<1>6. IndexTrue'
  BY <1>5 DEF IndexTrue
<1> QED  BY <1>3, <1>4, <1>6

(* The sessions used last, after one more; the list is cut at MaxNamed.    *)
Cut(all) == IF Len(all) > MaxNamed THEN Tail(all) ELSE all

LEMMA CutEnds ==
  ASSUME NEW s \in Seq(AnyEntry), NEW r \in Seq(NamedUses), EndsWith(s, r), Len(r) <= MaxNamed,
         NEW e \in AnyEntry, NEW u \in NamedUses, Matching(e, u)
  PROVE  /\ Cut(Append(r, u)) \in Seq(NamedUses) /\ Len(Cut(Append(r, u))) <= MaxNamed
         /\ EndsWith(Append(s, e), Cut(Append(r, u)))
<1> DEFINE a == Append(s, e)  b == Append(r, u)
<1>1. a \in Seq(AnyEntry) /\ b \in Seq(NamedUses) /\ EndsWith(a, b)
  BY EndAppend
<1>2. Len(b) \in Nat /\ Len(b) # 0 /\ Len(b) <= MaxNamed + 1 /\ MaxNamed \in Nat
  BY RegistryAssumption
<1> HIDE DEF a, b
<1>3. Tail(b) \in Seq(NamedUses) /\ Len(Tail(b)) = Len(b) - 1 /\ EndsWith(a, Tail(b))
  BY <1>1, <1>2, EndTail
<1>4. Cut(b) \in Seq(NamedUses) /\ Len(Cut(b)) <= MaxNamed /\ EndsWith(a, Cut(b))
  BY <1>1, <1>2, <1>3 DEF Cut
<1> QED  BY <1>4 DEF a, b

Used(k, n) == {i \in DOMAIN recent : recent[i].kind = k /\ recent[i].name = n}

(* An entry used before is in both lists at the same place from the end.   *)
LEMMA UsedIsKeyed ==
  ASSUME IndexTypes, EndsWith(index, recent), NEW k \in Registered, NEW n \in ValidNames
  PROVE  /\ Len(index) - Len(recent) \in Nat /\ Used(k, n) \in SUBSET (1..Len(recent))
         /\ \A q \in 1..Len(recent) :
              q \in Used(k, n) <=> (Len(index) - Len(recent)) + q \in Keyed(SessionKey(k, n))
<1>1. /\ Len(index) \in Nat /\ Len(recent) \in Nat /\ recent \in Seq(NamedUses)
      /\ index \in Seq(AnyEntry) /\ Len(index) - Len(recent) \in Nat
  BY DEF IndexTypes, EndsWith
<1>2. Used(k, n) \in SUBSET (1..Len(recent))
  BY <1>1 DEF Used
<1>3. ASSUME NEW q \in 1..Len(recent)
      PROVE  q \in Used(k, n) <=> (Len(index) - Len(recent)) + q \in Keyed(SessionKey(k, n))
  <2>1. /\ index[(Len(index) - Len(recent)) + q].key = SessionKey(recent[q].kind, recent[q].name)
        /\ (Len(index) - Len(recent)) + q \in 1..Len(index)
    BY <1>1 DEF EndsWith, Matching
  <2>2. recent[q].kind \in Registered /\ recent[q].name \in ValidNames
    <3>1. recent[q] \in NamedUses
      BY <1>1
    <3> QED  BY <3>1 DEF NamedUses
  <2>3. SessionKey(recent[q].kind, recent[q].name) = SessionKey(k, n)
          <=> recent[q].kind = k /\ recent[q].name = n
    BY <2>2, KeysAssumption, RegistryAssumption
  <2>4. q \in Used(k, n) <=> recent[q].kind = k /\ recent[q].name = n
    BY <1>1 DEF Used
  <2>5. (Len(index) - Len(recent)) + q \in Keyed(SessionKey(k, n))
          <=> SessionKey(recent[q].kind, recent[q].name) = SessionKey(k, n)
    BY <1>1, <2>1 DEF Keyed
  <2> QED  BY <2>3, <2>4, <2>5
<1> QED  BY <1>1, <1>2, <1>3

LEMMA RememberEnds ==
  ASSUME IndexTypes, Unique(index), EndsWith(index, recent), Len(recent) <= MaxNamed,
         NEW k \in Registered, NEW n \in ValidNames, NEW c \in Nat \ {0}, NEW e \in AnyEntry,
         e.key = SessionKey(k, n), e.sid = c, index' = Persisted(e), Remember(k, n, c)
  PROVE  recent' \in Seq(NamedUses) /\ Len(recent') <= MaxNamed /\ EndsWith(index', recent')
<1> DEFINE u == [kind |-> k, name |-> n, sid |-> c]
           rb == Skipping(recent, Used(k, n))
           d == Len(index) - Len(recent)
<1>1. PICK b : Cleared(b, e) /\ index' = Append(b, e)
  BY PersistedIs
<1>2. u \in NamedUses /\ Matching(e, u) /\ recent' = Cut(Append(rb, u))
  BY DEF NamedUses, Matching, Remember, Cut, Used
<1>3. /\ index \in Seq(AnyEntry) /\ recent \in Seq(NamedUses) /\ b \in Seq(AnyEntry)
      /\ Len(index) \in Nat /\ Len(recent) \in Nat /\ MaxNamed \in Nat \ {0}
  BY <1>1, RegistryAssumption DEF IndexTypes, Cleared
<1>4. /\ d \in Nat /\ Used(k, n) \in SUBSET (1..Len(recent))
      /\ \A q \in 1..Len(recent) : q \in Used(k, n) <=> d + q \in Keyed(e.key)
  BY UsedIsKeyed
<1>5. rb \in Seq(NamedUses) /\ (\/ Used(k, n) = {} /\ rb = recent
                           \/ \E q \in Used(k, n) : Omits(rb, recent, q))
  BY <1>3, <1>4, SkippingIs
<1>6. d = Len(index) - Len(recent)
  OBVIOUS
<1> HIDE DEF u, rb, d
<1>7. Len(rb) \in Nat /\ Len(rb) <= MaxNamed
  BY <1>3, <1>5 DEF Omits
<1>8. ASSUME EndsWith(b, rb)
      PROVE  recent' \in Seq(NamedUses) /\ Len(recent') <= MaxNamed /\ EndsWith(index', recent')
  BY <1>1, <1>2, <1>3, <1>5, <1>7, <1>8, CutEnds
<1>9. CASE Keyed(e.key) = {} /\ Len(index) < MaxNamed /\ b = index
  <2>1. Used(k, n) = {}
    BY <1>4, <1>9
  <2>2. rb = recent
    BY <1>5, <2>1
  <2>3. EndsWith(b, rb)
    BY <1>9, <2>2
  <2> QED  BY <1>8, <2>3
<1>10. CASE \E p \in Keyed(e.key) : Omits(b, index, p)
  <2>1. PICK p \in Keyed(e.key) : Omits(b, index, p)
    BY <1>10
  <2>2. p \in 1..Len(index) /\ index[p].key = e.key
    BY <1>3 DEF Keyed
  <2>3. CASE Used(k, n) = {}
    <3>1. p <= d
      <4>1. SUFFICES ASSUME p > d  PROVE  FALSE
        BY <1>4, <2>2
      <4>2. p - d \in 1..Len(recent) /\ d + (p - d) = p
        BY <1>3, <1>4, <1>6, <2>2, <4>1
      <4> QED  BY <1>4, <2>3, <4>2
    <3>2. rb = recent
      BY <1>5, <2>3
    <3>3. EndsWith(b, recent)
      BY <1>3, <1>6, <2>1, <2>2, <3>1, EndFrontOmits
    <3> QED  BY <1>8, <3>2, <3>3
  <2>4. CASE Used(k, n) # {}
    <3>1. PICK q \in Used(k, n) : Omits(rb, recent, q)
      BY <1>5, <2>4
    <3>2. q \in 1..Len(recent) /\ d + q \in Keyed(e.key)
      BY <1>4
    <3>3. d + q \in 1..Len(index) /\ index[d + q].key = e.key
      BY <1>3, <3>2 DEF Keyed
    <3>4. p = d + q
      BY <2>2, <3>3 DEF Unique
    <3>5. /\ p \in Nat /\ q \in Nat /\ p = (Len(index) - Len(recent)) + q
          /\ index \in Seq(AnyEntry) /\ recent \in Seq(NamedUses)
      BY <1>3, <1>6, <2>2, <3>2, <3>4
    <3>6. EndsWith(b, rb)
      BY <1>3, <1>5, <2>1, <3>1, <3>5, EndBothOmit
    <3> QED  BY <1>8, <3>6
  <2> QED  BY <2>3, <2>4
<1>11. CASE Keyed(e.key) = {} /\ Len(index) >= MaxNamed /\ Omits(b, index, 1)
  <2>1. Used(k, n) = {}
    BY <1>4, <1>11
  <2>2. rb = recent
    BY <1>5, <2>1
  <2>3. CASE 1 <= d
    <3>1. EndsWith(b, recent)
      BY <1>3, <1>6, <1>11, <2>3, EndFrontOmits
    <3> QED  BY <1>8, <2>2, <3>1
  <2>4. CASE ~ (1 <= d)
    <3>1. d = 0 /\ Len(recent) = MaxNamed /\ Len(recent) = Len(index) /\ Len(recent) # 0
      BY <1>3, <1>4, <1>6, <1>11, <2>4
    <3>2. Tail(recent) \in Seq(NamedUses) /\ Omits(Tail(recent), recent, 1)
      BY <1>3, <3>1, TailOmits
    <3>3. EndsWith(b, Tail(recent))
      <4>1. 1 \in Nat /\ 1 = (Len(index) - Len(recent)) + 1
        BY <1>3, <3>1
      <4>2. Omits(b, index, 1)
        BY <1>11
      <4> QED  BY <1>3, <3>2, <4>1, <4>2, EndBothOmit
    <3>4. Cut(Append(recent, u)) = Append(Tail(recent), u)
      <4>1. Len(Append(recent, u)) > MaxNamed
        BY <1>2, <1>3, <3>1
      <4>2. Tail(Append(recent, u)) = Append(Tail(recent), u)
        BY <1>2, <1>3, <3>1
      <4> QED  BY <4>1, <4>2 DEF Cut
    <3>5. EndsWith(Append(b, e), Append(Tail(recent), u))
      BY <1>2, <1>3, <3>2, <3>3, EndAppend
    <3>6. Append(Tail(recent), u) \in Seq(NamedUses) /\ Len(Append(Tail(recent), u)) = MaxNamed
      BY <1>2, <1>3, <3>1, <3>2
    <3> QED  BY <1>1, <1>2, <1>3, <2>2, <3>4, <3>5, <3>6
  <2> QED  BY <2>3, <2>4
<1> QED  BY <1>1, <1>9, <1>10, <1>11 DEF Cleared

------------------------------------------------------------------------------
(* What a prompt leaves.                                                   *)
LEMMA AnswersRightly ==
  ASSUME IndexTypes, NEW h \in HarnessKinds, NEW resume, NEW options, NEW dir \in Dirs, NEW sid,
         Rightly(convs, h, resume, dir), Answers(h, resume, options, dir, sid)
  PROVE  Grows /\ Rightly(convs', h, sid, dir)
<1>1. convs \in Seq(Convs) /\ Len(convs) \in Nat
  BY DEF IndexTypes
<1>2. ASSUME UNCHANGED convs
      PROVE  Grows
  BY <1>1, <1>2 DEF Grows
<1>3. CASE sid = 0 /\ UNCHANGED convs
  BY <1>2, <1>3 DEF Rightly
<1>4. CASE sid = resume /\ UNCHANGED convs
  BY <1>2, <1>4
<1>5. CASE /\ sid \in {c \in DOMAIN convs : convs[c].kind = h /\ convs[c].cwd = dir}
           /\ UNCHANGED convs
  <2>1. sid \in 1..Len(convs) /\ convs[sid].kind = h /\ convs[sid].cwd = dir
    BY <1>1, <1>5
  <2> QED  BY <1>2, <1>5, <2>1 DEF Rightly, Begun, Owns
<1>6. CASE sid = Len(convs) + 1 /\ convs' = Begins(h, dir)
  <2> DEFINE n == [kind |-> h, cwd |-> dir]
  <2>1. n \in Convs /\ n.kind = h /\ n.cwd = dir
    BY DEF Convs
  <2>2. convs' = Append(convs, n)
    BY <1>6 DEF Begins
  <2> HIDE DEF n
  <2>3. /\ convs' \in Seq(Convs) /\ Len(convs') = Len(convs) + 1 /\ convs'[Len(convs) + 1] = n
        /\ \A c \in 1..Len(convs) : convs'[c] = convs[c]
    BY <1>1, <2>1, <2>2
  <2>4. Grows
    BY <1>1, <2>3 DEF Grows
  <2>5. sid \in 1..Len(convs') /\ convs'[sid] = n
    BY <1>1, <1>6, <2>3
  <2> QED  BY <2>1, <2>4, <2>5 DEF Rightly, Begun, Owns
<1> QED  BY <1>3, <1>4, <1>5, <1>6 DEF Answers

LEMMA AskedRightly ==
  ASSUME IndexTypes, Grows, NEW h, NEW name, NEW resume, NEW options, NEW dir,
         Rightly(convs, h, resume, dir), Ask(h, name, resume, options, dir)
  PROVE  OwnConversation'
<1>1. asked'.resume = resume /\ asked'.kind = h /\ asked'.cwd = dir
  BY DEF Ask
<1>2. ASSUME resume # 0
      PROVE  convs'[resume].cwd = dir /\ (resume \in DOMAIN OldConvs \/ convs'[resume].kind = h)
  <2>1. Begun(convs, resume, dir) /\ Owns(convs, h, resume)
    BY <1>2 DEF Rightly
  <2>2. Begun(convs', resume, dir) /\ Owns(convs', h, resume)
    BY <2>1, TruthStays
  <2>3. DOMAIN OldConvs = 1..Len(OldConvs)
    BY IndexesAssumption
  <2> QED  BY <2>2, <2>3 DEF Begun, Owns
<1> QED  BY <1>1, <1>2 DEF OwnConversation

LEMMA StoreStays ==
  ASSUME IndexTypes, Grows, StoreTrue, UNCHANGED <<cwd, store>>
  PROVE  StoreTrue'
<1>1. ASSUME NEW k \in Registered, NEW t \in DOMAIN store[k]
      PROVE  Begun(convs', store[k][t], cwd) /\ convs'[store[k][t]].kind = k
  <2>1. Begun(convs, store[k][t], cwd) /\ convs[store[k][t]].kind = k
    BY DEF StoreTrue
  <2>2. Begun(convs', store[k][t], cwd) /\ convs'[store[k][t]] = convs[store[k][t]]
    BY <2>1, TruthStays
  <2> QED  BY <2>1, <2>2
<1> QED  BY <1>1 DEF StoreTrue

LEMMA IndexStays ==
  ASSUME HarnessInv, Grows, UNCHANGED <<index, recent, cwd>>
  PROVE  /\ IndexTypes' /\ IndexTrue' /\ Unique(index')
         /\ EndsWith(index', recent') /\ Len(recent') <= MaxNamed
<1>0. IndexTypes
  BY DEF HarnessInv
<1>1. IndexTypes'
  BY <1>0, TruthStays DEF IndexTypes
<1>2. \A j \in 1..Len(index) : EntryTrue(convs', index[j])
  BY <1>0, TruthStays DEF HarnessInv, IndexTrue
<1>3. IndexTrue'
  BY <1>2 DEF IndexTrue
<1> QED  BY <1>1, <1>3 DEF HarnessInv

LEMMA KeepsIndex ==
  ASSUME HarnessInv, Grows, UNCHANGED cwd,
         NEW h \in Registered, NEW name \in ValidNames, NEW dir \in Dirs, NEW sid \in Nat,
         Rightly(convs', h, sid, dir), Rightly(convs', h, LookUp(h, name).sid, dir),
         LookUp(h, name).sid \in Nat, KeepNamed(h, name, dir, sid)
  PROVE  /\ IndexTypes' /\ IndexTrue' /\ Unique(index')
         /\ EndsWith(index', recent') /\ Len(recent') <= MaxNamed
<1> DEFINE c == IF sid # 0 THEN sid ELSE LookUp(h, name).sid
           e == Entry(SessionKey(h, name), c, dir)
<1>0. /\ IndexTypes /\ IndexTrue /\ Unique(index)
      /\ EndsWith(index, recent) /\ Len(recent) <= MaxNamed
  BY DEF HarnessInv
<1>1. CASE UNCHANGED <<index, recent>>
  BY <1>1, IndexStays
<1>2. CASE c # 0 /\ index' = Persisted(e) /\ Remember(h, name, c)
  <2>1. c \in Nat \ {0} /\ Begun(convs', c, dir) /\ Owns(convs', h, c)
    BY <1>2 DEF Rightly
  <2>2. e \in AnyEntry /\ e.key = SessionKey(h, name) /\ e.sid = c /\ e.cwd = dir
    BY <2>1 DEF AnyEntry, Keys, Entry
  <2> HIDE DEF c, e
  <2>3. \A k \in Registered, n \in ValidNames : e.key = SessionKey(k, n) => k = h
    BY <2>2, KeysAssumption, RegistryAssumption
  <2>4. e.key \notin ValidNames
    BY <2>2, KeysAssumption, RegistryAssumption
  <2>5. EntryTrue(convs', e)
    BY <2>1, <2>2, <2>3, <2>4 DEF EntryTrue
  <2>6. index' = Persisted(e) /\ Remember(h, name, c)
    BY <1>2
  <2>7. index' \in Seq(AnyEntry) /\ Unique(index') /\ IndexTrue'
    BY <1>0, <2>2, <2>5, <2>6, PersistTrue
  <2>8. recent' \in Seq(NamedUses) /\ Len(recent') <= MaxNamed /\ EndsWith(index', recent')
    BY <1>0, <2>1, <2>2, <2>6, RememberEnds
  <2>9. IndexTypes'
    BY <1>0, <2>7, <2>8, TruthStays DEF IndexTypes
  <2> QED  BY <2>7, <2>8, <2>9
<1> QED  BY <1>1, <1>2 DEF KeepNamed

(* A prompt under a name: what is asked, and what is left.                 *)
LEMMA PromptNamedKeeps ==
  ASSUME HarnessInv, UNCHANGED cwd,
         NEW h \in Registered, NEW name \in ValidNames, NEW options, NEW dir \in Dirs,
         Rightly(convs, h, LookUp(h, name).sid, dir), LookUp(h, name).sid \in Nat,
         PromptNamed(h, name, LookUp(h, name).sid, options, dir)
  PROVE  HarnessInv' /\ Grows
<1> DEFINE c == LookUp(h, name).sid
<1>0. IndexTypes /\ StoreTrue /\ DOMAIN store = Registered /\ h \in HarnessKinds
  BY RegistryAssumption DEF HarnessInv
<1>1. Ask(h, name, c, options, dir) /\ UNCHANGED store
  BY DEF PromptNamed
<1>2. ASSUME Grows, IndexTypes', IndexTrue', Unique(index'), EndsWith(index', recent'),
             Len(recent') <= MaxNamed
      PROVE  HarnessInv' /\ Grows
  <2>1. OwnConversation'
    BY <1>0, <1>1, <1>2, AskedRightly
  <2>2. StoreTrue'
    BY <1>0, <1>1, <1>2, StoreStays
  <2>3. DOMAIN store' = Registered
    BY <1>0, <1>1
  <2>4. HarnessInv'
    BY <1>2, <2>1, <2>2, <2>3 DEF HarnessInv
  <2> QED  BY <1>2, <2>4
<1>3. CASE UNCHANGED <<convs, index, recent>>
  <2>1. Grows
    BY <1>0, <1>3 DEF IndexTypes, Grows
  <2> QED  BY <1>2, <1>3, <2>1, IndexStays
<1>4. CASE \E sid \in Answered :
             Answers(h, c, options, dir, sid) /\ KeepNamed(h, name, dir, sid)
  <2>1. PICK sid \in Answered :
             Answers(h, c, options, dir, sid) /\ KeepNamed(h, name, dir, sid)
    BY <1>4
  <2>2. Grows /\ Rightly(convs', h, sid, dir)
    BY <1>0, <2>1, AnswersRightly
  <2>3. Rightly(convs', h, c, dir)
    BY <1>0, <2>2, TruthStays DEF Rightly
  <2>4. sid \in Nat
    BY RegistryAssumption DEF Answered
  <2>5. /\ IndexTypes' /\ IndexTrue' /\ Unique(index')
        /\ EndsWith(index', recent') /\ Len(recent') <= MaxNamed
    BY <2>1, <2>2, <2>3, <2>4, KeepsIndex
  <2> QED  BY <1>2, <2>2, <2>5
<1> QED  BY <1>3, <1>4 DEF PromptNamed

LEMMA ImplicitKeeps ==
  ASSUME HarnessInv, UNCHANGED cwd, NEW h \in Registered, NEW options,
         PromptImplicit(h, options)
  PROVE  HarnessInv' /\ Grows
<1> DEFINE c == IF fg \in DOMAIN store[h] THEN store[h][fg] ELSE 0
<1>0. IndexTypes /\ StoreTrue /\ DOMAIN store = Registered /\ h \in HarnessKinds /\ cwd \in Dirs
  BY RegistryAssumption DEF HarnessInv, IndexTypes
<1>1. PICK sid \in Answered :
        /\ Answers(h, c, options, cwd, sid)
        /\ store' = IF sid = 0 THEN store ELSE [store EXCEPT ![h] = With(@, fg, sid)]
  BY DEF PromptImplicit
<1>2. Ask(h, "", c, options, cwd) /\ UNCHANGED <<index, recent>>
  BY DEF PromptImplicit
<1>3. Rightly(convs, h, c, cwd)
  BY <1>0 DEF StoreTrue, Rightly, Owns
<1>4. Grows /\ Rightly(convs', h, sid, cwd)
  BY <1>0, <1>1, <1>3, AnswersRightly
<1>5. sid # 0 => convs'[sid].kind = h
  <2>1. ASSUME sid # 0  PROVE  convs'[sid].kind = h
    <3>1. c # 0 => convs[c].kind = h
      BY <1>0 DEF StoreTrue
    <3>2. CASE sid = c /\ UNCHANGED convs
      BY <2>1, <3>1, <3>2
    <3>3. CASE /\ sid \in {d \in DOMAIN convs : convs[d].kind = h /\ convs[d].cwd = cwd}
               /\ UNCHANGED convs
      BY <3>3
    <3>4. CASE sid = Len(convs) + 1 /\ convs' = Begins(h, cwd)
      <4>1. [kind |-> h, cwd |-> cwd] \in Convs
        BY <1>0 DEF Convs
      <4>2. convs'[sid] = [kind |-> h, cwd |-> cwd]
        BY <1>0, <3>4, <4>1 DEF Begins, IndexTypes
      <4> QED  BY <4>2
    <3> QED  BY <1>1, <2>1, <3>2, <3>3, <3>4 DEF Answers
  <2> QED  BY <2>1
<1> HIDE DEF c
<1>6. OwnConversation'
  BY <1>0, <1>2, <1>3, <1>4, AskedRightly
<1>7. /\ IndexTypes' /\ IndexTrue' /\ Unique(index')
      /\ EndsWith(index', recent') /\ Len(recent') <= MaxNamed
  BY <1>2, <1>4, IndexStays
<1>8. CASE sid = 0
  <2>1. store' = store
    BY <1>1, <1>8
  <2>2. StoreTrue'
    BY <1>0, <1>4, <2>1, StoreStays
  <2>3. HarnessInv'
    BY <1>0, <1>6, <1>7, <2>1, <2>2 DEF HarnessInv
  <2> QED  BY <1>4, <2>3
<1>9. CASE sid # 0
  <2>1. store' = [store EXCEPT ![h] = With(store[h], fg, sid)]
    BY <1>1, <1>9
  <2>2. DOMAIN store' = Registered
    BY <1>0, <2>1
  <2>3. ASSUME NEW k \in Registered, NEW t \in DOMAIN store'[k]
        PROVE  Begun(convs', store'[k][t], cwd) /\ convs'[store'[k][t]].kind = k
    <3>1. CASE k = h /\ t = fg
      <4>1. store'[k][t] = sid
        BY <1>0, <2>1, <3>1 DEF With
      <4> QED  BY <1>4, <1>5, <1>9, <3>1, <4>1 DEF Rightly
    <3>2. CASE k # h \/ t # fg
      <4>1. t \in DOMAIN store[k] /\ store'[k][t] = store[k][t]
        BY <1>0, <2>1, <2>3, <3>2 DEF With
      <4>2. Begun(convs, store[k][t], cwd) /\ convs[store[k][t]].kind = k
        BY <1>0, <4>1 DEF StoreTrue
      <4>3. Begun(convs', store[k][t], cwd) /\ convs'[store[k][t]] = convs[store[k][t]]
        BY <1>0, <1>4, <4>2, TruthStays
      <4> QED  BY <4>1, <4>2, <4>3
    <3> QED  BY <3>1, <3>2
  <2>4. StoreTrue'
    BY <2>3 DEF StoreTrue
  <2>5. HarnessInv'
    BY <1>6, <1>7, <2>2, <2>4 DEF HarnessInv
  <2> QED  BY <1>4, <2>5
<1> QED  BY <1>8, <1>9

LEMMA LookUpSid ==
  ASSUME IndexTypes, NEW k \in Registered, NEW n \in ValidNames
  PROVE  LookUp(k, n).sid \in Nat
<1>1. LookUp(k, n) \in Entries(SessionKey(k, n)) \/ LookUp(k, n) \in Entries(n)
      \/ LookUp(k, n) = NoEntry
  BY DEF LookUp
<1>2. NoEntry.sid = 0
  BY DEF NoEntry, Entry
<1>3. \A key : \A e \in Entries(key) : e \in AnyEntry
  BY DEF Entries, ToSet, IndexTypes
<1> QED  BY <1>1, <1>2, <1>3 DEF AnyEntry

(* Where a prompt under a name is asked: a session that is there goes on   *)
(* where it was begun.                                                     *)
LEMMA NamedPlace ==
  ASSUME HarnessInv, NEW k \in Registered, NEW n \in ValidNames, NEW dir,
         IF LookUp(k, n).sid # 0 THEN dir = LookUp(k, n).cwd ELSE dir = cwd
  PROVE  dir \in Dirs /\ Rightly(convs, k, LookUp(k, n).sid, dir) /\ LookUp(k, n).sid \in Nat
<1>0. IndexTypes /\ IndexTrue /\ cwd \in Dirs
  BY DEF HarnessInv, IndexTypes
<1>1. LookUp(k, n).sid \in Nat
  BY <1>0, LookUpSid
<1>2. CASE LookUp(k, n).sid = 0
  BY <1>0, <1>1, <1>2 DEF Rightly
<1>3. CASE LookUp(k, n).sid # 0
  BY <1>0, <1>1, <1>3, LookUpTrue DEF Rightly
<1> QED  BY <1>2, <1>3

(* A prompt under a name.                                                  *)
NamedPrompt(h, options) ==
  \E name \in ValidNames, dir \in Dirs :
    /\ IF LookUp(h, name).sid # 0 THEN dir = LookUp(h, name).cwd ELSE dir = cwd
    /\ PromptNamed(h, name, LookUp(h, name).sid, options, dir)

LEMMA SendIs ==
  ASSUME HarnessInv, NEW h, NEW options, NamesValid(options), SendHarnessPrompt(h, options)
  PROVE  /\ h \in Registered
         /\ \/ UNCHANGED harnessVars
            \/ PromptImplicit(h, options)
            \/ NamedPrompt(h, options)
<1>0. h \in Registered /\ cwd \in Dirs
  BY DEF SendHarnessPrompt, HarnessInv, IndexTypes
<1>1. CASE NoSuchSession(h, options)
  BY <1>0, <1>1 DEF NoSuchSession
<1>2. CASE PromptResume(h, options)
  <2> DEFINE e == LookUp(h, options.resume)
  <2>1. options.resume \in ValidNames /\ e.sid # 0
        /\ PromptNamed(h, options.resume, e.sid, options, e.cwd)
    BY <1>2 DEF PromptResume, NamesValid, NameOrNone
  <2>2. e.cwd \in Dirs
    BY <1>0, <2>1, NamedPlace
  <2> QED  BY <1>0, <2>1, <2>2 DEF NamedPrompt
<1>3. CASE PromptName(h, options)
  <2> DEFINE e == LookUp(h, options.name)
  <2>1. options.name \in ValidNames
    BY <1>3 DEF PromptName, NamesValid, NameOrNone
  <2>2. CASE e.sid # 0
    <3>1. PromptNamed(h, options.name, e.sid, options, e.cwd)
      BY <1>3, <2>2 DEF PromptName
    <3>2. e.cwd \in Dirs
      BY <1>0, <2>1, <2>2, NamedPlace
    <3> QED  BY <1>0, <2>1, <2>2, <3>1, <3>2 DEF NamedPrompt
  <2>3. CASE e.sid = 0
    <3>1. PromptNamed(h, options.name, e.sid, options, cwd)
      BY <1>3, <2>3 DEF PromptName
    <3> QED  BY <1>0, <2>1, <2>3, <3>1 DEF NamedPrompt
  <2> QED  BY <2>2, <2>3
<1> QED  BY <1>0, <1>1, <1>2, <1>3 DEF SendHarnessPrompt

LEMMA HarnessStays ==
  ASSUME HarnessInv, UNCHANGED <<harnessVars, cwd>>
  PROVE  HarnessInv' /\ Grows
<1>1. IndexTypes'
  BY DEF HarnessInv, IndexTypes, harnessVars
<1>2. IndexTrue'
  BY DEF HarnessInv, IndexTrue, harnessVars
<1>3. StoreTrue'
  BY DEF HarnessInv, StoreTrue, harnessVars
<1>4. OwnConversation'
  BY DEF HarnessInv, OwnConversation, harnessVars
<1>5. Grows
  BY DEF HarnessInv, IndexTypes, Grows, harnessVars
<1> QED  BY <1>1, <1>2, <1>3, <1>4, <1>5 DEF HarnessInv, harnessVars

(* The file is left alone while the back ends begin conversations.         *)
LEMMA SavedStays ==
  ASSUME HarnessInv, SavedTrue, Grows, UNCHANGED fileVars
  PROVE  SavedTrue'
<1>0. IndexTypes /\ saved' = saved /\ recentSaved' = recentSaved
  BY DEF HarnessInv, fileVars
<1>1. \A i \in 1..Len(saved) : EntryTrue(convs', saved[i])
  BY <1>0, TruthStays DEF SavedTrue
<1> QED  BY <1>0, <1>1 DEF SavedTrue

LEMMA SendKeeps ==
  ASSUME HarnessInv, UNCHANGED cwd, NEW h, NEW options, NamesValid(options),
         SendHarnessPrompt(h, options)
  PROVE  HarnessInv' /\ Grows
<1>0. h \in Registered
  BY SendIs
<1>1. CASE UNCHANGED harnessVars
  BY <1>1, HarnessStays
<1>2. CASE PromptImplicit(h, options)
  BY <1>0, <1>2, ImplicitKeeps
<1>3. CASE NamedPrompt(h, options)
  <2>1. PICK name \in ValidNames, dir \in Dirs :
          /\ IF LookUp(h, name).sid # 0 THEN dir = LookUp(h, name).cwd ELSE dir = cwd
          /\ PromptNamed(h, name, LookUp(h, name).sid, options, dir)
    BY <1>3 DEF NamedPrompt
  <2>2. Rightly(convs, h, LookUp(h, name).sid, dir) /\ LookUp(h, name).sid \in Nat
    BY <1>0, <2>1, NamedPlace
  <2> QED  BY <1>0, <2>1, <2>2, PromptNamedKeeps
<1> QED  BY <1>1, <1>2, <1>3, SendIs

(* What a prompt asks for.                                                 *)
AskedOn ==
  asked'.odd # asked.odd /\ asked'.name # "" =>
    \A i \in DOMAIN recent :
      recent[i].kind = asked'.kind /\ recent[i].name = asked'.name =>
        asked'.resume = recent[i].sid

LEMMA SendGoesOn ==
  ASSUME HarnessInv, NEW h, NEW options, NamesValid(options), SendHarnessPrompt(h, options)
  PROVE  AskedOn
<1>0. h \in Registered
  BY SendIs
<1>1. CASE UNCHANGED harnessVars
  BY <1>1 DEF AskedOn, harnessVars
<1>2. CASE PromptImplicit(h, options)
  <2>1. asked'.name = ""
    BY <1>2 DEF PromptImplicit, Ask
  <2> QED  BY <2>1 DEF AskedOn
<1>3. CASE NamedPrompt(h, options)
  <2>1. PICK name \in ValidNames, dir \in Dirs :
          PromptNamed(h, name, LookUp(h, name).sid, options, dir)
    BY <1>3 DEF NamedPrompt
  <2>2. asked'.kind = h /\ asked'.name = name /\ asked'.resume = LookUp(h, name).sid
    BY <2>1 DEF PromptNamed, Ask
  <2>3. ASSUME NEW i \in DOMAIN recent, recent[i].kind = h, recent[i].name = name
        PROVE  LookUp(h, name).sid = recent[i].sid
    <3> DEFINE p == Len(index) - Len(recent) + i
    <3>1. IndexTypes /\ Unique(index) /\ EndsWith(index, recent)
      BY DEF HarnessInv
    <3>2. i \in 1..Len(recent) /\ Len(recent) \in Nat /\ Len(index) \in Nat
      BY <2>3, <3>1 DEF IndexTypes
    <3>3. p \in 1..Len(index) /\ Matching(index[p], recent[i])
      BY <3>1, <3>2 DEF EndsWith
    <3>4. index[p].key = SessionKey(h, name) /\ index[p].sid = recent[i].sid
      BY <2>3, <3>3 DEF Matching
    <3> HIDE DEF p
    <3>5. LookUp(h, name) = index[p]
      BY <1>0, <3>1, <3>3, <3>4, LookUpFinds
    <3> QED  BY <3>4, <3>5
  <2> QED  BY <2>2, <2>3 DEF AskedOn
<1> QED  BY <1>1, <1>2, <1>3, SendIs

------------------------------------------------------------------------------
(* The steps of the program.                                               *)
LEMMA OffNames == NamesValid(Off.options) /\ NamesValid(NoOptions)
  BY DEF NamesValid, Off, NoOptions, NameOrNone

LEMMA ModesAfter ==
  ASSUME ModesValid
  PROVE  /\ mode' = mode => ModesValid'
         /\ \A t : mode' = Dropped(t) => ModesValid'
         /\ \A t : mode' = With(mode, t, Off) => ModesValid'
         /\ mode' = [t \in Terminals |-> Off] => ModesValid'
         /\ \A t, m : mode' = [mode EXCEPT ![t] = m] /\ NamesValid(m.options) => ModesValid'
  BY OffNames DEF ModesValid, Terminals, Dropped, With

(* A command sends a prompt, or leaves the harnesses alone.                *)
Prompted == \E h, options : NamesValid(options) /\ SendHarnessPrompt(h, options)

LEMMA RouteIs ==
  ASSUME RouteInv, Route
  PROVE  ModesValid' /\ UNCHANGED cwd /\ (Prompted \/ UNCHANGED harnessVars)
<1>0. ModesValid
  BY DEF RouteInv
<1>1. PICK c \in Commanded :
        \/ New(c) \/ Foreground(c) \/ Background(c) \/ Kill(c)
        \/ Activate(c) \/ Deactivate(c) \/ OneShot(c) \/ PlainText(c) \/ Elsewhere(c)
  BY DEF Route
<1>2. NamesValid(c.options)
  BY ParseNames DEF Commanded
<1>3. CASE New(c)
  BY <1>0, <1>3, ModesAfter DEF New
<1>4. CASE Foreground(c) \/ Background(c)
  BY <1>0, <1>4, ModesAfter DEF Foreground, Background
<1>5. CASE Kill(c)
  BY <1>0, <1>5, ModesAfter DEF Kill
<1>6. CASE Activate(c)
  <2>1. [kind |-> c.kind, options |-> c.options].options = c.options
    OBVIOUS
  <2>2. ModesValid'
    BY <1>0, <1>2, <1>6, <2>1, ModesAfter DEF Activate
  <2>3. UNCHANGED cwd /\ (SendHarnessPrompt(c.kind, c.options) \/ UNCHANGED harnessVars)
    BY <1>6 DEF Activate
  <2> QED  BY <1>2, <2>2, <2>3 DEF Prompted
<1>7. CASE Deactivate(c)
  BY <1>0, <1>7, OffNames, ModesAfter DEF Deactivate
<1>8. CASE OneShot(c)
  BY <1>0, <1>2, <1>8, ModesAfter DEF OneShot, Prompted, terminalVars
<1>9. CASE PlainText(c)
  <2>1. NamesValid(Current.options)
    BY <1>0, OffNames DEF Current, ModesValid
  <2> QED  BY <1>0, <1>9, <2>1, ModesAfter DEF PlainText, Prompted, terminalVars
<1>10. CASE Elsewhere(c)
  BY <1>0, <1>10, ModesAfter DEF Elsewhere, terminalVars
<1> QED  BY <1>1, <1>3, <1>4, <1>5, <1>6, <1>7, <1>8, <1>9, <1>10

(* The index is the one of the file, and asked for is nothing new.         *)
LEMMA RestartKeeps ==
  ASSUME HarnessInv, SavedTrue, Restart
  PROVE  HarnessInv' /\ Grows
<1>1. index' = saved /\ recent' = recentSaved /\ convs' = convs /\ cwd' \in Dirs
  BY DEF Restart
<1>2. IndexTypes'
  BY <1>1 DEF HarnessInv, IndexTypes, SavedTrue
<1>3. IndexTrue' /\ Unique(index') /\ EndsWith(index', recent') /\ Len(recent') <= MaxNamed
  BY <1>1 DEF IndexTrue, SavedTrue
<1>4. StoreTrue' /\ DOMAIN store' = Registered
  BY DEF StoreTrue, Restart
<1>5. OwnConversation'
  BY DEF HarnessInv, OwnConversation, Restart
<1>6. Grows
  BY <1>1 DEF HarnessInv, IndexTypes, Grows
<1> QED  BY <1>2, <1>3, <1>4, <1>5, <1>6 DEF HarnessInv

LEMMA StateArmSaves ==
  ASSUME HarnessInv, StateArm
  PROVE  SavedTrue'
<1>1. saved' = index /\ recentSaved' = recent /\ convs' = convs
  BY DEF StateArm, harnessVars
<1>2. \A i \in 1..Len(saved') : EntryTrue(convs', saved'[i])
  BY <1>1 DEF HarnessInv, IndexTrue
<1> QED  BY <1>1, <1>2 DEF HarnessInv, IndexTypes, SavedTrue

LEMMA RouteInvStep ==
  ASSUME RouteInv, [RoutingNext]_routingVars
  PROVE  RouteInv' /\ AskedOn
<1>0. HarnessInv /\ ModesValid /\ SavedTrue
  BY DEF RouteInv
<1>1. CASE Route /\ UNCHANGED fileVars
  <2>1. ModesValid' /\ UNCHANGED cwd
    BY <1>1, RouteIs
  <2>2. CASE Prompted
    <3>1. HarnessInv' /\ Grows /\ AskedOn
      BY <1>0, <2>1, <2>2, SendKeeps, SendGoesOn DEF Prompted
    <3>2. SavedTrue'
      BY <1>0, <1>1, <3>1, SavedStays
    <3> QED  BY <2>1, <3>1, <3>2 DEF RouteInv
  <2>3. CASE UNCHANGED harnessVars
    <3>1. HarnessInv' /\ Grows
      BY <1>0, <2>1, <2>3, HarnessStays
    <3>2. SavedTrue'
      BY <1>0, <1>1, <3>1, SavedStays
    <3> QED  BY <2>1, <2>3, <3>1, <3>2 DEF RouteInv, AskedOn, harnessVars
  <2> QED  BY <1>1, <2>2, <2>3, RouteIs
<1>2. CASE TerminalExits /\ UNCHANGED fileVars
  <2>1. UNCHANGED <<harnessVars, cwd>> /\ ModesValid'
    BY <1>0, <1>2, ModesAfter DEF TerminalExits
  <2>2. HarnessInv' /\ Grows
    BY <1>0, <2>1, HarnessStays
  <2>3. SavedTrue'
    BY <1>0, <1>2, <2>2, SavedStays
  <2> QED  BY <2>1, <2>2, <2>3 DEF RouteInv, AskedOn, harnessVars
<1>3. CASE Restart
  <2>1. HarnessInv' /\ Grows /\ ModesValid' /\ asked' = asked /\ UNCHANGED fileVars
    BY <1>0, <1>3, RestartKeeps, ModesAfter DEF Restart
  <2>2. SavedTrue'
    BY <1>0, <2>1, SavedStays
  <2> QED  BY <2>1, <2>2 DEF RouteInv, AskedOn
<1>4. CASE StateArm
  <2>1. UNCHANGED <<harnessVars, cwd>> /\ ModesValid'
    BY <1>0, <1>4, ModesAfter DEF StateArm, terminalVars
  <2>2. HarnessInv' /\ SavedTrue'
    BY <1>0, <1>4, <2>1, HarnessStays, StateArmSaves
  <2> QED  BY <2>1, <2>2 DEF RouteInv, AskedOn, harnessVars
<1>5. CASE UNCHANGED routingVars
  <2>1. UNCHANGED <<harnessVars, cwd>> /\ UNCHANGED fileVars /\ ModesValid'
    BY <1>0, <1>5, ModesAfter DEF routingVars, terminalVars
  <2>2. HarnessInv' /\ Grows
    BY <1>0, <2>1, HarnessStays
  <2>3. SavedTrue'
    BY <1>0, <2>1, <2>2, SavedStays
  <2> QED  BY <2>1, <2>2, <2>3 DEF RouteInv, AskedOn, harnessVars
<1> QED  BY <1>1, <1>2, <1>3, <1>4, <1>5 DEF RoutingNext

LEMMA SeqWidens ==
  ASSUME NEW S, NEW T, NEW s \in Seq(S), S \subseteq T
  PROVE  s \in Seq(T)
  OBVIOUS

LEMMA SeqElement ==
  ASSUME NEW S, NEW s, s \in Seq(S), NEW i \in 1..Len(s)
  PROVE  s[i] \in S
  OBVIOUS

OldEntry == [key : STRING, sid : 0..Len(OldConvs), cwd : Dirs]

LEMMA RouteInvStart ==
  ASSUME RoutingInit
  PROVE  RouteInv
<1>1. /\ convs = OldConvs /\ OldConvs \in Seq(Convs) /\ recent = <<>> /\ cwd \in Dirs
      /\ mode = <<>> /\ store = [k \in Registered |-> <<>>] /\ asked.resume = 0
      /\ index \in Seq(OldEntry)
      /\ \A i \in DOMAIN index : index[i].sid # 0 => OldConvs[index[i].sid].cwd = index[i].cwd
      /\ \A i, j \in DOMAIN index : index[i].key = index[j].key => i = j
      /\ saved = index /\ recentSaved = recent
  BY IndexesAssumption DEF RoutingInit, Start, NotAsked, Convs, OldEntry
<1>2. DOMAIN index = 1..Len(index) /\ Len(OldConvs) \in Nat /\ recent \in Seq(NamedUses)
      /\ Len(recent) = 0 /\ Len(index) \in Nat
  BY <1>1, OldLength
<1>3. index \in Seq(AnyEntry)
  <2>1. OldEntry \subseteq AnyEntry
    BY <1>2 DEF AnyEntry, Keys, OldEntry
  <2>2. index \in Seq(OldEntry)
    BY <1>1
  <2> QED  BY <2>1, <2>2, SeqWidens
<1>4. IndexTypes /\ Unique(index) /\ EndsWith(index, recent) /\ Len(recent) <= MaxNamed
  BY <1>1, <1>2, <1>3, RegistryAssumption DEF IndexTypes, Unique, EndsWith
<1>5. ASSUME NEW i \in 1..Len(index)
      PROVE  EntryTrue(convs, index[i])
  <2>1. index[i].sid \in 0..Len(OldConvs)
    <3>1. index[i] \in OldEntry
      <4>1. index \in Seq(OldEntry)
        BY <1>1
      <4> QED  BY <4>1, SeqElement
    <3> QED  BY <3>1 DEF OldEntry
  <2> QED  BY <1>1, <1>2, <2>1 DEF EntryTrue, Begun, Owns
<1>6. IndexTrue /\ StoreTrue /\ OwnConversation /\ DOMAIN store = Registered
  BY <1>1, <1>5 DEF IndexTrue, StoreTrue, OwnConversation
<1>7. ModesValid
  BY <1>1 DEF ModesValid, Terminals
<1>8. HarnessInv
  BY <1>4, <1>6 DEF HarnessInv
<1>9. SavedTrue
  BY <1>1, <1>2, <1>3, <1>4, <1>5 DEF SavedTrue
<1> QED  BY <1>7, <1>8, <1>9 DEF RouteInv

(* A back end is only ever asked to go on with a conversation of its own,  *)
(* in the directory where that was begun: the index, the memory of the     *)
(* back ends and the names in the modes of the terminals say nothing else. *)
THEOREM ConversationIsOwn == RoutingSpec => []OwnConversation
<1>1. RoutingInit => RouteInv
  BY RouteInvStart
<1>2. RouteInv /\ [RoutingNext]_routingVars => RouteInv'
  BY RouteInvStep
<1>3. RouteInv => OwnConversation
  BY DEF RouteInv, HarnessInv
<1> QED  BY <1>1, <1>2, <1>3, PTL DEF RoutingSpec

(* A prompt under the name of one of the MaxNamed sessions that were used  *)
(* last goes on with what answered last under that name: those sessions    *)
(* are the end of the index, which has a key only once, in memory and in   *)
(* the state file, to which a restart goes back, whatever it has not got.  *)
THEOREM NamedContinue == RoutingSpec => Continues
<1>1. RoutingInit => RouteInv
  BY RouteInvStart
<1>2. RouteInv /\ [RoutingNext]_routingVars => RouteInv'
  BY RouteInvStep
<1>3. RouteInv /\ [RoutingNext]_routingVars =>
        [asked'.odd # asked.odd /\ asked'.name # "" =>
           \A i \in DOMAIN recent :
             recent[i].kind = asked'.kind /\ recent[i].name = asked'.name =>
               asked'.resume = recent[i].sid]_routingVars
  BY RouteInvStep DEF AskedOn
<1> QED  BY <1>1, <1>2, <1>3, PTL DEF RoutingSpec, Continues
==============================================================================
