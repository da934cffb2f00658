--------------------------- MODULE HarnessSessions ---------------------------
(***************************************************************************)
(* Which conversation of which back end a message goes to: the dispatch of *)
(* commands (command_router.rs), the harness mode of the terminals         *)
(* (session.rs), the index of named sessions (harness_registry.rs) and the *)
(* back ends' own memory of the terminals' conversations (SessionStore).   *)
(*                                                                         *)
(* The main loop routes one command at a time and waits for the turn       *)
(* (HarnessTurn) to end, so a turn is one step here.  A conversation is    *)
(* the number under which it was begun, 0 is none.  The notes that tell    *)
(* the chat which session it is in, and named_session_resolved, which only *)
(* keeps them from being repeated, are left out; what becomes of terminal  *)
(* sessions and their output is in Sessions, of the state file in          *)
(* StatePersistence.                                                       *)
(***************************************************************************)
EXTENDS Commands

CONSTANTS
  Registered, \* the harnesses that are registered
  Messages,   \* what is typed in the chats
  Blocked,    \* words on the command blocklist
  Dirs,       \* directories the program is started in
  MaxNamed,   \* max_named_sessions
  Indexes,    \* the index an older version may have left in the state file
  OldConvs,   \* the conversations it is about
  MaxConvs,   \* bound on the number of conversations
  Groups,     \* flags as they are written, for PromptWhole
  Prompts     \* and prompts

ASSUME RegistryAssumption ==
  /\ Registered \subseteq HarnessKinds /\ MaxNamed \in Nat \ {0} /\ MaxConvs \in Nat
  /\ \A m \in Messages : m.words \in Seq([w : STRING, eq : STRING])

VARIABLES
  fg,       \* the foreground terminal, or None
  mode,     \* terminal -> the harness it is in and its options; absent when there is no terminal
  index,    \* named_sessions, the least recently used entry first
  store,    \* SessionStore of each back end: terminal -> conversation
  cwd,      \* the directory of the process
  convs,    \* the conversations the back ends have begun: harness and directory
  asked,    \* the last request to a back end
  recent,   \* history: the named sessions that were used and persisted, the latest last
  saved,    \* harness_sessions of the state file
  recentSaved \* history: recent when that was written

terminalVars == <<fg, mode>>
harnessVars == <<index, store, convs, asked, recent>>
fileVars == <<saved, recentSaved>>
routingVars == <<terminalVars, harnessVars, cwd, fileVars>>

None == "default"
Terminals == DOMAIN mode
Off == [kind |-> "off", options |-> NoOptions]
Current == IF fg \in Terminals THEN mode[fg] ELSE Off

(* A map with an entry more, or a new one in place of the old.             *)
With(f, x, y) == [z \in DOMAIN f \union {x} |-> IF z = x THEN y ELSE f[z]]

Entry(key, sid, dir) == [key |-> key, sid |-> sid, cwd |-> dir]
NoEntry == Entry("", 0, "")

(* An older version wrote down where its conversations were begun, and the *)
(* index has a key only once.                                              *)
ASSUME IndexesAssumption ==
  /\ OldConvs \in Seq([kind : HarnessKinds, cwd : Dirs])
  /\ \A old \in Indexes :
       /\ old \in Seq([key : STRING, sid : 0..Len(OldConvs), cwd : Dirs])
       /\ \A i \in DOMAIN old : old[i].sid # 0 => OldConvs[old[i].sid].cwd = old[i].cwd
       /\ \A i, j \in DOMAIN old : old[i].key = old[j].key => i = j

NotAsked == [kind |-> "", name |-> "", resume |-> 0, last |-> FALSE, cwd |-> "", odd |-> FALSE]

Start ==
  /\ fg = None /\ mode = <<>>
  /\ store = [k \in Registered |-> <<>>]
  /\ cwd \in Dirs

RoutingInit ==
  /\ Start
  /\ index \in Indexes /\ convs = OldConvs /\ recent = <<>> /\ asked = NotAsked
  /\ saved = index /\ recentSaved = recent

------------------------------------------------------------------------------
(* The index.                                                              *)
SessionKey(kind, name) == kind \o ":" \o name

(* A valid name has no colon: no two sessions have the same key, and none  *)
(* has an older key.                                                       *)
ASSUME KeysAssumption ==
  \A k, l \in HarnessKinds, n, m \in ValidNames :
    SessionKey(k, n) # m /\ (SessionKey(k, n) = SessionKey(l, m) => k = l /\ n = m)

Entries(key) == {e \in ToSet(index) : e.key = key}

(* lookup_named_session: the key of the harness, then the bare name of an  *)
(* older version.                                                          *)
LookUp(kind, name) ==
  LET own   == Entries(SessionKey(kind, name))
      found == IF own # {} THEN own ELSE Entries(name)
  IN  IF found = {} THEN NoEntry ELSE CHOOSE e \in found : TRUE

(* A list in order of use: what is used goes to the end.                   *)
Skipping(list, used) == IF used = {} THEN list ELSE RemoveAt(list, CHOOSE i \in used : TRUE)

Keyed(key) == {i \in DOMAIN index : index[i].key = key}

Evicts(key) == Keyed(key) = {} /\ Len(index) >= MaxNamed

(* Mutant: the newest entry goes.                                          *)
PersistedForNewest(entry) ==
  Append(IF Evicts(entry.key) THEN Front(index) ELSE Skipping(index, Keyed(entry.key)), entry)

(* persist_named_session: a full index loses the entry that was not used   *)
(* for the longest time.                                                   *)
Persisted(entry) ==
  Append(IF Evicts(entry.key) THEN Tail(index) ELSE Skipping(index, Keyed(entry.key)), entry)

(* The MaxNamed sessions that were used last.                              *)
Remember(kind, name, sid) ==
  LET used == {i \in DOMAIN recent : recent[i].kind = kind /\ recent[i].name = name}
      all  == Append(Skipping(recent, used), [kind |-> kind, name |-> name, sid |-> sid])
  IN  recent' = IF Len(all) > MaxNamed THEN Tail(all) ELSE all

------------------------------------------------------------------------------
(* The back ends.  They are asked to go on with a conversation, or with    *)
(* their last one, or to begin one.                                        *)
Ask(kind, name, resume, options, dir) ==
  asked' = [kind |-> kind, name |-> name, resume |-> resume,
            last |-> options.last /\ resume = 0, cwd |-> dir, odd |-> ~asked.odd]

Begins(kind, dir) == Append(convs, [kind |-> kind, cwd |-> dir])

(* The conversation a turn reports when it is done: the one it was asked   *)
(* for, unless the turn forks it; a new one; 0 for a turn that failed.     *)
Answers(kind, resume, options, dir, sid) ==
  \/ sid = 0 /\ UNCHANGED convs
  \/ /\ resume # 0 /\ "--fork" \notin options.given
     /\ sid = resume /\ UNCHANGED convs
  \/ /\ resume = 0 /\ options.last
     /\ sid \in {c \in DOMAIN convs : convs[c].kind = kind /\ convs[c].cwd = dir}
     /\ UNCHANGED convs
  \/ /\ resume = 0 \/ "--fork" \in options.given
     /\ Len(convs) < MaxConvs
     /\ sid = Len(convs) + 1 /\ convs' = Begins(kind, dir)

Answered == 0..MaxConvs

(* After the turn: a named session is persisted with the conversation that *)
(* answered, or with the one it had, if the state channel takes it within  *)
(* five seconds; otherwise the index stays as it was.                      *)
KeepNamed(kind, name, dir, sid) ==
  LET effective == IF sid # 0 THEN sid ELSE LookUp(kind, name).sid IN
    \/ /\ effective # 0
       /\ index' = Persisted(Entry(SessionKey(kind, name), effective, dir))
       /\ Remember(kind, name, effective)
    \/ UNCHANGED <<index, recent>>

PromptNamed(kind, name, resume, options, dir) ==
  /\ Ask(kind, name, resume, options, dir)
  /\ \/ UNCHANGED <<convs, index, recent>>  \* run_prompt refuses it
     \/ \E sid \in Answered :
          /\ Answers(kind, resume, options, dir, sid)
          /\ KeepNamed(kind, name, dir, sid)
  /\ UNCHANGED store

(* --resume wants a session that is there.                                 *)
PromptResume(kind, options) ==
  LET e == LookUp(kind, options.resume) IN
    /\ options.resume # "" /\ e.sid # 0
    /\ PromptNamed(kind, options.resume, e.sid, options, e.cwd)

(* Mutant: a session is resumed wherever the program happens to be.        *)
PromptNameHere(kind, options) ==
  LET e == LookUp(kind, options.name) IN
    /\ options.resume = "" /\ options.name # ""
    /\ PromptNamed(kind, options.name, e.sid, options, cwd)

(* --name goes on with the session that is there, or begins one here.      *)
PromptName(kind, options) ==
  LET e == LookUp(kind, options.name) IN
    /\ options.resume = "" /\ options.name # ""
    /\ IF e.sid # 0 THEN PromptNamed(kind, options.name, e.sid, options, e.cwd)
                    ELSE PromptNamed(kind, options.name, 0, options, cwd)

(* Without a name the terminal's own conversation is meant.                *)
PromptImplicit(kind, options) ==
  LET resume == IF fg \in DOMAIN store[kind] THEN store[kind][fg] ELSE 0 IN
    /\ options.resume = "" /\ options.name = ""
    /\ Ask(kind, "", resume, options, cwd)
    /\ \E sid \in Answered :
         /\ Answers(kind, resume, options, cwd, sid)
         /\ store' = IF sid = 0 THEN store
                     ELSE [store EXCEPT ![kind] = With(@, fg, sid)]
    /\ UNCHANGED <<index, recent>>

NoSuchSession(kind, options) ==
  /\ options.resume # "" /\ LookUp(kind, options.resume).sid = 0
  /\ UNCHANGED harnessVars

(* send_harness_prompt.                                                    *)
SendHarnessPrompt(kind, options) ==
  /\ kind \in Registered
  /\ \/ NoSuchSession(kind, options)
     \/ PromptResume(kind, options) \/ PromptName(kind, options) \/ PromptImplicit(kind, options)

------------------------------------------------------------------------------
(* The commands.  One that can do nothing is answered with an error.       *)
IsBlocked(words) == \E i \in DOMAIN words : words[i].w \in Blocked

New(c) ==
  /\ c.cmd = "new" /\ c.name \notin Terminals
  /\ fg' = c.name /\ mode' = With(mode, c.name, Off)
  /\ UNCHANGED <<harnessVars, cwd>>

Foreground(c) ==
  /\ c.cmd = "fg" /\ c.name \in Terminals
  /\ fg' = c.name
  /\ UNCHANGED <<mode, harnessVars, cwd>>

Background(c) ==
  /\ c.cmd = "bg"
  /\ fg' = None
  /\ UNCHANGED <<mode, harnessVars, cwd>>

Dropped(t) == [u \in Terminals \ {t} |-> mode[u]]

(* The back ends keep the conversation of a terminal that is killed.       *)
Kill(c) ==
  /\ c.cmd = "kill" /\ c.name \in Terminals
  /\ mode' = Dropped(c.name) /\ fg' = IF fg = c.name THEN None ELSE fg
  /\ UNCHANGED <<harnessVars, cwd>>

(* handle_harness_on: a --resume of a session that is not there changes    *)
(* nothing.                                                                *)
CanActivate(c) ==
  /\ c.kind \in Registered /\ fg \in Terminals
  /\ c.options.resume # "" => LookUp(c.kind, c.options.resume).sid # 0

Activate(c) ==
  /\ c.cmd = "on" /\ CanActivate(c)
  /\ mode' = [mode EXCEPT ![fg] = [kind |-> c.kind, options |-> c.options]]
  /\ IF c.prompt = <<>> THEN UNCHANGED harnessVars ELSE SendHarnessPrompt(c.kind, c.options)
  /\ UNCHANGED <<fg, cwd>>

Deactivate(c) ==
  /\ c.cmd = "off" /\ fg \in Terminals /\ mode[fg].kind = c.kind
  /\ mode' = [mode EXCEPT ![fg] = Off]
  /\ UNCHANGED <<fg, harnessVars, cwd>>

(* A prompt by command, with its own options.                              *)
OneShot(c) ==
  /\ c.cmd = "prompt" /\ ~IsBlocked(c.prompt)
  /\ SendHarnessPrompt(c.kind, c.options)
  /\ UNCHANGED <<terminalVars, cwd>>

(* Plain text in harness mode, with the options of the mode.               *)
PlainText(c) ==
  /\ c.cmd = "stdin" /\ ~IsBlocked(c.prompt) /\ Current.kind # "off"
  /\ SendHarnessPrompt(Current.kind, Current.options)
  /\ UNCHANGED <<terminalVars, cwd>>

(* Errors, and what is none of the harnesses' business.                    *)
Elsewhere(c) ==
  /\ \/ c.cmd \in {"error", "list", "screen", "shell", "subcommand"}
     \/ c.cmd \in {"prompt", "stdin"} /\ IsBlocked(c.prompt)
     \/ c.cmd = "stdin" /\ Current.kind = "off"
     \/ c.cmd = "on" /\ ~CanActivate(c)
  /\ UNCHANGED <<terminalVars, harnessVars, cwd>>

Commanded == {Parse(m) : m \in Messages}

Route ==
  \E c \in Commanded :
    \/ New(c) \/ Foreground(c) \/ Background(c) \/ Kill(c)
    \/ Activate(c) \/ Deactivate(c) \/ OneShot(c) \/ PlainText(c) \/ Elsewhere(c)

(* health_check finds a terminal gone.                                     *)
TerminalExits ==
  /\ \E t \in Terminals : mode' = Dropped(t) /\ fg' = IF fg = t THEN None ELSE fg
  /\ UNCHANGED <<harnessVars, cwd>>

(* The state arm of the main loop has applied the batches the channel had  *)
(* accepted and written the file.  Until then, and when the write fails,   *)
(* the file is behind the index (StatePersistence).                        *)
StateArm ==
  /\ saved' = index /\ recentSaved' = recent
  /\ UNCHANGED <<terminalVars, harnessVars, cwd>>

(* A stop or a crash at any time, and a start, perhaps from another        *)
(* directory: App::new has the index from the state file; what was still   *)
(* in the channel and the memory of the back ends are gone; the terminals  *)
(* come back without a mode, the first that tmux lists in the foreground.  *)
Restart ==
  /\ cwd' \in Dirs
  /\ mode' = [t \in Terminals |-> Off]
  /\ fg' \in IF Terminals = {} THEN {None} ELSE Terminals
  /\ store' = [k \in Registered |-> <<>>]
  /\ index' = saved /\ recent' = recentSaved
  /\ UNCHANGED <<convs, asked, fileVars>>

RoutingNext ==
  \/ (Route \/ TerminalExits) /\ UNCHANGED fileVars
  \/ StateArm \/ Restart

RoutingSpec == RoutingInit /\ [][RoutingNext]_routingVars

------------------------------------------------------------------------------
RoutingTypeOK ==
  /\ fg \in Terminals \union {None}
  /\ \A t \in Terminals : mode[t].kind \in Registered \union {"off"}
  /\ \A i \in DOMAIN index : index[i].sid \in 0..Len(convs) /\ index[i].cwd \in Dirs
  /\ \A k \in Registered : \A t \in DOMAIN store[k] : store[k][t] \in 1..Len(convs)
  /\ cwd \in Dirs /\ asked.resume \in 0..Len(convs)

(* A back end is only ever asked to go on with a conversation of its own,  *)
(* and in the directory in which that was begun, through names used with   *)
(* several harnesses, evictions, forks and restarts elsewhere ("distinct   *)
(* conversations", build_session_key).  Entries of an older version do not *)
(* say whose they are.                                                     *)
OwnConversation ==
  asked.resume # 0 =>
    /\ convs[asked.resume].cwd = asked.cwd
    /\ asked.resume \in DOMAIN OldConvs \/ convs[asked.resume].kind = asked.kind

(* A prompt under the name of a session that was kept, with at most        *)
(* MaxNamed - 1 others used since, goes on with the conversation that      *)
(* answered last under this name, whatever was said without a name, failed *)
(* or was refused in between.  A restart takes the names back to what the  *)
(* state file had, and from there it holds as before: what the file had    *)
(* not got is forgotten, whether or not the channel had accepted it.       *)
Continues ==
  [][asked'.odd # asked.odd /\ asked'.name # "" =>
       \A i \in DOMAIN recent :
         recent[i].kind = asked'.kind /\ recent[i].name = asked'.name =>
           asked'.resume = recent[i].sid]_routingVars

(* What a user writes is flags, each with its value in one of the forms    *)
(* that the documentation gives, and then the prompt.                      *)
IsBare(g) == g = <<Word("--continue")>>
ValueOf(g) == IF Len(g) = 2 THEN g[2].w ELSE IF g[1].eq = NoEq THEN "" ELSE g[1].eq

Meant(gs) ==
  LET of(flags) == {i \in DOMAIN gs : Long(gs[i][1].w) \in flags /\ ~IsBare(gs[i])}
      last(S) == IF S = {} THEN "" ELSE ValueOf(gs[CHOOSE i \in S : \A j \in S : j <= i])
  IN  [given  |-> {Long(gs[i][1].w) : i \in DOMAIN gs},
       name   |-> last(of({"--name"})),
       resume |-> last(of({"--resume", "--continue"})),
       last   |-> \E i \in DOMAIN gs : IsBare(gs[i])]

Allowed(gs, kind) ==
  /\ \A i \in DOMAIN gs :
       LET f == Long(gs[i][1].w) IN
         /\ kind \in FlagKinds[f]
         /\ ValueOf(gs[i]) # "" => Legal(f, ValueOf(gs[i]))
  /\ Compatible(Meant(gs))

FlagsFaithful ==
  \A kind \in HarnessKinds, gs \in BoundedSeq(Groups, 3), p \in Prompts :
    (gs # <<>> /\ IsBare(Last(gs)) => p = <<>>) =>
      LET r == Split(FlattenSeq(gs) \o p, kind) IN
        /\ r.ok <=> Allowed(gs, kind)
        /\ r.ok => r.options = Meant(gs) /\ r.prompt = p

(* The two passes over the flags, the splitter that only counts tokens and *)
(* the parser that consumes values, cut at the same place: no word of the  *)
(* prompt is taken for an option or lost, no option lands in the prompt,   *)
(* and whether the options are accepted does not depend on the prompt.  A  *)
(* --continue right before the prompt has its first word for a name.  This *)
(* is a fact about the operators, looked at before anything is asked.      *)
PromptWhole == asked = NotAsked => FlagsFaithful
==============================================================================
