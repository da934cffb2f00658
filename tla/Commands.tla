------------------------------ MODULE Commands ------------------------------
(***************************************************************************)
(* The command language of the chats (command.rs): ParsedCommand::parse,   *)
(* the splitter of leading flags from a prompt and the parser of the       *)
(* flags.                                                                  *)
(*                                                                         *)
(* A message is its text as words, after the trigger or without one; words *)
(* are those of shell_tokenize, em-dashes already two hyphens.  A token of *)
(* the form --flag=value has its value in eq.  Which error a bad command   *)
(* gets is only wording: there is one.                                     *)
(***************************************************************************)
EXTENDS Integers, Sequences, FiniteSets, SequencesExt

CONSTANT ValidNames  \* the names the validators accept: letters, digits, - and _, at most 64

HarnessKinds == {"claude", "gemini", "codex", "opencode"}

NoEq == "(none)"
Word(w) == [w |-> w, eq |-> NoEq]
Flag(f, v) == [w |-> f, eq |-> v]
Words(s) == [i \in DOMAIN s |-> Word(s[i])]

(* Mutant: a name may have a colon in it.                                  *)
ValidNameOrKey(name) ==
  name \in ValidNames \union {k \o ":" \o n : k \in HarnessKinds, n \in ValidNames}

(* validate_session_name and validate_harness_session_name.                *)
ValidName(name) == name \in ValidNames

------------------------------------------------------------------------------
(* The flags, the harnesses that have them, and the values they take.      *)
BooleanFlags == {"--share", "--pure", "--fork"}

FlagKinds ==
  [f \in {"--model", "--schema", "--name", "--resume", "--continue"} |-> HarnessKinds]
    @@ [f \in {"--add-dir"} |-> {"claude", "codex"}]
    @@ [f \in {"--effort", "--system-prompt", "--append-system-prompt", "--max-turns",
               "--settings", "--mcp-config", "--permission-mode"} |-> {"claude"}]
    @@ [f \in {"--title", "--agent"} \union BooleanFlags |-> {"opencode"}]
    @@ [f \in {"--approval-mode"} |-> {"gemini"}]
    @@ [f \in {"--sandbox", "--profile"} |-> {"codex"}]

ShortFlags ==
  [x \in {"-m", "-e", "-d", "-t", "-p", "-n"} |->
     CASE x = "-m" -> "--model" [] x = "-e" -> "--effort" [] x = "-d" -> "--add-dir"
       [] x = "-t" -> "--max-turns" [] x = "-p" -> "--permission-mode" [] x = "-n" -> "--name"]

Long(w) == IF w \in DOMAIN ShortFlags THEN ShortFlags[w] ELSE w

LegalValues ==
  [f \in {"--effort"} |-> {"low", "medium", "high", "max"}]
    @@ [f \in {"--max-turns"} |-> {"1", "2", "3"}]
    @@ [f \in {"--permission-mode"} |-> {"default", "acceptEdits", "plan", "bypassPermissions"}]
    @@ [f \in {"--approval-mode"} |-> {"default", "auto_edit", "yolo", "plan"}]
    @@ [f \in {"--sandbox"} |-> {"read-only", "workspace-write", "danger-full-access"}]

NameFlags == {"--name", "--resume", "--continue"}

Legal(f, v) ==
  IF f \in NameFlags THEN ValidName(v) ELSE f \in DOMAIN LegalValues => v \in LegalValues[f]

(* Whether a word starts with a hyphen.                                    *)
IsFlag(t) == t.w \in DOMAIN FlagKinds \union DOMAIN ShortFlags \union {"--unknown"}

------------------------------------------------------------------------------
(* split_prompt_options: how many tokens a flag takes, and where the       *)
(* prompt begins.                                                          *)
BareContinue(toks, i) ==
  /\ toks[i] = Word("--continue")
  /\ i < Len(toks) => IsFlag(toks[i + 1])

(* Mutant: a flag without a value was forgotten.                           *)
WidthWithoutFork(toks, i) ==
  IF toks[i].eq # NoEq \/ toks[i].w \in BooleanFlags \ {"--fork"} \/ BareContinue(toks, i)
  THEN 1 ELSE 2

Width(toks, i) ==
  IF toks[i].eq # NoEq \/ toks[i].w \in BooleanFlags \/ BareContinue(toks, i) THEN 1 ELSE 2

FlagEnd(toks) ==
  LET end[i \in 1..(Len(toks) + 2)] ==
        IF i > Len(toks) \/ ~IsFlag(toks[i]) THEN i - 1 ELSE end[i + Width(toks, i)]
  IN  IF end[1] < Len(toks) THEN end[1] ELSE Len(toks)

(* parse_harness_options_tokens, on the flag tokens alone: a flag takes    *)
(* the value behind its =, or the next token (take_value), which must not  *)
(* look like a flag.                                                       *)
TakesNext(ft, i) ==
  ft[i].eq = NoEq /\ Long(ft[i].w) \notin BooleanFlags /\ ~BareContinue(ft, i)

Value(ft, i) ==
  IF TakesNext(ft, i) THEN (IF i < Len(ft) /\ ~IsFlag(ft[i + 1]) THEN ft[i + 1].w ELSE "")
  ELSE ft[i].eq

FlagPositions(ft) ==
  LET from[i \in 1..(Len(ft) + 2)] ==
        IF i > Len(ft) THEN {} ELSE {i} \union from[i + (IF TakesNext(ft, i) THEN 2 ELSE 1)]
  IN  from[1]

Accepted(ft, i, kind) ==
  LET f == Long(ft[i].w) IN
    /\ f \in DOMAIN FlagKinds
    /\ kind \in FlagKinds[f]
    /\ ft[i].w \in DOMAIN ShortFlags => ft[i].eq = NoEq
    /\ f \in BooleanFlags \/ BareContinue(ft, i) \/ (Value(ft, i) # "" /\ Legal(f, Value(ft, i)))

(* HarnessOptions: which flags were given, and the names; last is          *)
(* continue_last.                                                          *)
NoOptions == [given |-> {}, name |-> "", resume |-> "", last |-> FALSE]

IsLast(i, S) == i \in S /\ \A j \in S : j <= i

LastOr(S, ft) == IF \E i \in S : IsLast(i, S) THEN Value(ft, CHOOSE i \in S : IsLast(i, S)) ELSE ""

OptionsOf(ft) ==
  LET at == FlagPositions(ft)
      bare == {i \in at : BareContinue(ft, i)}
  IN  [given  |-> {Long(ft[i].w) : i \in at},
       name   |-> LastOr({i \in at : Long(ft[i].w) = "--name"}, ft),
       resume |-> LastOr({i \in at \ bare : ft[i].w \in {"--resume", "--continue"}}, ft),
       last   |-> bare # {}]

(* Some options exclude each other, and --fork needs a conversation.       *)
Compatible(o) ==
  /\ ~({"--system-prompt", "--append-system-prompt"} \subseteq o.given)
  /\ ~(o.name # "" /\ o.resume # "")
  /\ o.last => o.name = "" /\ o.resume = ""
  /\ "--fork" \in o.given => o.last \/ o.resume # ""

Failed == [ok |-> FALSE, options |-> NoOptions, prompt |-> <<>>]

Split(toks, kind) ==
  LET ft == SubSeq(toks, 1, FlagEnd(toks))
      o  == OptionsOf(ft)
  IN  IF (\A i \in FlagPositions(ft) : Accepted(ft, i, kind)) /\ Compatible(o)
      THEN [ok |-> TRUE, options |-> o, prompt |-> SubSeq(toks, Len(ft) + 1, Len(toks))]
      ELSE Failed

------------------------------------------------------------------------------
(* ParsedCommand.                                                          *)
Command(c, kind, name, options, prompt) ==
  [cmd |-> c, kind |-> kind, name |-> name, options |-> options, prompt |-> prompt]
Plain(c) == Command(c, "", "", NoOptions, <<>>)
Error == Plain("error")

(* new, fg and kill: their name is all of the rest.                        *)
Named(c, args) ==
  IF Len(args) = 1 /\ ValidName(args[1].w) /\ args[1].eq = NoEq
  THEN Command(c, "", args[1].w, NoOptions, <<>>) ELSE Error

(* The subcommands that are passed through, with the number of their words *)
(* and whether an argument may, must or must not follow.                   *)
Sub(words, args) == [words |-> words, args |-> args]

OpencodeSubcommands ==
  {Sub(<<w>>, "any") : w \in {"models", "stats", "sessions", "providers"}}
    \union {Sub(<<"export">>, "some")}
    \union {Sub(<<w, v>>, "any") : w \in {"session", "auth"}, v \in {"list", "ls"}}

OpencodeBlocked ==
  {"uninstall", "upgrade", "auth", "session", "login", "logout", "serve", "web", "acp", "attach",
   "import", "mcp", "agent", "github", "debug", "tui"}

(* Followed by anything it is no subcommand.                               *)
GeminiSubcommands == {Sub(<<w>>, "alone") : w \in {"sessions", "extensions"}}
GeminiBlocked == {"update", "mcp", "extensions", "skills", "hooks"}

CodexSubcommands ==
  {Sub(<<"sessions">>, "none"), Sub(<<"apply">>, "some")}
    \union {Sub(<<"cloud", w>>, "any") : w \in {"list", "exec"}}
    \union {Sub(<<"cloud", w>>, "some") : w \in {"status", "diff", "apply"}}

CodexBlocked ==
  {"login", "logout", "mcp", "mcp-server", "app", "app-server", "exec-server", "plugin",
   "completion", "features", "debug", "sandbox", "review", "resume", "fork", "cloud"}

Subcommands(kind) ==
  CASE kind = "opencode" -> OpencodeSubcommands
    [] kind = "gemini" -> GeminiSubcommands
    [] kind = "codex" -> CodexSubcommands
    [] OTHER -> {}

BlockedWords(kind) ==
  CASE kind = "opencode" -> OpencodeBlocked
    [] kind = "gemini" -> GeminiBlocked
    [] kind = "codex" -> CodexBlocked
    [] OTHER -> {}

Matches(s, args) ==
  /\ IsPrefix(Words(s.words), args)
  /\ s.args = "alone" => Len(args) = Len(s.words)

Passes(s, args) ==
  /\ s.args = "some" => Len(args) > Len(s.words)
  /\ s.args = "none" => Len(args) = Len(s.words)

HarnessPrompt(kind, args) ==
  LET r == Split(args, kind) IN
    IF r.ok THEN Command("prompt", kind, "", r.options, r.prompt) ELSE Error

(* on takes flags and then perhaps a prompt, but no prompt alone.          *)
HarnessOn(kind, args) ==
  LET r == Split(args, kind) IN
    IF args = <<>> THEN Command("on", kind, "", NoOptions, <<>>)
    ELSE IF r.ok /\ r.options # NoOptions THEN Command("on", kind, "", r.options, r.prompt)
    ELSE Error

Harness(kind, args) ==
  IF args[1] = Word("on") THEN HarnessOn(kind, Tail(args))
  ELSE IF args = <<Word("off")>> THEN Command("off", kind, "", NoOptions, <<>>)
  ELSE LET subs == {s \in Subcommands(kind) : Matches(s, args)} IN
         IF subs # {}
         THEN IF \A s \in subs : Passes(s, args)
              THEN Command("subcommand", kind, "", NoOptions, <<>>) ELSE Error
         ELSE IF args[1].w \in BlockedWords(kind) THEN Error
         ELSE HarnessPrompt(kind, args)

(* A message: with the trigger or without, its words, one line or several. *)
Message(trigger, words, oneLine) == [trigger |-> trigger, words |-> words, oneLine |-> oneLine]

(* What begins with no command is a shell command, of one line.            *)
Shell(m) == IF m.oneLine THEN Plain("shell") ELSE Error

Parse(m) ==
  LET first == m.words[1].w
      args  == Tail(m.words)
  IN  IF ~m.trigger THEN Command("stdin", "", "", NoOptions, m.words)
      ELSE IF m.words = <<>> THEN Error
      ELSE IF first \in {"new", "fg", "kill"} THEN Named(first, args)
      ELSE IF first \in {"bg", "list", "screen"} /\ args = <<>> THEN Plain(first)
      ELSE IF first \in HarnessKinds /\ args # <<>> THEN Harness(first, args)
      ELSE Shell(m)
==============================================================================
