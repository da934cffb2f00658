--------------------------- MODULE MCHarnessSessions ---------------------------
(***************************************************************************)
(* HarnessSessions on small instances.                                     *)
(***************************************************************************)
EXTENDS HarnessSessions

Says(s) == Message(TRUE, Words(s), TRUE)

(* Terminals, modes, named sessions of three harnesses, and everything     *)
(* that only answers.                                                      *)
MCMessages ==
  {Says(<<"new", "t">>), Says(<<"bg">>), Says(<<"fg", "t">>), Says(<<"kill", "t">>),
   Says(<<"claude", "on", "--name", "a">>), Says(<<"codex", "on", "--resume", "a", "go">>),
   Says(<<"claude", "off">>), Message(FALSE, Words(<<"hello">>), TRUE),
   Message(FALSE, Words(<<"rm">>), TRUE),
   Says(<<"codex", "--name", "a", "fix">>), Says(<<"claude", "--resume", "b", "fix">>),
   Says(<<"claude", "-n", "b", "fix">>), Says(<<"claude", "--name", "codex:a", "fix">>),
   Says(<<"opencode", "--resume", "a", "--fork", "fix">>),
   Says(<<"opencode", "models">>), Says(<<"codex", "cloud", "diff">>), Says(<<"codex", "cloud", "list">>),
   Says(<<"gemini", "extensions", "x">>), Says(<<"gemini", "sessions">>), Says(<<"claude", "on", "now">>),
   Says(<<"opencode", "export">>), Says(<<"codex", "login">>), Says(<<"codex", "--continue">>),
   Says(<<"list">>), Says(<<"ls">>), Message(TRUE, Words(<<"ls", "cd">>), FALSE)}

(* What an older version left: a bare name, and an entry that never got    *)
(* its conversation.                                                       *)
MCIndexes == {<<Entry("a", 1, "d1"), Entry("claude:b", 0, "d2")>>}
MCOldConvs == <<[kind |-> "claude", cwd |-> "d1"]>>

(* Flags of every kind and in every form.                                  *)
MCGroups ==
  {<<Word("--name"), Word("a")>>, <<Flag("--name", "a")>>, <<Word("-n"), Word("b")>>,
   <<Word("--resume"), Word("b")>>, <<Word("--continue")>>, <<Word("--continue"), Word("a")>>,
   <<Flag("--continue", "a")>>, <<Word("-m"), Word("opus")>>, <<Word("--effort"), Word("high")>>,
   <<Flag("--max-turns", "0")>>, <<Word("--share")>>, <<Word("--fork")>>, <<Word("--pure")>>,
   <<Word("--sandbox"), Word("read-only")>>, <<Word("--approval-mode"), Word("on-request")>>}

MCPrompts == {<<>>, Words(<<"fix">>), Words(<<"a", "fix", "--name", "b">>)}
==============================================================================
