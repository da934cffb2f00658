----------------------------- MODULE MCHarnessTurn -----------------------------
(***************************************************************************)
(* HarnessTurn on small instances.                                         *)
(***************************************************************************)
EXTENDS HarnessTurn

(* Two calls, of different tools.                                          *)
MCToolOf == <<"Bash", "Read">>

MCMaxLines == [codex |-> 3, gemini |-> 3, opencode |-> 3, claude |-> 2]

(* What each back end refuses, and what it runs.                           *)
MCRequests ==
  {<<"codex", "plain", "image">>, <<"codex", "hook", "none">>, <<"codex", "bad", "image">>,
   <<"codex", "none", "file">>, <<"gemini", "none", "none">>, <<"gemini", "plain", "none">>,
   <<"gemini", "none", "image">>, <<"opencode", "none", "file">>, <<"opencode", "hook", "file">>,
   <<"claude", "hook", "file">>, <<"claude", "bad", "image">>}

MCOpencode == {<<"opencode", "none", "none">>}
==============================================================================
