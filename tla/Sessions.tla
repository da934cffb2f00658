------------------------------- MODULE Sessions -------------------------------
(***************************************************************************)
(* Terminal sessions: the sessions terminus tracks and the one in the      *)
(* foreground (session.rs), the buffer of each, which tells the chat what  *)
(* the pane shows beyond an anchor (buffer.rs), and the commands and ticks *)
(* of the main loop that use them (command_router.rs, app.rs).  The tmux   *)
(* sessions live on their own: they print, scroll, exit, and outlive the   *)
(* process.                                                                *)
(*                                                                         *)
(* The lines of a pane are numbered as they are printed; the pane shows    *)
(* those after top up to bottom.  A line is output, or noise: a prompt, an *)
(* echo or a blank.                                                        *)
(***************************************************************************)
EXTENDS Naturals, FiniteSets

CONSTANTS Names,       \* session names
          NoName,      \* there is no foreground session
          MaxSessions, \* max_sessions
          MaxSuffix,   \* MAX_SUFFIX_LINES, what one poll reads at most
          MaxPrinted   \* bound on the lines all sessions print

ASSUME NamesAssumption == NoName \notin Names /\ IsFiniteSet(Names)
ASSUME BoundsAssumption == MaxSessions \in Nat /\ MaxSuffix \in Nat \ {0} /\ MaxPrinted \in Nat

VARIABLES
  run,        \* the process: "up" or "down"
  alive,      \* the tmux sessions
  top,        \* lines that have left each pane
  bottom,     \* lines printed in each pane
  printed,    \* lines printed in all
  output,     \* the lines among them that are output
  sessions,   \* the keys of SessionManager.sessions
  status,     \* "fg" or "bg", of each of them
  foreground, \* SessionManager.foreground
  buffers,    \* the keys of App.buffers
  anchor,     \* of each buffer: lines of the pane before its new output
  waiting,    \* of each buffer: waiting_for_output
  from,       \* the last line before the latest command, as far as captured
  told,       \* the lines that were told, of each session not disturbed
  repeated,   \* sessions of which a line was told again
  disturbed   \* sessions that scrolled, or were found and not captured

tmuxVars == <<alive, top, bottom, output, printed>>
mgrVars  == <<sessions, status, foreground>>
bufVars  == <<buffers, anchor, waiting, from>>
tellVars == <<told, repeated>>
sessionVars == <<run, tmuxVars, mgrVars, bufVars, tellVars, disturbed>>

Numbers == 1..MaxPrinted

(* What capture_pane_with_scrollback counts.                               *)
Lines(n) == bottom[n] - top[n]

SessionsInit ==
  /\ run = "down"
  /\ alive \in SUBSET Names
  /\ top = [n \in Names |-> 0] /\ bottom = [n \in Names |-> 0]
  /\ output = [n \in Names |-> {}] /\ printed = 0
  /\ sessions = {} /\ status = [n \in Names |-> "bg"] /\ foreground = NoName
  /\ buffers = {} /\ anchor = [n \in Names |-> 0] /\ waiting = [n \in Names |-> FALSE]
  /\ from = [n \in Names |-> 0]
  /\ told = [n \in Names |-> {}] /\ repeated = {} /\ disturbed = {}

------------------------------------------------------------------------------
(* tmux.                                                                   *)
Prints(n) ==
  /\ n \in alive /\ printed < MaxPrinted /\ printed' = printed + 1
  /\ bottom' = [bottom EXCEPT ![n] = @ + 1]
  /\ \/ output' = [output EXCEPT ![n] = @ \cup {bottom'[n]}]
     \/ UNCHANGED output
  /\ UNCHANGED <<run, alive, top, mgrVars, bufVars, tellVars, disturbed>>

(* Of disturbed sessions it is not recorded what was told.                 *)
Disturb(D) ==
  /\ disturbed' = disturbed \cup D
  /\ told' = [n \in Names |-> IF n \in D THEN {} ELSE told[n]]
  /\ UNCHANGED repeated

(* The history is full, or the screen is cleared.                          *)
Scrolls(n) ==
  /\ n \in alive
  /\ \E t \in (top[n] + 1)..bottom[n] : top' = [top EXCEPT ![n] = t]
  /\ Disturb({n})
  /\ from' = [from EXCEPT ![n] = 0]
  /\ UNCHANGED <<run, alive, bottom, output, printed, mgrVars, buffers, anchor, waiting>>

(* A pane without lines; nothing is told of its name.                      *)
Blank(n) ==
  /\ top' = [top EXCEPT ![n] = 0] /\ bottom' = [bottom EXCEPT ![n] = 0]
  /\ output' = [output EXCEPT ![n] = {}]
  /\ told' = [told EXCEPT ![n] = {}]
  /\ repeated' = repeated \ {n} /\ disturbed' = disturbed \ {n}
  /\ UNCHANGED printed

Exits(n) ==
  /\ n \in alive /\ alive' = alive \ {n}
  /\ Blank(n)
  /\ from' = [from EXCEPT ![n] = 0]
  /\ UNCHANGED <<run, mgrVars, buffers, anchor, waiting>>

------------------------------------------------------------------------------
(* snapshot_before_command and sync_offset; without a capture the anchor   *)
(* stays.                                                                  *)
Capture(C) ==
  /\ anchor' = [n \in Names |-> IF n \in C THEN Lines(n) ELSE anchor[n]]
  /\ from' = [n \in Names |-> IF n \in C \ disturbed THEN bottom[n] ELSE from[n]]

(* reconcile_startup: the sessions R that are found and answer; those of C *)
(* are captured.  The first to be tracked is the foreground session.       *)
ReconcileStartup ==
  /\ run = "down" /\ run' = "up"
  /\ \E R \in SUBSET alive : \E C \in SUBSET R, first \in R \cup {NoName} :
       /\ first = NoName <=> R = {}
       /\ sessions' = R /\ buffers' = R /\ foreground' = first
       /\ status' = [n \in Names |-> IF n = first THEN "fg" ELSE "bg"]
       /\ Capture(C) /\ Disturb(R \ C)
  /\ UNCHANGED <<tmuxVars, waiting>>

(* cleanup_all on Ctrl-C, or a crash: only tmux remembers.                 *)
Stop ==
  /\ run = "up" /\ run' = "down"
  /\ sessions' = {} /\ foreground' = NoName /\ buffers' = {}
  /\ status' = [n \in Names |-> "bg"]
  /\ anchor' = [n \in Names |-> 0] /\ waiting' = [n \in Names |-> FALSE]
  /\ from' = [n \in Names |-> 0]
  /\ UNCHANGED <<tmuxVars, tellVars, disturbed>>

(* What new and fg do to the session that was in the foreground.           *)
InForeground(n) ==
  /\ status' = [m \in Names |-> IF m = n THEN "fg"
                                ELSE IF m = foreground THEN "bg" ELSE status[m]]
  /\ foreground' = n

(* handle_new_session; a name that is tracked or taken is refused, like    *)
(* one too many.                                                           *)
NewSession(n) ==
  /\ run = "up"
  /\ n \notin sessions /\ n \notin alive /\ Cardinality(sessions) < MaxSessions
  /\ alive' = alive \cup {n} /\ sessions' = sessions \cup {n} /\ buffers' = buffers \cup {n}
  /\ InForeground(n)
  /\ UNCHANGED <<run, top, bottom, output, printed, anchor, waiting, from, tellVars, disturbed>>

(* Mutant: the buffer is synchronised, as after a restart.                 *)
FgSynchronises(n) ==
  /\ run = "up" /\ n \in sessions
  /\ InForeground(n)
  /\ anchor' = [anchor EXCEPT ![n] = IF n \in alive THEN Lines(n) ELSE @]
  /\ UNCHANGED <<run, tmuxVars, sessions, buffers, waiting, from, tellVars, disturbed>>

(* Also of the session that is in the foreground already.                  *)
Fg(n) ==
  /\ run = "up" /\ n \in sessions
  /\ InForeground(n)
  /\ UNCHANGED <<run, tmuxVars, sessions, bufVars, tellVars, disturbed>>

Bg ==
  /\ run = "up" /\ foreground # NoName
  /\ foreground' = NoName
  /\ status' = [status EXCEPT ![foreground] = "bg"]
  /\ UNCHANGED <<run, tmuxVars, sessions, bufVars, tellVars, disturbed>>

(* The entries of D go, and with a foreground session the foreground.      *)
Untrack(D) ==
  /\ sessions' = sessions \ D /\ buffers' = buffers \ D
  /\ status' = [n \in Names |-> IF n \in D THEN "bg" ELSE status[n]]
  /\ foreground' = IF foreground \in D THEN NoName ELSE foreground
  /\ anchor' = [n \in Names |-> IF n \in D THEN 0 ELSE anchor[n]]
  /\ waiting' = [n \in Names |-> waiting[n] /\ n \notin D]
  /\ from' = [n \in Names |-> IF n \in D THEN 0 ELSE from[n]]
  /\ UNCHANGED run

(* Whether tmux could kill it is not looked at.                            *)
KillSession(n) ==
  /\ run = "up" /\ n \in sessions
  /\ \/ alive' = alive \ {n} /\ Blank(n)
     \/ UNCHANGED <<tmuxVars, tellVars, disturbed>>
  /\ Untrack({n})

(* Mutant: only sessions in the background are looked at.                  *)
HealthCheckOfOthers(D) ==
  /\ run = "up" /\ D # {} /\ D \subseteq sessions \ alive /\ foreground \notin D
  /\ Untrack(D)
  /\ UNCHANGED <<tmuxVars, tellVars, disturbed>>

(* health_check: D are those of which has_session answers no.  Without an  *)
(* answer a session stays.                                                 *)
HealthCheck(D) ==
  /\ run = "up" /\ D # {} /\ D \subseteq sessions \ alive
  /\ Untrack(D)
  /\ UNCHANGED <<tmuxVars, tellVars, disturbed>>

(* A shell command or input to a program: what it makes the session print  *)
(* comes after the anchor.                                                 *)
Input ==
  /\ run = "up" /\ foreground \in buffers
  /\ \E C \in SUBSET ({foreground} \cap alive) : Capture(C)
  /\ waiting' = [waiting EXCEPT ![foreground] = TRUE]
  /\ UNCHANGED <<run, tmuxVars, mgrVars, buffers, tellVars, disturbed>>

------------------------------------------------------------------------------
(* diff_lines.  Below the anchor the pane has contracted, and all of it is *)
(* taken for new.                                                          *)
Effective(n) == IF Lines(n) < anchor[n] THEN 0 ELSE anchor[n]

Suffix(n) == {k \in Numbers : k > top[n] + Effective(n) /\ k <= bottom[n]
                                /\ k + MaxSuffix > bottom[n]}

Tell(n, news) ==
  /\ told' = IF n \in disturbed THEN told ELSE [told EXCEPT ![n] = @ \cup news]
  /\ repeated' = IF told[n] \cap news = {} THEN repeated ELSE repeated \cup {n}

(* Mutant: the anchor stays where the command put it.                      *)
PollWithoutAnchor(n) ==
  /\ run = "up" /\ foreground = n /\ n \in buffers
  /\ waiting[n] /\ n \in alive
  /\ Suffix(n) \cap output[n] # {}
  /\ Tell(n, Suffix(n) \cap output[n])
  /\ UNCHANGED <<run, tmuxVars, mgrVars, bufVars, disturbed>>

(* Only the foreground session is polled.  Noise alone moves nothing but   *)
(* an anchor beyond the end.                                               *)
Poll(n) ==
  LET news == Suffix(n) \cap output[n] IN
  /\ run = "up" /\ foreground = n /\ n \in buffers
  /\ waiting[n] /\ n \in alive
  /\ news # {} \/ Lines(n) < anchor[n]
  /\ Tell(n, news)
  /\ anchor' = [anchor EXCEPT ![n] = Lines(n)]
  /\ UNCHANGED <<run, tmuxVars, mgrVars, buffers, waiting, from, disturbed>>

------------------------------------------------------------------------------
Tmux(n) == Prints(n) \/ Scrolls(n) \/ Exits(n)

SessionCommand(n) == NewSession(n) \/ Fg(n) \/ KillSession(n)

SessionsNext ==
  \/ \E n \in Names : Tmux(n) \/ SessionCommand(n) \/ Poll(n)
  \/ \E D \in SUBSET Names : HealthCheck(D)
  \/ ReconcileStartup \/ Stop \/ Bg \/ Input

SessionsSpec == SessionsInit /\ [][SessionsNext]_sessionVars

(* The intervals tick, as commands leave the loop idle, and tmux answers   *)
(* sooner or later.                                                        *)
SessionsFairSpec ==
  /\ SessionsSpec
  /\ \A n \in Names :
       /\ WF_sessionVars(\E D \in SUBSET Names : n \in D /\ HealthCheck(D))
       /\ WF_sessionVars(Poll(n))

------------------------------------------------------------------------------
SessionsTypeOK ==
  /\ run \in {"up", "down"}
  /\ alive \subseteq Names /\ sessions \subseteq Names /\ buffers \subseteq Names
  /\ disturbed \subseteq Names
  /\ top \in [Names -> 0..MaxPrinted] /\ bottom \in [Names -> 0..MaxPrinted]
  /\ \A n \in Names : top[n] <= bottom[n] /\ output[n] \subseteq 1..bottom[n]
  /\ output \in [Names -> SUBSET Numbers] /\ printed \in 0..MaxPrinted
  /\ status \in [Names -> {"fg", "bg"}] /\ foreground \in Names \cup {NoName}
  /\ anchor \in [Names -> 0..MaxPrinted] /\ from \in [Names -> 0..MaxPrinted]
  /\ waiting \in [Names -> BOOLEAN]
  /\ \A n \in Names \ buffers : anchor[n] = 0 /\ ~ waiting[n]
  /\ told \in [Names -> SUBSET Numbers] /\ repeated \subseteq Names

(* The two places that say which session is in the foreground agree, and   *)
(* name a tracked session, whatever order sessions are made, switched,     *)
(* killed and found dead in.                                               *)
OneForeground ==
  /\ foreground \in sessions \cup {NoName}
  /\ \A n \in sessions : status[n] = "fg" <=> foreground = n

(* Every tracked session has a buffer, and no other: without one its       *)
(* output would never be told, and one left over would be the next         *)
(* session's of that name.                                                 *)
BuffersFollow == buffers = sessions

(* Until lines leave the pane or a start fails to capture it, no line is   *)
(* told twice, and none before the anchor is passed: commands, switches    *)
(* and restarts do not repeat output.                                      *)
ToldOnce ==
  /\ repeated \subseteq disturbed
  /\ \A n \in sessions \ disturbed : \A k \in told[n] : k <= top[n] + anchor[n]

(* A line of output behind the latest command of a session that stays in   *)
(* the foreground is told, although noise comes before it; unless the      *)
(* session scrolls, exits or floods a poll, or the process stops.          *)
Pending(n, k) ==
  /\ run = "up" /\ foreground = n /\ waiting[n] /\ k \in output[n] /\ k > from[n]

OutputTold ==
  \A n \in Names, k \in Numbers :
    Pending(n, k) ~>
      \/ k \in told[n] \/ ~ Pending(n, k)
      \/ n \notin alive \/ n \in disturbed \/ k + MaxSuffix <= bottom[n]

(* A session that has exited is not shown, nor kept in the foreground, for *)
(* ever.                                                                   *)
DeadForgotten == \A n \in Names : (n \in sessions \ alive) ~> (n \notin sessions \/ n \in alive)
==============================================================================
