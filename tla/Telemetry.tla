------------------------------ MODULE Telemetry ------------------------------
(***************************************************************************)
(* Consent to the anonymous ping (src/engine/redassay/telemetry.py): one   *)
(* config file per user, which every command in every repository opens,    *)
(* truncates and writes without a lock, and the environment, which may     *)
(* force the ping on or off.                                               *)
(*                                                                         *)
(* The file is written by one write when it is closed, at the start of     *)
(* the file: over a longer text that got there in between it leaves that   *)
(* text's end.  Which random id a text holds is left out.                  *)
(***************************************************************************)
EXTENDS Integers, FiniteSets

CONSTANTS
  Shells,        \* each runs one command after the other
  MaxCommands    \* bound on the commands ever begun

VARIABLES
  config,        \* the file: its text, and how long it is
  run,           \* what each shell is at
  commands,      \* how many were begun
  consent        \* history: may the user be said to have agreed?

telemetryVars == <<config, run, commands, consent>>

\* Texts: a config that says on or off, and one with an id only.  What is empty
\* or garbled reads as no config at all.
Length == [on |-> 2, off |-> 3, bare |-> 1]
NoFile == [text |-> "absent", length |-> 0]
EmptyFile == [text |-> "empty", length |-> 0]

ReadConfig == IF config.text \in DOMAIN Length THEN config.text ELSE "nothing"

Overwritten(text) ==
  IF config.length > Length[text] THEN [text |-> "garbled", length |-> config.length]
  ELSE [text |-> text, length |-> Length[text]]

\* command, the step it is at, what its environment says of the ping, the text
\* it is to write, and as history whether the user agreed at some time of it.
Resting ==
  [command |-> "none", at |-> "rest", forced |-> "no", text |-> "none", asked |-> FALSE]

TelemetryInit ==
  /\ config \in {NoFile, [text |-> "on", length |-> Length["on"]]}
  /\ run = [p \in Shells |-> Resting]
  /\ commands = 0
  /\ consent = (config.text = "on")

Goes(p, step) ==
  run' = [run EXCEPT ![p] = IF step = "rest" THEN Resting ELSE [@ EXCEPT !.at = step]]

\* Mutant: a config that does not say off counts as one that says on.
EnabledByDefault(p) ==
  run[p].forced # "off" /\ (run[p].forced = "on" \/ ReadConfig # "off")

\* is_enabled: DO_NOT_TRACK, REDASSAY_TELEMETRY, CI, then the config.
IsEnabled(p) ==
  run[p].forced # "off" /\ (run[p].forced = "on" \/ ReadConfig = "on")

-----------------------------------------------------------------------------
(* The commands: telemetry on, off and status, and scan.                   *)

Begun(command, terminal, forced) ==
  [command |-> command, forced |-> forced,
   text |-> IF command = "on" THEN "on" ELSE "off",
   at |-> CASE command \in {"on", "off"} -> "open"
            [] command = "status" -> "id"
            [] command = "scan" -> IF terminal THEN "notice" ELSE "ping",
   asked |-> consent]

Agreeing(started) ==
  [p \in Shells |->
     IF started[p] # Resting THEN [started[p] EXCEPT !.asked = TRUE] ELSE Resting]

Begin(p) ==
  /\ run[p] = Resting /\ commands < MaxCommands
  /\ commands' = commands + 1
  /\ \/ /\ run' = Agreeing([run EXCEPT ![p] = Begun("on", FALSE, "no")])
        /\ consent' = TRUE
     \/ /\ \/ \E command \in {"off", "status"} :
                run' = [run EXCEPT ![p] = Begun(command, FALSE, "no")]
           \/ \E terminal \in BOOLEAN, forced \in {"no", "on", "off"} :
                run' = [run EXCEPT ![p] = Begun("scan", terminal, forced)]
        /\ UNCHANGED consent
  /\ UNCHANGED config

\* maybe_first_run_notice: whoever finds no file writes one.
FirstRunNotice(p) ==
  /\ run[p].at = "notice"
  /\ Goes(p, IF config = NoFile THEN "open" ELSE "ping")
  /\ UNCHANGED <<config, commands, consent>>

\* _write_config: open(..., "w") takes the old text away at once.
OpenConfig(p) ==
  /\ run[p].at = "open"
  /\ config' = EmptyFile
  /\ Goes(p, "write")
  /\ UNCHANGED <<commands, consent>>

\* Where a command goes on after _write_config.
AfterWrite(p) ==
  IF run[p].command # "scan" THEN "rest"
  ELSE IF run[p].text = "bare" THEN "post" ELSE "ping"

\* "off" takes the agreement back, unless an "on" is under way.
WriteConfig(p) ==
  /\ run[p].at = "write"
  /\ config' = Overwritten(run[p].text)
  /\ Goes(p, AfterWrite(p))
  /\ consent' = (consent /\ (run[p].command = "off" =>
                               \E q \in Shells : run[q].command = "on"))
  /\ UNCHANGED commands

\* An OSError of either is swallowed, and the command says it went well.
WriteConfigFails(p) ==
  /\ run[p].at \in {"open", "write"}
  /\ Goes(p, AfterWrite(p))
  /\ UNCHANGED <<config, commands, consent>>

Ping(p) ==
  /\ run[p].at = "ping"
  /\ Goes(p, IF IsEnabled(p) THEN "id" ELSE "rest")
  /\ UNCHANGED <<config, commands, consent>>

\* anon_id, for a ping or for the sample that status prints: where there is no
\* config, one with an id and nothing else is written.
AnonId(p) ==
  /\ run[p].at = "id"
  /\ IF ReadConfig # "nothing"
     THEN Goes(p, IF run[p].command = "scan" THEN "post" ELSE "rest")
     ELSE run' = [run EXCEPT ![p].at = "open", ![p].text = "bare"]
  /\ UNCHANGED <<config, commands, consent>>

\* _post, which fails in silence or not.
Post(p) ==
  /\ run[p].at = "post"
  /\ Goes(p, "rest")
  /\ UNCHANGED <<config, commands, consent>>

\* The command is interrupted.
Interrupt(p) ==
  /\ run[p] # Resting
  /\ Goes(p, "rest")
  /\ UNCHANGED <<config, commands, consent>>

TelemetryNext ==
  \E p \in Shells :
    \/ Begin(p) \/ FirstRunNotice(p) \/ OpenConfig(p)
    \/ WriteConfig(p) \/ WriteConfigFails(p)
    \/ Ping(p) \/ AnonId(p) \/ Post(p) \/ Interrupt(p)

TelemetrySpec == TelemetryInit /\ [][TelemetryNext]_telemetryVars

-----------------------------------------------------------------------------

\* "A ping can only come from the CLI, only after you opt in"
\* (docs/telemetry.md): whatever commands truncate, overwrite and garble the
\* config under each other and die over it, a scan whose environment does not
\* force the ping sends one only if the user agreed, or was agreeing, at some
\* time of that scan; an "off" that got to the file takes the agreement back,
\* and what forces the ping off always wins.
NothingSentUnasked ==
  \A p \in Shells :
    run[p].at = "post" => \/ run[p].forced = "on"
                          \/ run[p].forced = "no" /\ run[p].asked

=============================================================================
