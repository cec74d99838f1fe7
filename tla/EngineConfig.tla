---------------------------- MODULE EngineConfig ----------------------------
(***************************************************************************)
(* A run and the configuration it loads: the beginning of RunTask in       *)
(* Engine with what Config makes of flags, files and curl commands.        *)
(***************************************************************************)
EXTENDS Engine

CONSTANTS
  CommandLines,  \* what a command line names: a curl command, a file, flags
  Files,         \* what a configuration file sets
  Commands       \* curl commands, by line

C == INSTANCE Config

AllConfigsResolve == C!ConfigResolves(CommandLines, Files, Commands)

\* Configurations resolve: a run of the command line about to load its configuration gets one
\* that is sound, see ConfigResolves in Config.tla, and a run whose configuration is refused
\* ends before it has made anything, and runs nothing.
ConfigResolves ==
  /\ phase = "load" /\ opts.standalone => AllConfigsResolve
  /\ result.error = "config" => phase = "ended" /\ storage = "none" /\ collected = 0
=============================================================================
