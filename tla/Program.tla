-------------------------------- MODULE Program --------------------------------
(***************************************************************************)
(* The process from its command line on: AppConfig puts the configuration  *)
(* together, and main starts the cli of Cli, with the direction and the    *)
(* device of it, or a server, of which CommParameters has the way of a     *)
(* client's settings through the buffers of that configuration.            *)
(***************************************************************************)
EXTENDS Cli, CommParameters

vars == <<configVars, cliVars, parametersVars>>

\* src/main.c: one of the two modes
Init == ConfigInit /\ CliInit /\ ParametersInit

Next ==
  \/ ConfigNext /\ UNCHANGED <<cliVars, parametersVars>>
  \/ CliNext /\ UNCHANGED parametersVars
  \/ ParametersNext /\ UNCHANGED cliVars

Spec == Init /\ [][Next]_vars

FairSpec == Spec /\ CliFairness
=============================================================================
