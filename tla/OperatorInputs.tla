----------------------------- MODULE OperatorInputs -----------------------------
(***************************************************************************)
(* What an operator may put into the control plane: extensions that judge  *)
(* beside the core, and records that relax a setting.  Neither may make it *)
(* weaker than it is without them, but by an authority that is in force.   *)
(***************************************************************************)
EXTENDS RelaxationGuard, PluginRunner

vars == <<settings, plugins>>

Init == SettingsInit /\ PluginsInit

Next ==
    \/ SettingsNext /\ UNCHANGED plugins
    \/ PluginsNext /\ UNCHANGED settings

Spec == Init /\ [][Next]_vars

\* Every variable of the two holds what the code's types allow.
TypeOK == SettingsTypeOK /\ PluginsTypeOK
=============================================================================
