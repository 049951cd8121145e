--------------------------- MODULE MCSettingsPage ---------------------------
(* Instances of SettingsPage for TLC: no authorizer at first, or two, and  *)
(* one connection.                                                         *)
EXTENDS SettingsPage
CONSTANTS a1, a2, a3
MCAuthorizers == {a1, a2, a3}
MCInitialAuthorizers == {a1, a2}
=============================================================================
