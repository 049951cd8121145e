---------------------------- MODULE MCPluginPage ----------------------------
(* Instances of PluginPage for TLC: two plugins, one of which has a        *)
(* function, two more plugins and one more function to come.               *)
EXTENDS PluginPage
CONSTANTS p1, p2, p3, p4
MCPlugins == {p1, p2, p3, p4}
MCInitially == {p1, p2}
=============================================================================
