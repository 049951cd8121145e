---------------------------- MODULE MCHostPage -----------------------------
(* Instances of HostPage for TLC: two hosts, one of which has a key, and   *)
(* one more of each to come.                                               *)
EXTENDS HostPage
CONSTANTS h1, h2, h3
MCHosts == {h1, h2, h3}
MCInitially == {h1, h2}
=============================================================================
