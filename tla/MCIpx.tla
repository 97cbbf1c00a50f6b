------------------------------- MODULE MCIpx -------------------------------
(***************************************************************************)
(* An instance of Ipx for TLC: an ECB with a service routine and one       *)
(* without, two sockets by number and the same two for programs that ask   *)
(* for any, and a table of three, of which two are open at a time.         *)
(***************************************************************************)
EXTENDS Ipx

\* Two bytes each, and different in both halves from an empty entry
Numbers == {257, 258}
=============================================================================
