---------------------------- MODULE MCEventQueue ----------------------------
(***************************************************************************)
(* Instances of EventQueue for TLC: ticks of a few cycles, deadlines on    *)
(* half cycles, and delays within a slice, within a tick and beyond it.    *)
(***************************************************************************)
EXTENDS EventQueue

MCKinds == {<<"h", 1>>, <<"g", 1>>}
=============================================================================
