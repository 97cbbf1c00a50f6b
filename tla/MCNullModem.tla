---------------------------- MODULE MCNullModem ----------------------------
(***************************************************************************)
(* Instances of NullModem for TLC: FIFOs of two bytes, two polls until a   *)
(* guest counts as unresponsive, and a guest that writes a few telling     *)
(* values to each register.                                                *)
(***************************************************************************)
EXTENDS NullModem

Fcr(on, rx, tx, trigger) == [on |-> on, clearRx |-> rx, clearTx |-> tx, trigger |-> trigger]

FcrsAll == {Fcr(FALSE, FALSE, FALSE, 1), Fcr(TRUE, FALSE, FALSE, 2), Fcr(TRUE, TRUE, TRUE, 2)}
IersAll == {{}, {"rx", "tx", "error"}}
McrsAll == {{}, {"op2", "loopback"}}
MsrsAll == {{}, {"cd"}}
NoLines == {{}}
=============================================================================
