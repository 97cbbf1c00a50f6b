----------------------------- MODULE MCPic8259 -----------------------------
(***************************************************************************)
(* Instances of Pic8259 for TLC: controllers of four lines, one above and  *)
(* one below the cascade on the master and two on the slave.               *)
(***************************************************************************)
EXTENDS Pic8259

\* Devices above and below the cascade, and two of different priority on the slave
WiredAll  == {<<Master, 1>>, <<Master, 3>>, <<Slave, 0>>, <<Slave, 1>>}
WiredPair == {<<Master, 1>>, <<Slave, 0>>}

MasksTop  == {{}, {0, 1}, {2}}
MasksFew  == {{}, {0, 1}}
\* a device and the cascade, or the lower device of the slave
MasksTwo  == {{}, {1, 2}}

\* ICW1 to ICW3 for a pair, and ICW1, ICW2 and ICW4 for a single controller
IcwsLegal == {<<FALSE, 2>>, <<TRUE, 3>>}
=============================================================================
