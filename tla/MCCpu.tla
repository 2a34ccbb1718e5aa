-------------------------------- MODULE MCCpu ---------------------------------
EXTENDS CpuPool
CONSTANTS u1, u2, u3
ThreeCalls == {u1, u2, u3}
=============================================================================
