---------------------------- MODULE MCCpuBringup ----------------------------
(* Model-checking instances of CpuBringup with all four CPUs.              *)
EXTENDS CpuBringup
=============================================================================
