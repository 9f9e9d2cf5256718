----------------------------- MODULE MCGpuFiles -----------------------------
(***************************************************************************)
(* GpuFiles with slots for a full set of new files at every start.         *)
(***************************************************************************)
EXTENDS GpuFiles

CONSTANTS d1, d2, sh1, sh2

AllSlots == 0 .. NumFiles * MaxStarts - 1
=============================================================================
