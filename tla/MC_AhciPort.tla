----------------------------- MODULE MC_AhciPort -----------------------------
(* Values for the constants of AhciPort: two ports, each with or without a *)
(* disk, and three frames (pfa_alloc may have fewer left).                 *)
EXTENDS AhciPort

MCDeviceMaps == [Port -> {"none", "sata"}]
=============================================================================
