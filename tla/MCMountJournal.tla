---------------------------- MODULE MCMountJournal ----------------------------
(* A module binds one file below a leaf OverlayFS has layers for, where the   *)
(* device has a mount of its own, and one elsewhere; the mirror has a sibling.*)
EXTENDS MountJournal

MCPlaces == {"work", "mirror", "rw", "etc", "etc/hosts", "etc/stock", "bin"}
MCAbove == [p \in MCPlaces |-> IF p \in {"etc/hosts", "etc/stock"} THEN {"etc"} ELSE {}]
MCMirrors == <<"mirror", "rw">>
MCMagicPlan == <<"etc/hosts">>
MCOverlayPlan == <<"bin", "etc">>
MCStock == <<"etc/stock">>
=============================================================================
