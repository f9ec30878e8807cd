------------------------ MODULE MCInstanceController ------------------------
(* InstanceController for TLC; its constants are given in the .cfg.          *)
EXTENDS InstanceInvariant
=============================================================================
