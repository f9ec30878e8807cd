------------------------- MODULE InstanceInvariant -------------------------
(***************************************************************************)
(* The inductive invariant from which InstanceControllerProofs derives     *)
(* that an instance left in peace has a verdict on its current spec.       *)
(*                                                                         *)
(* A reconcile that finds no instance in the cache ends for good, and so   *)
(* does one whose write changed nothing.  Neither leaves work undone,      *)
(* because the cache is only behind while an event is on its way.          *)
(***************************************************************************)
EXTENDS InstanceController

\* The last event on its way, or else the cache, shows the stored instance.
CacheCatchesUp ==
  IF events = << >> THEN cache = instance ELSE events[Len(events)] = instance

\* The inductive invariant.
InstInv == TypeOK /\ CacheCatchesUp /\ JudgedWhenQuiet
=============================================================================
