---------------------------- MODULE LeaseContract ----------------------------
(***************************************************************************)
(* What the provider promises to Cluster API, without saying how: a claim  *)
(* leases at most one address of a network, no two claims lease the same   *)
(* one unless both stand for one device, a lease does not change while it  *)
(* lasts, and it lasts until the claim's deletion is requested and ends    *)
(* before the claim is gone.                                               *)
(***************************************************************************)
CONSTANTS
  Claims,
  DeviceOf,  \* the device of each claim
  Leases,    \* what can be leased: an address of a network
  NoLease    \* what a claim has that leases nothing

VARIABLES
  phase,   \* each claim: "absent", "live", or "leaving" once to be deleted
  lease    \* what each claim leases, or NoLease

Init ==
  /\ phase = [c \in Claims |-> "absent"]
  /\ lease = [c \in Claims |-> NoLease]

Ask(c) ==
  /\ phase[c] = "absent"
  /\ phase' = [phase EXCEPT ![c] = "live"]
  /\ UNCHANGED lease

Grant(c, l) ==
  /\ phase[c] # "absent"
  /\ lease[c] = NoLease
  /\ \A d \in Claims : lease[d] = l => DeviceOf[d] = DeviceOf[c]
  /\ lease' = [lease EXCEPT ![c] = l]
  /\ UNCHANGED phase

Leave(c) ==
  /\ phase[c] = "live"
  /\ phase' = [phase EXCEPT ![c] = "leaving"]
  /\ UNCHANGED lease

Release(c) ==
  /\ phase[c] = "leaving"
  /\ lease[c] # NoLease
  /\ lease' = [lease EXCEPT ![c] = NoLease]
  /\ UNCHANGED phase

\* A claim the provider has not taken up yet may go without leaving first.
Go(c) ==
  /\ phase[c] # "absent"
  /\ lease[c] = NoLease
  /\ phase' = [phase EXCEPT ![c] = "absent"]
  /\ UNCHANGED lease

Next == \E c \in Claims :
  \/ Ask(c) \/ Leave(c) \/ Release(c) \/ Go(c)
  \/ \E l \in Leases : Grant(c, l)

vars == <<phase, lease>>

Spec == Init /\ [][Next]_vars
=============================================================================
