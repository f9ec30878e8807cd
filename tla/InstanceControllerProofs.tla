---------------------- MODULE InstanceControllerProofs ----------------------
(***************************************************************************)
(* Theorems about InstanceController, for any faults and bounds, with and  *)
(* without the webhooks.                                                   *)
(***************************************************************************)
EXTENDS InstanceInvariant, EventLemmas, TLAPS

InstanceOrNone == InstanceObjects \cup {None}

\* An edit makes another version of the instance.
LEMMA EditedType ==
  ASSUME NEW obj \in InstanceObjects, NEW h \in {"right", "wrong"}
  PROVE  /\ [obj EXCEPT !.edit = @ + 1, !.host = h] \in InstanceObjects
         /\ [obj EXCEPT !.edit = @ + 1, !.host = h] # obj
         /\ [obj EXCEPT !.edit = @ + 1, !.host = h].status = obj.status
  <1> DEFINE next == [obj EXCEPT !.edit = @ + 1]
  <1>1. next \in InstanceObjects /\ next.edit # obj.edit /\ next.status = obj.status
    BY DEF InstanceObjects
  <1> HIDE DEF next
  <1>2. /\ [next EXCEPT !.host = h] \in InstanceObjects
        /\ [next EXCEPT !.host = h].edit = next.edit
        /\ [next EXCEPT !.host = h].status = next.status
    BY <1>1 DEF InstanceObjects
  <1>3. [next EXCEPT !.host = h] = [obj EXCEPT !.edit = @ + 1, !.host = h]
    BY DEF next
  <1> QED
    BY <1>1, <1>2, <1>3

-----------------------------------------------------------------------------
(* TypeOK is inductive. *)

\* A write of the instance keeps the types of the server and of the events.
LEMMA SetInstanceType ==
  ASSUME TypeOK, NEW obj \in InstanceOrNone, SetInstance(obj)
  PROVE  /\ instance' \in InstanceObjects \cup {None}
         /\ events' \in Seq(InstanceObjects \cup {None})
  BY DEF TypeOK, SetInstance, InstanceOrNone

\* A reconcile of an instance starts with a job.
LEMMA ReconcileType ==
  ASSUME TypeOK, Reconcile
  PROVE  TypeOK'
  <1> USE DEF Reconcile, apiVars, worldVars
  <1>1. CASE cache = None
    BY <1>1 DEF TypeOK
  <1>2. CASE cache # None
    <2>1. KeyVerdict \in {"true"} \cup Reasons
      BY DEF KeyVerdict, Reasons
    <2>2. KeyVerdict = "true" => secret \in {"refused", "accepted"}
      BY DEF TypeOK, KeyVerdict, Secrets
    <2>3. job' \in Jobs
      BY <1>2, <2>1, <2>2 DEF TypeOK, Jobs
    <2> QED
      BY <1>2, <2>3 DEF TypeOK
  <1> QED
    BY <1>1, <1>2

\* The calls to UniFi keep the types: they change the verdict.
LEMMA CallType ==
  ASSUME TypeOK, Login \/ ValidateCredentials
  PROVE  TypeOK'
  <1> USE DEF Login, ValidateCredentials, apiVars, worldVars
  <1>1. job \in Jobs
    BY DEF TypeOK
  <1>2. \A r \in Reasons : [job EXCEPT !.verdict = r] \in Jobs
    BY <1>1 DEF Jobs
  <1>3. job' \in Jobs /\ pc' \in {"list", "writeStatus"}
    BY <1>1, <1>2 DEF Refuse, Reasons
  <1> QED
    BY <1>3 DEF TypeOK

\* What WriteStatus may write is a version of the instance the job began with.
LEMMA WrittenType ==
  ASSUME TypeOK, pc = "writeStatus"
  PROVE  /\ job \in Jobs
         /\ \A sync \in {0, 1} :
              [job.base EXCEPT !.status = [ready |-> "true", sync |-> sync]] \in InstanceObjects
         /\ [job.base EXCEPT !.status.ready = job.verdict] \in InstanceObjects
  BY DEF TypeOK, Jobs, InstanceObjects, StatusObjects, Reasons

\* The cases of a write: it took effect and its reply was seen, or not.
LEMMA WriteCases ==
  ASSUME WriteStatus
  PROVE  \E obj :
           /\ \/ /\ job.verdict = "true"
                 /\ \E sync \in {0, 1} :
                      obj = [job.base EXCEPT !.status = [ready |-> "true", sync |-> sync]]
              \/ obj = [job.base EXCEPT !.status.ready = job.verdict]
           /\ \/ instance = job.base /\ Effect(obj) /\ Done /\ job.verdict = "true"
              \/ instance = job.base /\ Effect(obj) /\ Failed
              \/ UNCHANGED apiVars /\ Failed
  <1>1. CASE job.verdict = "true"
    <2>1. PICK sync \in {0, 1} :
            Write([job.base EXCEPT !.status = [ready |-> "true", sync |-> sync]], Done, Failed)
      BY <1>1 DEF WriteStatus, UpdateStatusReady
    <2> QED
      BY <1>1, <2>1 DEF Write
  <1>2. CASE job.verdict # "true"
    <2>1. Write([job.base EXCEPT !.status.ready = job.verdict], Failed, Failed)
      BY <1>2 DEF WriteStatus, UpdateStatusError
    <2> QED
      BY <2>1 DEF Write
  <1> QED
    BY <1>1, <1>2

\* A write counts the fault it meets, if any.
LEMMA WriteFaults ==
  ASSUME TypeOK, WriteStatus
  PROVE  faults' \in Nat
  BY DEF TypeOK, WriteStatus, UpdateStatusReady, UpdateStatusError, Write, Fault

\* WriteStatus keeps the types.
LEMMA WriteStatusType ==
  ASSUME TypeOK, WriteStatus
  PROVE  TypeOK'
  <1>1. pc = "writeStatus" /\ UNCHANGED <<cache, worldVars>>
    BY DEF WriteStatus
  <1>2. PICK obj :
           /\ \/ \E sync \in {0, 1} :
                   obj = [job.base EXCEPT !.status = [ready |-> "true", sync |-> sync]]
              \/ obj = [job.base EXCEPT !.status.ready = job.verdict]
           /\ \/ Effect(obj) /\ Done
              \/ Effect(obj) /\ Failed
              \/ UNCHANGED apiVars /\ Failed
    BY WriteCases
  <1>3. obj \in InstanceOrNone /\ job \in Jobs
    BY <1>1, <1>2, WrittenType DEF InstanceOrNone
  <1>4. /\ instance' \in InstanceObjects \cup {None}
        /\ events' \in Seq(InstanceObjects \cup {None})
        /\ judged' \in Nat \X Nat
    BY <1>2, <1>3, SetInstanceType DEF Effect, TypeOK, apiVars, Jobs, InstanceObjects
  <1>5. pc' = "idle" /\ job' = None /\ queued' \in BOOLEAN
    BY <1>2 DEF Done, Failed, Finish, TypeOK
  <1> QED
    BY <1>1, <1>4, <1>5, WriteFaults DEF TypeOK, worldVars

\* What makes the controller reconcile keeps the types.
LEMMA DeliveryType ==
  ASSUME TypeOK, DeliverEvent \/ Resync
  PROVE  TypeOK'
  <1> USE DEF DeliverEvent, Resync, apiVars, worldVars
  <1>1. CASE DeliverEvent
    <2>1. events \in Seq(InstanceObjects \cup {None}) /\ events # << >>
      BY <1>1 DEF TypeOK
    <2>2. /\ cache' \in InstanceObjects \cup {None}
          /\ events' \in Seq(InstanceObjects \cup {None})
      BY <1>1, <2>1, FirstDelivered
    <2> QED
      BY <1>1, <2>2 DEF TypeOK
  <1>2. CASE Resync
    BY <1>2 DEF TypeOK
  <1> QED
    BY <1>1, <1>2

\* The users keep the types.
LEMMA UserType ==
  ASSUME TypeOK, CreateInstance \/ EditInstance \/ DeleteInstance
  PROVE  TypeOK'
  <1> USE DEF CreateInstance, EditInstance, DeleteInstance, worldVars
  <1>1. PICK obj \in InstanceOrNone : SetInstance(obj)
    <2>1. CASE CreateInstance
      BY <2>1 DEF InstanceOrNone, TypeOK, InstanceObjects, StatusObjects
    <2>2. CASE EditInstance
      <3>1. instance \in InstanceObjects
        BY <2>2 DEF TypeOK
      <3> QED
        BY <2>2, <3>1, EditedType DEF InstanceOrNone
    <2>3. CASE DeleteInstance
      BY <2>3 DEF InstanceOrNone
    <2> QED
      BY <2>1, <2>2, <2>3
  <1> QED
    BY <1>1, SetInstanceType DEF TypeOK

\* The world and a restart keep the types.
LEMMA WorldType ==
  ASSUME TypeOK, WorldChanges \/ Crash
  PROVE  TypeOK'
  <1>1. CASE WorldChanges
    BY <1>1 DEF TypeOK, WorldChanges, apiVars
  <1>2. CASE Crash
    <2>1. events' \in Seq(InstanceObjects \cup {None})
      BY <1>2 DEF Crash
    <2> QED
      BY <1>2, <2>1 DEF TypeOK, Crash, Finish, Fault, worldVars
  <1> QED
    BY <1>1, <1>2

\* Every step keeps the types.
LEMMA TypeStep ==
  ASSUME TypeOK, [Next]_vars
  PROVE  TypeOK'
  <1>1. CASE UNCHANGED vars
    BY <1>1 DEF TypeOK, vars
  <1> QED
    BY <1>1, ReconcileType, CallType, WriteStatusType, DeliveryType, UserType, WorldType
       DEF Next, Worker, Environment

\* The initial states have their types.
LEMMA TypeInit == Init => TypeOK
  <1> SUFFICES ASSUME Init PROVE TypeOK
    OBVIOUS
  <1>1. events \in Seq(InstanceObjects \cup {None})
    BY DEF Init
  <1> QED
    BY <1>1 DEF Init, TypeOK

\* The variables always have their types, and the worker holds a job exactly
\* while a reconcile runs.
THEOREM TypeCorrect == Spec => []TypeOK
  BY TypeInit, TypeStep, PTL DEF Spec

-----------------------------------------------------------------------------
(* InstInv is inductive. *)

\* A write of the instance is followed by its event, unless it changes nothing.
LEMMA CatchUpAfterWrite ==
  ASSUME InstInv, NEW obj \in InstanceOrNone, SetInstance(obj), UNCHANGED cache
  PROVE  /\ CacheCatchesUp'
         /\ events' = << >> => instance' = instance /\ events = << >>
  <1> USE DEF InstInv, TypeOK, CacheCatchesUp, SetInstance, InstanceOrNone
  <1>1. CASE obj = instance
    BY <1>1
  <1>2. CASE obj # instance
    BY <1>2
  <1> QED
    BY <1>1, <1>2

\* WriteStatus leaves a verdict on the current spec, or another attempt to come.
LEMMA WriteStatusInv ==
  ASSUME InstInv, WriteStatus
  PROVE  CacheCatchesUp' /\ JudgedWhenQuiet'
  <1> USE DEF InstInv
  <1>1. pc = "writeStatus" /\ UNCHANGED <<cache, worldVars>>
    BY DEF WriteStatus
  <1>2. PICK obj :
           /\ \/ /\ job.verdict = "true"
                 /\ \E sync \in {0, 1} :
                      obj = [job.base EXCEPT !.status = [ready |-> "true", sync |-> sync]]
              \/ obj = [job.base EXCEPT !.status.ready = job.verdict]
           /\ \/ instance = job.base /\ Effect(obj) /\ Done /\ job.verdict = "true"
              \/ instance = job.base /\ Effect(obj) /\ Failed
              \/ UNCHANGED apiVars /\ Failed
    BY WriteCases
  <1>3. obj \in InstanceObjects /\ job \in Jobs
    BY <1>1, <1>2, WrittenType
  <1>4. CASE Effect(obj)
    <2>1. CacheCatchesUp' /\ (events' = << >> => instance' = instance /\ events = << >>)
      BY <1>1, <1>3, <1>4, CatchUpAfterWrite DEF Effect, InstanceOrNone
    <2>2. instance' = obj /\ judged' = <<job.base.uid, job.base.edit>>
      BY <1>4 DEF Effect, SetInstance
    <2>3. obj.uid = job.base.uid /\ obj.edit = job.base.edit
      BY <1>2, <1>3 DEF Jobs, InstanceObjects
    <2>4. obj.status.ready # "unset"
      BY <1>2, <1>3 DEF Jobs, InstanceObjects, StatusObjects, Reasons
    <2>5. JudgedWhenQuiet'
      BY <2>2, <2>3, <2>4 DEF JudgedWhenQuiet, Version
    <2> QED
      BY <2>1, <2>5
  <1>5. CASE UNCHANGED apiVars /\ Failed
    BY <1>1, <1>5 DEF apiVars, Failed, CacheCatchesUp, JudgedWhenQuiet
  <1> QED
    BY <1>2, <1>4, <1>5

\* A reconcile that finds no instance has nothing to do.
LEMMA ReconcileInv ==
  ASSUME InstInv, Reconcile
  PROVE  CacheCatchesUp' /\ JudgedWhenQuiet'
  BY DEF InstInv, Reconcile, apiVars, CacheCatchesUp, JudgedWhenQuiet

\* The calls to UniFi are made by a busy worker.
LEMMA CallInv ==
  ASSUME InstInv, Login \/ ValidateCredentials
  PROVE  CacheCatchesUp' /\ JudgedWhenQuiet'
  BY DEF InstInv, Login, ValidateCredentials, Refuse, apiVars, CacheCatchesUp, JudgedWhenQuiet

\* A delivered event takes the cache to the next version on its way.
LEMMA DeliveryInv ==
  ASSUME InstInv, DeliverEvent \/ Resync
  PROVE  CacheCatchesUp' /\ JudgedWhenQuiet'
  <1> USE DEF InstInv
  <1>1. CASE DeliverEvent
    <2>1. /\ events \in Seq(InstanceObjects \cup {None}) /\ events # << >>
          /\ cache' = Head(events) /\ events' = Tail(events)
          /\ instance' = instance /\ queued' = TRUE
          /\ events[Len(events)] = instance
      BY <1>1 DEF DeliverEvent, TypeOK, CacheCatchesUp
    <2> QED
      BY <2>1, FirstDelivered DEF CacheCatchesUp, JudgedWhenQuiet
  <1>2. CASE Resync
    BY <1>2 DEF Resync, apiVars, CacheCatchesUp, JudgedWhenQuiet
  <1> QED
    BY <1>1, <1>2

\* Whatever a user does to the instance is an event.
LEMMA UserInv ==
  ASSUME InstInv, CreateInstance \/ EditInstance \/ DeleteInstance
  PROVE  CacheCatchesUp' /\ JudgedWhenQuiet'
  <1> USE DEF InstInv, CreateInstance, EditInstance, DeleteInstance, worldVars
  <1>1. PICK obj \in InstanceOrNone : obj # instance /\ SetInstance(obj)
    <2>1. CASE CreateInstance
      BY <2>1, NoInstanceAssumption DEF InstanceOrNone, TypeOK, InstanceObjects, StatusObjects
    <2>2. CASE EditInstance
      <3>1. instance \in InstanceObjects
        BY <2>2 DEF TypeOK
      <3> QED
        BY <2>2, <3>1, EditedType DEF InstanceOrNone
    <2>3. CASE DeleteInstance
      BY <2>3 DEF InstanceOrNone
    <2> QED
      BY <2>1, <2>2, <2>3
  <1>2. CacheCatchesUp' /\ events' # << >>
    BY <1>1, CatchUpAfterWrite DEF SetInstance
  <1> QED
    BY <1>2 DEF JudgedWhenQuiet

\* A restart lists the instance; the world is not part of the invariant.
LEMMA WorldInv ==
  ASSUME InstInv, WorldChanges \/ Crash
  PROVE  CacheCatchesUp' /\ JudgedWhenQuiet'
  BY DEF InstInv, WorldChanges, Crash, Finish, apiVars, worldVars, CacheCatchesUp, JudgedWhenQuiet

\* The invariant is inductive.
LEMMA InvStep ==
  ASSUME InstInv, [Next]_vars
  PROVE  InstInv'
  <1>1. TypeOK'
    BY TypeStep DEF InstInv
  <1>2. CASE UNCHANGED vars
    BY <1>1, <1>2 DEF InstInv, vars, CacheCatchesUp, JudgedWhenQuiet
  <1>3. CASE Next
    BY <1>1, <1>3, ReconcileInv, CallInv, WriteStatusInv, DeliveryInv, UserInv, WorldInv
       DEF InstInv, Next, Worker, Environment
  <1> QED
    BY <1>2, <1>3

\* The inductive invariant holds of every behavior.
THEOREM InvariantHolds == Spec => []InstInv
  <1>1. Init => InstInv
    BY TypeInit DEF Init, InstInv, CacheCatchesUp, JudgedWhenQuiet
  <1> QED
    BY <1>1, InvStep, PTL DEF Spec

\* When nothing is left to do, the stored status is a verdict on the current
\* spec, after any conflicts, failed and unanswered updates, and restarts.
THEOREM QuietMeansJudged == Spec => []JudgedWhenQuiet
  BY InvariantHolds, PTL DEF InstInv

-----------------------------------------------------------------------------
(* Verdicts. *)

\* A step that changes the status of an instance writes a verdict on the spec
\* that is stored.
LEMMA VerdictStep ==
  ASSUME TypeOK, Next, instance # None, instance' # None, instance.status # instance'.status
  PROVE  judged' = Version(instance)
  <1>1. WriteStatus
    <2>1. instance' # instance
      OBVIOUS
    <2>2. ~Reconcile /\ ~Login /\ ~ValidateCredentials /\ ~DeliverEvent /\ ~Resync
      BY <2>1 DEF Reconcile, Login, ValidateCredentials, DeliverEvent, Resync, apiVars
    <2>3. ~CreateInstance /\ ~DeleteInstance /\ ~WorldChanges /\ ~Crash
      BY <2>1 DEF CreateInstance, DeleteInstance, WorldChanges, Crash, SetInstance, apiVars
    <2>4. ~EditInstance
      BY EditedType DEF EditInstance, SetInstance, TypeOK
    <2> QED
      BY <2>2, <2>3, <2>4 DEF Next, Worker, Environment
  <1>2. instance = job.base /\ judged' = <<job.base.uid, job.base.edit>>
    BY <1>1, WriteCases DEF Effect, apiVars
  <1> QED
    BY <1>2 DEF Version

\* A status computed from one version of the spec is never stored with another.
THEOREM VerdictsAreCurrent == Spec => VerdictOnCurrentSpec
  <1>1. TypeOK /\ [Next]_vars =>
          [instance # None /\ instance' # None /\ instance.status # instance'.status =>
             judged' = Version(instance)]_vars
    BY VerdictStep
  <1> QED
    BY <1>1, TypeCorrect, PTL DEF Spec, VerdictOnCurrentSpec
=============================================================================
