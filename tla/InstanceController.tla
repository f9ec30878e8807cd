------------------------- MODULE InstanceController -------------------------
(***************************************************************************)
(* The UnifiInstance controller, internal/controllers/unifiinstance_       *)
(* controller.go: it logs in to the UniFi controller an instance names,    *)
(* with the key of the instance's secret, and reports in the status        *)
(* whether that went well.  PoolController takes the outcome as input.     *)
(*                                                                         *)
(* The instance is watched, its secret and the UniFi controller are not.   *)
(* An attempt that fails is repeated with backoff; one that succeeds is    *)
(* not, unless its own write is an event: the status carries the time of   *)
(* the success to the second, so that a write within the second of the     *)
(* last one changes nothing.                                               *)
(***************************************************************************)
EXTENDS Integers, Sequences

CONSTANTS
  Webhooks,     \* whether the manager serves its webhooks (--enable-webhook)
  FaultKinds,   \* the faults that may happen
  MaxFaults,    \* bound on their number
  MaxInstances, \* bound on how often the instance is created
  MaxEdits,     \* bound on the edits of its spec
  MaxChanges,   \* bound on the changes of the secret and of UniFi
  None          \* an object that does not exist

ASSUME InstanceAssumption ==
  /\ Webhooks \in BOOLEAN
  /\ FaultKinds \subseteq {"apiError", "lostReply", "crash"}
  /\ MaxFaults \in Nat /\ MaxInstances \in Nat /\ MaxEdits \in Nat /\ MaxChanges \in Nat

\* The secret: absent, without an apiKey, with an empty one, with one that
\* UniFi refuses, with one that it accepts.
Secrets == {"missing", "noKey", "empty", "refused", "accepted"}

Reasons == {"SecretNotFound", "InvalidCredentials", "ClientCreationFailed",
            "CredentialsValidationFailed"}

\* status.ready with status.failureReason, and the parity of lastSyncTime
StatusObjects == [ready : {"unset", "true"} \cup Reasons, sync : {0, 1}]

\* spec.host names a UniFi controller ("right") or something else ("wrong").
InstanceObjects == [uid : Nat, edit : Nat, host : {"right", "wrong"},
                    status : StatusObjects]

Jobs == [base : InstanceObjects, key : {"refused", "accepted", "none"},
         verdict : {"true"} \cup Reasons]

ASSUME NoInstanceAssumption == None \notin InstanceObjects /\ None \notin Jobs

VARIABLES
  instance, \* API server: the UnifiInstance
  cache,    \* informer cache of the instance
  events,   \* watch events of the instance not yet in the cache
  secret,   \* the secret of its credentialsRef, as cached
  unifi,    \* the UniFi controller: "up" or "down"
  queued,   \* whether the instance is on the work queue
  pc,       \* the call the worker makes next, "idle" between reconciles
  job,      \* what the running reconcile holds, None when idle
  judged,   \* history: the uid and edit the stored status was computed from
  made,     \* instances created so far
  faults,   \* faults so far
  changes   \* changes of the secret and of UniFi so far

vars == <<instance, cache, events, secret, unifi, queued, pc, job, judged, made,
          faults, changes>>

apiVars   == <<instance, events, judged>>
worldVars == <<secret, unifi, made, changes>>

Init ==
  /\ instance = None
  /\ cache = None
  /\ events = << >>
  /\ secret \in Secrets
  /\ unifi \in {"up", "down"}
  /\ queued = FALSE
  /\ pc = "idle"
  /\ job = None
  /\ judged = <<0, 0>>
  /\ made = 0
  /\ faults = 0
  /\ changes = 0

-----------------------------------------------------------------------------
(* The API server, and how a reconcile ends. *)

SetInstance(obj) ==
  /\ instance' = obj
  /\ events' = IF obj = instance THEN events ELSE Append(events, obj)

Fault(kind) ==
  /\ kind \in FaultKinds
  /\ faults < MaxFaults
  /\ faults' = faults + 1

Finish == pc' = "idle" /\ job' = None
Failed == Finish /\ queued' = TRUE
Done   == Finish /\ UNCHANGED queued

Effect(obj) == SetInstance(obj) /\ judged' = <<job.base.uid, job.base.edit>>

\* Mutant: the version is not checked.
OverwriteAny(obj, Ok, Error) ==
  IF instance # None THEN Effect(obj) /\ Ok /\ UNCHANGED faults
  ELSE Error /\ UNCHANGED <<apiVars, faults>>

\* Status().Update, at the version the cache showed.
Write(obj, Ok, Error) ==
  \/ instance = job.base /\ Effect(obj) /\ Ok /\ UNCHANGED faults
  \/ instance # job.base /\ Error /\ UNCHANGED <<apiVars, faults>>
  \/ Fault("apiError") /\ Error /\ UNCHANGED apiVars
  \/ Fault("lostReply") /\ instance = job.base /\ Effect(obj) /\ Error

-----------------------------------------------------------------------------
(* Reconcile *)

\* getAPIKey: the verdict when there is no key to use.
KeyVerdict ==
  CASE secret = "missing"            -> "SecretNotFound"
    [] secret \in {"noKey", "empty"} -> "InvalidCredentials"
    [] OTHER                         -> "true"

Reconcile ==
  /\ pc = "idle"
  /\ queued
  /\ queued' = FALSE
  /\ IF cache = None THEN UNCHANGED <<pc, job>>
     ELSE /\ pc' = IF KeyVerdict = "true" THEN "login" ELSE "writeStatus"
          /\ job' = [base |-> cache, verdict |-> KeyVerdict,
                     key |-> IF KeyVerdict = "true" THEN secret ELSE "none"]
  /\ UNCHANGED <<apiVars, cache, worldVars, faults>>

Refuse(reason) == pc' = "writeStatus" /\ job' = [job EXCEPT !.verdict = reason]

Reached == job.base.host = "right" /\ unifi = "up"

\* NewClient logs in; whether a login tells a wrong key is UniFi's affair.
Login ==
  /\ pc = "login"
  /\ \/ Reached /\ pc' = "list" /\ UNCHANGED job
     \/ ~(Reached /\ job.key = "accepted") /\ Refuse("ClientCreationFailed")
  /\ UNCHANGED <<apiVars, cache, worldVars, queued, faults>>

\* ValidateCredentials lists the networks.
ValidateCredentials ==
  /\ pc = "list"
  /\ IF Reached /\ job.key = "accepted" THEN pc' = "writeStatus" /\ UNCHANGED job
     ELSE Refuse("CredentialsValidationFailed")
  /\ UNCHANGED <<apiVars, cache, worldVars, queued, faults>>

\* Mutant: the error of the status update is only logged.
ReadyErrorIgnored ==
  \E sync \in {0, 1} :
    Write([job.base EXCEPT !.status = [ready |-> "true", sync |-> sync]], Done, Done)

\* updateStatusReady returns the error of its write.
UpdateStatusReady ==
  \E sync \in {0, 1} :
    Write([job.base EXCEPT !.status = [ready |-> "true", sync |-> sync]], Done, Failed)

\* Mutant: the verdict ends the reconcile when it has been written.
VerdictIsFinal == Write([job.base EXCEPT !.status.ready = job.verdict], Done, Failed)

\* Mutant: what ends the reconcile is the write and not the verdict.
VerdictUnwritten == Write([job.base EXCEPT !.status.ready = job.verdict], Done, Done)

\* updateStatusError drops the error of its write; the verdict is the error.
UpdateStatusError == Write([job.base EXCEPT !.status.ready = job.verdict], Failed, Failed)

WriteStatus ==
  /\ pc = "writeStatus"
  /\ IF job.verdict = "true" THEN UpdateStatusReady ELSE UpdateStatusError
  /\ UNCHANGED <<cache, worldVars>>

-----------------------------------------------------------------------------
(* What makes the controller reconcile. *)

\* Mutant: an update is no reason to reconcile, whatever it changed.
DeliverWithoutUpdates ==
  /\ events # << >>
  /\ cache' = Head(events)
  /\ events' = Tail(events)
  /\ queued' = (queued \/ cache = None \/ Head(events) = None)
  /\ UNCHANGED <<instance, judged, worldVars, pc, job, faults>>

DeliverEvent ==
  /\ events # << >>
  /\ cache' = Head(events)
  /\ events' = Tail(events)
  /\ queued' = TRUE
  /\ UNCHANGED <<instance, judged, worldVars, pc, job, faults>>

\* The informer's own resync, every ten hours.
Resync ==
  /\ cache # None
  /\ queued' = TRUE
  /\ UNCHANGED <<apiVars, cache, worldVars, pc, job, faults>>

-----------------------------------------------------------------------------
(* Users, the UniFi controller, and a restart. *)

\* The webhook's validate wants a secret with an apiKey, which may be empty.
Admitted == Webhooks => secret \notin {"missing", "noKey"}

CreateInstance ==
  /\ instance = None
  /\ made < MaxInstances
  /\ made' = made + 1
  /\ Admitted
  /\ \E host \in {"right", "wrong"} :
       SetInstance([uid |-> made + 1, edit |-> 0, host |-> host,
                    status |-> [ready |-> "unset", sync |-> 0]])
  /\ UNCHANGED <<judged, cache, secret, unifi, changes, queued, pc, job, faults>>

EditInstance ==
  /\ instance # None
  /\ instance.edit < MaxEdits
  /\ Admitted
  /\ \E host \in {"right", "wrong"} :
       SetInstance([instance EXCEPT !.edit = @ + 1, !.host = host])
  /\ UNCHANGED <<judged, cache, worldVars, queued, pc, job, faults>>

DeleteInstance ==
  /\ instance # None
  /\ SetInstance(None)
  /\ UNCHANGED <<judged, cache, worldVars, queued, pc, job, faults>>

WorldChanges ==
  /\ changes < MaxChanges
  /\ changes' = changes + 1
  /\ \/ secret' \in Secrets \ {secret} /\ UNCHANGED unifi
     \/ unifi' \in {"up", "down"} \ {unifi} /\ UNCHANGED secret
  /\ UNCHANGED <<apiVars, cache, made, queued, pc, job, faults>>

Crash ==
  /\ Fault("crash")
  /\ Finish
  /\ cache' = instance
  /\ events' = << >>
  /\ queued' = (instance # None)
  /\ UNCHANGED <<instance, judged, worldVars>>

-----------------------------------------------------------------------------
Worker == Reconcile \/ Login \/ ValidateCredentials \/ WriteStatus

Environment ==
  CreateInstance \/ EditInstance \/ DeleteInstance \/ WorldChanges \/ Crash

Next == Worker \/ DeliverEvent \/ Resync \/ Environment

Spec == Init /\ [][Next]_vars

\* The watch and the worker make progress; the resync is not waited for.
FairSpec == Spec /\ WF_vars(DeliverEvent) /\ WF_vars(Worker)

-----------------------------------------------------------------------------
(* Properties. *)

\* The types of the variables; the worker holds a job exactly while it is busy.
TypeOK ==
  /\ instance \in InstanceObjects \cup {None}
  /\ cache \in InstanceObjects \cup {None}
  /\ events \in Seq(InstanceObjects \cup {None})
  /\ secret \in Secrets
  /\ unifi \in {"up", "down"}
  /\ queued \in BOOLEAN
  /\ \/ pc = "idle" /\ job = None
     \/ pc \in {"login", "list", "writeStatus"} /\ job \in Jobs
  /\ judged \in Nat \X Nat
  /\ made \in Nat /\ faults \in Nat /\ changes \in Nat

Version(obj) == <<obj.uid, obj.edit>>

\* When nothing is left to do, the stored status is a verdict on the spec the
\* API server holds: neither a conflict, a failed or unanswered update, whose
\* error one of the two update functions drops, nor a restart loses one
\* (updateStatusError, updateStatusReady).
JudgedWhenQuiet ==
  ~queued /\ pc = "idle" /\ events = << >> /\ instance # None =>
    judged = Version(instance) /\ instance.status.ready # "unset"

\* A status that was computed from one version of the spec is never stored
\* with another, though a login of up to 30 s lies between the two calls.
VerdictOnCurrentSpec ==
  [][instance # None /\ instance' # None /\ instance.status # instance'.status =>
       judged' = Version(instance)]_vars

\* With the right host and key and UniFi up for good, the instance is ready in
\* the end, whatever the attempts before found: nothing but the backoff leads
\* back from a failure, as neither the secret nor UniFi is watched.
EventuallyReady ==
  <>[](instance # None /\ instance.host = "right" /\ secret = "accepted" /\ unifi = "up") =>
    <>[](instance # None /\ instance.status.ready = "true")

\* An instance edited to name a wrong host stops being ready.
WrongHostReported ==
  <>[](instance # None /\ instance.host = "wrong") =>
    <>[](instance # None /\ instance.status.ready \in Reasons)
=============================================================================
