# A TLA+ model of cluster-api-ipam-provider-unifi

The provider serves Cluster API's `IPAddressClaim`s from `UnifiIPPool`s: for each claim it makes an
`IPAddress` object of the same name, whose address is a fixed IP that it gives to a user (a MAC address) in a
UniFi network controller. All of it runs in one manager process on informer caches, beside an API server and a
UniFi controller that fail, answer late and are changed by others.

The first section is the inventory: the parts, their state, how they meet and what is hard. Then come the modules, the
runs, the proofs, what is left out, and what could come next.

## The system's parts

| Part | Code | State | Operations | What makes it correct |
|---|---|---|---|---|
| Claim reconciler | `pkg/ipamutil/reconciler.go` | claims and addresses (API server), their caches, the work queue; nothing of its own | reconcile a claim: finalizer, `CreateOrPatch` of the address, wait for the cache, `addressRef`; delete: unprotect and delete the address, drop the finalizer | a bound claim has its address; no address outlives its claim or is unprotected early; every claim is served, every deleted one goes |
| UniFi adapter | `internal/controllers/ipaddressclaim_controller.go` | none | `FetchPool`, `EnsureAddress`, `allocateIP`, `ReleaseAddress`, watches of pools and addresses | an address is never written without an allocation; the pool's events wake the claims |
| UniFi client | `internal/unifi/client.go` | users and networks in UniFi | `GetOrAllocateIP`, `allocateNextIP`, static assignments, network lookup | fixed IPs are unique in a network; the three priorities of allocation |
| Predicates | `pkg/predicates/predicates.go` | none | filters of pool events | an unpaused or no longer full pool wakes its claims |
| Pool controller | `internal/controllers/unifiippool_controller.go` | the pool's finalizer, status and conditions | discover and sync the network, compute the status, protect the pool; handle its deletion | a pool in use is not let go; the status tells the truth in the end; edits survive |
| Pool addressing | `internal/poolutil/` | none | address by index, membership, the set of a subnet, counts | the two ways to compute a pool's addresses agree |
| Instance controller | `internal/controllers/unifiinstance_controller.go` | the instance's readiness | log in, list the networks, write the verdict | no verdict is lost or stored with another spec; an instance that comes right is ready in the end |
| Webhooks | `internal/webhooks/` | none | validate pools and instances, their update and deletion | an admitted change leaves no address outside that is listed; what they refuse stops no controller; off by default (`cmd/manager/main.go:70`) |
| Manager, types, manifests | `cmd/`, `api/`, `config/` | none | flags and wiring | - |

### How they interact

* The claim controller has one worker (`MaxConcurrentReconciles: 1`). It reads claims, addresses, pool and cluster
  from informer caches, which replay the API server's watch events per kind, in order, at any later time. It writes
  claims and addresses to the API server and users to UniFi.
* The pool controller runs beside it in the same process with the same caches. It writes the pool only. The claim
  controller learns of a pool by `FetchPool`, the pool controller of addresses by `ListAddressesInUse`: there is no
  lock between them.
* Pool updates reach the claims through predicates; address events reach the owning claim (`Owns`) and the pool
  (`ipAddressToUnifiIPPool`).
* The instance controller publishes a readiness bit that the pool controller reads.
* The webhooks, when they are served, are asked before every write of a pool or an instance but that of its status:
  those of the controllers are among them. They read the same caches.

### What is hard in it

Two reads of one cache within a reconcile; a check and its use on both sides of a network call; three writes of one
object with a version between them, some of which a webhook may refuse; requests that take effect and fail; a restart
between any two calls; names
used again while something of their former use remains; events swallowed by filters; and arithmetic on addresses.
`PROJECT.json` lists each hazard at the line where it bites, with the properties that watch it.

## The modules

| Module | Models |
|---|---|
| `ClaimController` | the claim reconciler, the adapter, and the part of the UniFi client they reach |
| `LeaseContract` | what the provider promises: who leases which address, and for how long |
| `ClaimInvariant`, `LeaseInvariant` | two inductive invariants of `ClaimController`: what is allocated, and for how long it is kept |
| `ClaimControllerProofs`, `ClaimInvariantProofs`, `LeaseProofs` | its theorems, and that it implements `LeaseContract` |
| `PoolController` | the pool controller and the pool webhook's admission, with the claim controller as its environment |
| `PoolInvariant`, `PoolControllerProofs` | its inductive invariant and its theorems |
| `PoolSpace` | the addresses of a pool, as the allocator, the status and the pool webhook compute them |
| `NetworkLookup` | the network of a pool: discovery, synchronisation and drift, over the addresses of `PoolSpace` |
| `PoolSpaceProofs` | the theorems about both |
| `InstanceController` | the instance controller and the instance webhook's admission |
| `InstanceInvariant`, `InstanceControllerProofs` | its inductive invariant and its theorems |
| `EventLemmas` | appending and dropping watch events, which the proofs of all controllers use |
| `Provider` | `ClaimController` and `PoolController` in one process, each the other's environment |
| `ProviderInvariant`, `ProviderProofs` | what holds between the two, and the theorems: both modules apply, so that what is proved of them holds of the manager |
| `MCClaimController`, `MCPoolController`, `MCPoolSpace`, `MCInstanceController`, `MCProvider` | instances for TLC |

A definition whose comment starts with "Mutant" is no part of a model. It is a plausible bug, to be put in the place
of the definition after it, which shows that a property can fail.

### ClaimController

| Variable | In the code |
|---|---|
| `claims`, `addrs` | the objects in the API server, by name; an address has its claim's name |
| `claimCache`, `addrCache`, `claimEvents`, `addrEvents` | the informers' stores, and the watch events on their way |
| `pool`, `clusterPaused` | pool and cluster as cached: what the server holds is never compared with them. A pool has a network ID, configured or discovered, or none |
| `users` | UniFi users by MAC, with their fixed IP and the network they were created in |
| `foreign` | the fixed IPs, with their networks, that other devices have at present |
| `absentReply` | what UniFi's `GetUserByMAC` answers for an unknown MAC |
| `queue`, `pc`, `job` | the work queue, the next call of the worker, and the objects it holds across calls |

A reconcile is cut wherever someone else can act between two of its calls: `Reconcile` (cache reads and early
returns), `AddFinalizer`, `EnsureAddress` (the second cache read, the network ID, `GetUserByMAC`, `allocateNextIP`),
`CreateUser`,
`WriteAddress`, `WaitForAddressInCache`, `SetAddressRef`; on deletion `UnprotectAddress`, `DeleteAddress`,
`RemoveFinalizer`. The environment delivers events, changes the pool (its pause, its free addresses, its
pre-allocations, its network) and the cluster, fixes addresses to other devices and lets them go, creates and deletes
claims, deletes addresses, and restarts the manager.

Reads merged into one step commute with what could come between them. The Get of `CreateOrPatch` is taken with
the cache reads of `Reconcile`: in between the code calls no one. The list of `EnsureAddress` is a step of its own,
which is where the two reads may differ. Only this controller creates fixed IPs with MACs of claims, so that the
lookup of a user and the static assignments of one `EnsureAddress` see the same users of claims. Those of other devices
may change before the step and after it, and so between the list of static assignments and `CreateUser`.

Users are kept with the network they were created in. `StaticAssignments(network)` lists those of one network, the
lookup by MAC finds a user in any: after the pool has changed its network, a claim that comes back brings the address
it had in the old one. So two claims may have one address in two networks, which `SharingExplained` allows and
`FixedIPsUnique` does not forbid.

What is assumed of the outside: the API server refuses a create of a name that exists, keeps deleted objects
until their finalizers are gone and deletes with the last of them; a merge patch carries the fields that differ;
UniFi refuses a second user with one MAC, and not a fixed IP that another device has. What `GetUserByMAC` answers for
an unknown MAC is not in the repository: `AbsentReplies` covers no user, a `NotFoundError` and other errors, one of them throughout a behaviour. The subnets
of the pool are the same throughout; `PoolSpace` has their edits. The API server does not validate the address of
an `IPAddress` in the model, so that `AddressIsFixedIP` does not rest on its refusal of an empty one.

### PoolController

`pool`, `addrs` and their caches and events are as above, for one pool name. Every write carries `job.base`, the
version it was read or last written at, and is refused when the server has another (`Write`). `Status().Update`
writes the status only, `Update` all but it, and the reply of an `Update` is decoded into the object in memory
(`Merge`). `timers` are the `RequeueAfter`s. The sync of a reconcile is one step with the list of addresses before
it; the list commutes with the write that ends it.

The claim controller appears as `FetchPool` (the pool is in the cache, which is all it asks) and, at any later time,
`CreateAddress`; `DeleteAddress` is a claim's deletion. `Webhooks` says whether the manager serves its webhooks and
they are registered for the API. If so,
`Admitted` guards every write that is not of the status: the instance exists, and no cached address lies outside the
first subnet (`Outside`). A user's refused request simply does not happen, and the controller's own fails (`Update`).
Timestamps are left out of the versions: in the code a
write that changes only a time is a new version too, which makes the controller reconcile again, so that the model
has fewer conflicts with oneself and no endless chain of reconciles.

### PoolSpace

`GetIPAddress`, `firstUsableIP` and `lastUsableIP` against `PoolSpecToIPSet` and `computeTotalAddresses`, with
addresses of `AddressBits` bits (32) whose last octet has `OctetBits` (8). Subtractions wrap as the code's unsigned
types do, and the size of a range is computed in an octet as the code does it in a byte.

| Variable | In the code |
|---|---|
| `spec` | the pool's spec; an edit has to pass `Admitted` (`ValidSpec`, `OrphanedIPs`) when the webhooks are served |
| `users` | the fixed IPs of the UniFi users that the controller created. No action takes one away: `ReleaseAddress` does nothing |
| `allocated`, `listed` | the addresses of the `IPAddress`es, in the API server and in the informer cache, which allocator, status and webhook read |

`Allocate` and `AllocateRequested` create a user, `WriteAddress` writes an `IPAddress` with the fixed IP of any user
that has none, whatever the spec is by then. Since nothing ties the two together in time, this covers the reconcile
that is overtaken by an edit, and the claim that comes back and is given the IP of the user left behind, without a
look at the subnets (`client.go:209-253`). A reconcile that works with an older spec from its cache is one that
allocated before the edit: one worker creates all users, so that none was created since it took the list of addresses.
Each user stands for one claim name, so that no two claims have one MAC here, and the pool stays in one network;
`ClaimController` has both.

### NetworkLookup

The state adds the site's networks, which may change, `discovered` (`status.discoveredNetworkId`) and the condition
`NetworkSynced`. `SyncPool` is one reconcile of a pool without `spec.networkId`: it looks the network of the first
subnet up unless it has one, and compares CIDR and gateway with it. The order of the writes is `PoolController`'s.

### InstanceController

`instance`, `cache`, `events`, `pc` and `job` are as above. `secret` and `unifi` change without an event. A reconcile is
cut between `Reconcile` (cache reads), `Login`, `ValidateCredentials` and `WriteStatus`. Whether a login tells a wrong
key is UniFi's affair: it may succeed as long as UniFi is reached. The time of the last success is kept to its parity: two
writes in one second are the same object and no event, two in different seconds differ. `judged` is a history
variable, the version of the spec that the stored status was computed from.

### Provider

`C` is `ClaimController` (with its invariants, `LeaseInvariant`) and `P` is `PoolController`, both on the variables of
`Provider`. A claim step is a step of `C`, a pool step one of `P`; an address event reaches the one address cache and
both queues, a pool event the pool's queue and, past the predicates, the claims'.

Requests of either controller may fail (`ClaimFaultKinds`, `PoolFaultKinds`), those of the pool controller with their
reply alone as well, and MACs are any function of the claims, as in `ClaimController`. Left to the two modules are
restarts, which here would be one of both at once, lost replies to the claim controller and the timeout of its wait
(runs and theorems of `Reliable` say why), the edits and pauses of a pool, and other networks.

| Operator | What it is |
|---|---|
| `View` | what the claim controller reads of a pool: whether addresses are free |
| `Identity` | an address among all that have its name: the claim and its UID. The names come back, the addresses do not |
| `Existing`, `AddressNotices` | what the pool controller sees of the addresses and of their events |
| `Allocating` | the address that a running claim reconcile may still create |

`created` (all addresses so far) and `poolViews` (how often the claims have seen the pool change) are history variables:
nothing reads them but the environments of the two modules. `ClaimSide == C!Spec` and `PoolSide == P!Spec` are
refinements: every step here is one that the module allows or leaves it alone, so that what the two modules assume of
each other is what the other one does. `ServedClaimsHoldPool` is what neither module can say alone: a pool does not go
while its status lists the address of a bound claim that stays.

## The runs

Every bound is a CONSTANT: `MaxFaults`, `MaxIncarnations`, `MaxPoolChanges`, `MaxClusterChanges` in `ClaimController`;
`MaxFaults`, `MaxPools`, `MaxEdits`, `MaxChanges`, `MaxBacklog` (of address events behind a patch) in
`PoolController`; `MaxFaults`, `MaxInstances`, `MaxEdits`, `MaxChanges` in `InstanceController`; `MaxUsers`
in `PoolSpace`; `MaxFaults`, `MaxIncarnations`, `MaxPools`, `MaxPoolViews`, `MaxBacklog` (of address events) in
`Provider`, whose run makes the last two too large to matter. When they are used up
the system may stop, so that these runs do not check deadlock; `PoolSpace` and `NetworkLookup` never stop and their
run does.

### Runs that pass

| Run | Shows | Why the bounds are enough | Distinct states |
|---|---|---|---|
| `ClaimReuse` | `BoundClaimIsServed`, `NoOrphanAddress`, `LInv`, `AddressProtected`, `ImplementsContract`, `ClaimEventuallyBound`, `ClaimEventuallyGone`, with failed requests and crashes | two incarnations of a name: one leaves something behind and the other meets it; two faults; a pause of the cluster and its end; a change or the loss of the pool or of its network; an unknown MAC is answered by `NotFoundError` or by another error | 403,000 |
| `ClaimFaults` | `FixedIPsUnique`, `AddressIsFixedIP`, `SharingExplained`, `PreAllocationHonoured`, `IInv` | two claims are what can share, and here a pre-allocation and an annotation ask for one address; one fault of any kind, so that a user meets the attempt after its own; the pool begins in a network with the pre-allocation or in another without, and may change to the other once, so that it is added or taken away and its users are not listed any more; three addresses, one the gateway and one that another device takes and lets go at any time | 3,515,000 |
| `PoolFaults` | `TypeOK`, `AllocationsProtected`, `PInv`, `ListedAddressesHoldPool`, `EditsKept` | two pools of a name, an edit, one fault of any kind at any call; two addresses: one may come while the other goes | 4,882,000 |
| `PoolAdmission` | `StatusConverges`, `DeletionCompletes`, `DriftReported`, with the webhooks | a lost reply; one change of instance or network after any of nine beginnings; one address, created, patched and deleted, fills the pool | 199,000 |
| `PoolNetwork` | `NetTypeOK`, `AllocatorInRange`, `ExhaustedOnlyWhenFull`, `FreeAgreesWithAllocator`, `ListedStayInside`, `NetworkFound`, `DiscoveredHoldsSubnet`, `SyncedMeansUsable` | eight addresses in two octets of four, so that a subnet is part of an octet, a whole one or crosses two; one and two subnets, apart, adjacent, overlapping, CIDR or range; up to three users with and without an address, listed or not, beside one of another device: enough to fill each subnet within an octet; networks that halve the addresses, one that grows, one that goes | 782,000 |
| `InstanceValidation` | `JudgedWhenQuiet`, `InstInv`, `VerdictOnCurrentSpec`, `EventuallyReady`, `WrongHostReported` | two instances of a name, an edit, one change of secret or UniFi after any beginning, one fault of any kind | 541,000 |
| `Provider` | `ProviderInv`, `ClaimSide`, `PoolSide`, `ServedClaimsHoldPool`, `StatusFollowsClaims`, `DeletionFollowsClaims` | one claim, one address and one pool, each created and deleted at any time, without faults: the claim takes the pool's only address, so that the pool is full and free again. The same with a failed request of the claim controller holds in 542,000 states, which takes twice as long; the theorems are about any number of claims, addresses and faults | 223,000 |

`LInv` and `IInv` contain the type invariant of `ClaimController`, and `InstInv` that of `InstanceController`.

The restrictions that matter. `ClaimReuse` has one claim name: what its `LeaseContract` says about two claims is a
matter of the theorem `ContractImplemented`. It has no
`cacheTimeout` and no `lostReply`: with the first an orphan is possible (run `CacheTimeout`), and the second can create
an address whose reconcile has ended, which is the same orphan. `ClaimEventuallyBound` promises nothing to a new claim
while UniFi answers `NotFoundError`, for which the code never binds one, nor for a pool that is paused at some time,
since its unpausing wakes nobody. In `ClaimFaults` the names have different MACs (run `SharedMAC`). `PoolAdmission` has
no address outside the first subnet (run `SecondSubnet`). The specs of `PoolNetwork` are regular: a CIDR with its
network address and at least two host bits, no excluded addresses; for the others the list below says what goes
wrong. `FreeAgreesWithAllocator` names the two cases in which status and allocation part: a range of an octet or
more, and the users that no listed address has. `DiscoveredHoldsSubnet` leaves out ranges that end beyond the block of
their start. `SyncedMeansUsable` is about a sync that finds its network: one whose network has gone leaves the condition
as it was. `Provider` has no pauses or edits, which the two modules have; `ClaimSide` and `PoolSide` show that their
assumptions about each other hold.

### Runs that find a disagreement

Each checks one statement of a doc or a comment that the code does not keep; `PROJECT.json` quotes it.

| Run | The code |
|---|---|
| `SharedMAC` | derives the MAC from the length of the claim's name: two claims get one address |
| `CacheTimeout` | lets a claim go whose address the cache does not show yet |
| `PoolOrphan` | judges an edit by the addresses that the cache lists: one whose user is created and whose `IPAddress` is not yet is left outside |
| `PoolLost` | serves claims from a pool that is being deleted, and lets it go under them |
| `SecondSubnet` | lets the webhook refuse the pool controller's own finalizer for an address of the second subnet: the status is never written |

### Disagreements without a run

Met while modelling; the models keep what the code does, and no run checks the promise.

| Where | The code | The promise |
|---|---|---|
| `client.go:210` | prefers the fixed IP left by an earlier claim of the name to a pre-allocation | "Takes priority over dynamic allocation" (`unifiippool_types.go:43`) |
| `client.go:210` | also does not ask in which network or subnet that fixed IP is: after a change of the pool's network it may be an address that another claim has by now | "Skip gateway and allocated IPs" (`docs/IMPLEMENTATION_SUMMARY.md:43`) |
| `client.go:286` | creates the user some requests after the static assignments were listed: a fixed IP that somebody gives to another device in between is given twice, if UniFi lets it | as above |
| `ipaddressclaim_controller.go:81` | `WithPredicates` wants one update to unpause the pool and to take it from no free address to some, which are different API calls: unpausing wakes no claim | "triggers on resources transitioning from paused to unpaused" (`predicates.go:28`) |
| `client.go:466` | dynamic allocation hands out addresses that are pre-allocated to others, and excluded ones | "ExcludeRanges is a list of IP ranges to exclude from allocation" (`unifiippool_types.go:98`) |
| `client.go:324` | a pre-allocated or requested address is not compared with the gateway | "This IP is never allocated." (`unifiippool_types.go:56`) |
| `client.go:259` | a `NotFoundError` ends the attempt, any other error leads on to an allocation | "that's expected, other errors should be returned" (`client.go:257`) |
| `ipaddressclaim_controller.go:303` | never removes a UniFi user | "Release IP addresses when resources are deleted" (`README.md:14`) |
| `unifiippool_controller.go:239` | stamps `lastSyncTime` when the sync failed too | "the last time the pool was successfully synced" (`unifiippool_types.go:141`) |
| `unifiippool_controller.go:230` | `Update` brings the stored count of addresses back over the computed one, until the next reconcile | "the number of addresses currently allocated" (`unifiippool_types.go:186`) |
| `unifiippool_controller.go:95`, `:105`, `:421` | the conditions `InstanceNotReady`, `NetworkDiscovered=True` and `SyncFailed` are never set | their reasons, and `docs/TEST_PLAN.md:501` |
| `address.go:49` | index 0 of a /32, or of an unmasked CIDR that ends its subnet, is an address outside it | "Returns an error if the index is out of range" (`address.go:28`) |
| `poolutil.go:241` | computes the size of a range in a byte: a /23 has 254 addresses, and shows none free while the allocator goes on | "the total number of addresses in the pool" (`unifiippool_types.go:182`) |
| `unifiippool_controller.go:375` | leaves `NetworkSynced` as it was, `True` for one, when the network has gone | "detects configuration drift and updates the pool's observed state" (`unifiippool_controller.go:353`) |
| `unifiippool_controller.go:450` | compares the CIDRs as strings: a pool whose first subnet is a range has none and always drifts | "detects configuration drift and updates the pool's observed state" (`unifiippool_controller.go:353`) |
| `unifiippool_controller.go:648` | looks a network up by the block of a range's start; the range may end beyond it | "Populated by matching configured subnets to Unifi network ranges" (`unifiippool_types.go:117`) |
| `unifiippool_controller.go:627` | discovers and compares with the first subnet's network only, and keeps its ID when the spec changes | as above |
| `client.go:718` | adds one to the last octet of the address the network is written with, which need not be its first | "Get the network address and add 1 for the gateway" (`client.go:710`) |
| `client.go:191` | computes exclude ranges from the DHCP range that nobody reads, in a form, "start-end", that `poolutil.go:145` skips and the webhook refuses | "exclude IPs outside the DHCP range" (`client.go:174`) |
| `unifiippool_controller.go:592` | reads the credentials in the pool's namespace, the instance controller in the instance's | `instanceRef.namespace` may name another one (`unifiippool_webhook.go:65`) |
| `unifiinstance_webhook.go:108` | looks for pools in the instance's own namespace only | "Blocks deletion if UnifiIPPools reference the instance" (`docs/WEBHOOKS.md:203`) |
| `unifiippool_webhook.go:157` | once the instance has gone, refuses also the update that removes a pool's finalizer: the pool stays until the instance is back | "bypass annotation supported" (`docs/WEBHOOKS.md:197`), which only the deletion's own check reads |
| `unifiippool_webhook.go:56`, `:73` | the markers name `versions=v1alpha1`, the API is `v1beta2`: manifests generated from them would not select it | the webhooks validate the pools (`docs/WEBHOOKS.md`) |
| `unifiinstance_controller.go:156` | an instance that is ready stays so when its secret or UniFi goes bad, until an event or the ten-hour resync | "Ready indicates whether the instance is ready for use" (`unifiinstance_types.go:47`) |
| `poolutil.go:123` | counts the pool's gateway as free | "the number of addresses available for allocation" (`unifiippool_types.go:190`) |

### Fairness

Safety runs use `Spec`, without fairness. `FairSpec` of `ClaimController` assumes

* weak fairness of event delivery: a watch stream makes progress, and is listed again when it breaks;
* weak fairness of a running reconcile (`Step`): requests return, if only with an error, and the wait is bounded;
* strong fairness of `Reconcile(c)`: the work queue is a FIFO with back-off, so that a name that is on it again and
  again is taken in the end, though the one worker is busy or prefers others at times.

`PoolController` and `InstanceController` have one name on their queue, so that weak fairness is enough. The `FairSpec`
of the first lets the retry of 30 s or 1 min happen in the end and not the resync of 10 min; `DriftReported` assumes
that one besides, since nothing watches the UniFi network. That of the second does not wait for the informer's resync
of ten hours. `Provider` takes over what the two controllers assume. Faults, edits and changes are never fair.

## What is proved

`tlapm` checks all of it for every value of the constants that meets the named assumptions: any number of claims,
addresses, faults, restarts, versions and subnets.

| Module | Theorem | States | Assumes |
|---|---|---|---|
| `ClaimControllerProofs` | `TypeCorrect` | `Spec => []TypeOK` | |
| `ClaimInvariantProofs` | `InvariantHolds` | `Spec => []IInv` | |
| | `UniqueFixedIPs` | `Spec => []FixedIPsUnique` | |
| | `AddressesAreFixedIPs` | `Spec => []AddressIsFixedIP` | |
| | `SharingIsExplained` | `Spec => []SharingExplained` | |
| | `PreAllocationsAreHonoured` | `Spec => PreAllocationHonoured` | |
| `LeaseProofs` | `LeasesAreSound` | `Spec => []LInv` | `Reliable` |
| | `NoOrphans` | `Spec => []NoOrphanAddress` | `Reliable` |
| | `BoundClaimsAreServed` | `Spec => []BoundClaimIsServed` | `Reliable` |
| | `AddressesStayProtected` | `Spec => AddressProtected` | `Reliable` |
| | `ContractImplemented` | `Spec => ImplementsContract` | `Reliable` |
| `PoolControllerProofs` | `TypeCorrect` | `Spec => []TypeOK` | |
| | `InvariantHolds` | `Spec => []PInv` | |
| | `AllocationsAreProtected` | `Spec => []AllocationsProtected` | |
| | `ListedAddressesHold` | `Spec => ListedAddressesHoldPool` | |
| | `EditsAreKept` | `Spec => EditsKept` | |
| `InstanceControllerProofs` | `TypeCorrect` | `Spec => []TypeOK` | |
| | `InvariantHolds` | `Spec => []InstInv` | |
| | `QuietMeansJudged` | `Spec => []JudgedWhenQuiet` | |
| | `VerdictsAreCurrent` | `Spec => VerdictOnCurrentSpec` | |
| `ProviderProofs` | `InvariantHolds` | `Spec => []ProviderInv` | |
| | `ClaimSideHolds` | `Spec => ClaimSide` | |
| | `PoolSideHolds` | `Spec => PoolSide` | |
| | `ServedClaimsHold` | `Spec => ServedClaimsHoldPool` | |
| | `LeasesHold` | `Spec => []` of `SharingIsOfMACs` and of `NoOrphanAddress`, `BoundClaimIsServed` of `C` | |
| | `AddressesStayProtected` | `Spec => C!AddressProtected` | |
| | `ContractImplemented` | `Spec => C!ImplementsContract` | |
| | `PoolsHold` | `Spec => []P!AllocationsProtected`, `P!ListedAddressesHoldPool`, `P!EditsKept` | |
| `PoolSpaceProofs` | `TypeCorrect` | `NetSpec => []NetTypeOK` | `PowersOfTwo` |
| | `AllocationsAreInRange`, `ExhaustedMeansFull`, `ListedAddressesStayInside` | `NetSpec => []AllocatorInRange`, `[]ExhaustedOnlyWhenFull`, `ListedStayInside` | `PowersOfTwo`, `SpecsAreRegular` |
| | `NetworksAreFound` | `NetSpec => []NetworkFound` | the same and `NetworksAreRegular` |
| | `DiscoveryHolds`, `SyncIsUsable` | `NetSpec => DiscoveredHoldsSubnet`, `SyncedMeansUsable` | `PowersOfTwo`, `SpecsAreRegular` |

Besides, all of them use the ASSUMEs of the modules, which give the kinds of the constants (`DataAssumption`,
`EnvironmentAssumption`, `SpaceAssumption`, ...) and say that `None` is no object. TLC evaluates those on each run.

### The assumptions

* `Reliable`: no reply is lost and no wait for the cache times out. Without it an address can be left behind (run
  `CacheTimeout`). Failed requests, conflicts, refused and `notFound` answers, changes of the pool, of its network and
  of other devices' addresses, and restarts at any call are allowed. `ProviderAssumption` says the same of the claim
  controller, and besides that there is no restart; the pool controller's replies may be lost.
* `SpecsAreRegular`, `NetworksAreRegular`: a CIDR is written with its network address, it and each network have two
  host bits or more, and nothing is excluded. For other specs the theorems are false, and the list above says where. A
  network of one or two addresses may hold all that a /30 hands out without containing the /30, which is what the
  lookup asks; no such network could serve a cluster.
* `PowersOfTwo`: `2^n` for `n` up to `AddressBits` is positive, at least 4 from `n = 2` on, and divisible by the
  smaller powers. It is arithmetic, but the provers do not know exponents and cannot do the induction. `MCPoolSpace`
  has TLC evaluate it with the two before it for its constants.

Nothing is assumed of `MacOf`: `generateMACAddress` gives claims whose names have one length one MAC, and the theorems
say of such claims what is true of them. In `Provider` there is one network, so that a common MAC is the only way to a
common address (`SharingIsOfMACs`).

### The arguments

**What is allocated** (`IInv`). A fixed IP is chosen among the free ones and, since there is one worker, it is still
free of the controller's own users in the job's network when the user is created (`ChosenIsFree`), whatever failed
before and whatever the pool's network is by then. So fixed IPs are unique in a network. An `IPAddress` is
written with that IP, or with the one it was found with. The exception is the step to be afraid of: the Get of
`CreateOrPatch` finds no address, the list of `EnsureAddress` shows one, and an address without an IP is sent. It is
refused only if the address still exists. It does: to be gone again it would have to lose its finalizer, which only
this worker removes, and this worker is busy with the claim; `MissingIsProtected` and `NewIsProtected` say so of all
the events on their way, `CacheCatchesUp` and `RemovalIsLast` tie these to the server and to the cache, and
`DroppedIsGone` covers the end of a deletion.

**For how long it is kept** (`LInv`, on top of `IInv`). The decision to delete is taken on a cached claim, which may
be of an
earlier incarnation of the name than the one the server has by then. It is harmless because of an order among the
versions that the cache shows and will show: a claim that had its finalizer is gone only after this worker removed it,
which it did on a version to be deleted; so the versions of finished incarnations come first, each to be deleted, and
while there are any the incarnation the server has is not yet protected (`FinishedFirst`) and has no address. Hence a
reconcile that deletes finds either nothing to lose or a claim that the cache will never show as live again
(`Leaving`, `DeletesLeaving`), and one that serves holds the incarnation of the server (`ServesCurrent`). An address
belongs to the claim there is, and the cache shows it unless this worker is waiting for it (`AddressOwned`): this is
where `Reliable` is needed, and why the code waits. What a reconcile finds on its next call it has to know
although others have acted; `ReconcileKnows` says what no one can change meanwhile.

**The contract.** With `LInv`, each step of `ClaimController` is mapped to `LeaseContract`: writing an address to the
beginning of a lease, and deleting one to its end, which the contract allows only to a claim on its way out; all else
leaves the leases alone. A lease is of an address in the network of the claim's user, so that leases of different
MACs differ because fixed IPs are unique in a network (`FixedIPsUnique`).

**Pools** (`PInv`). A pool is let go by what the cache of the addresses shows, and the cache may not show one that exists.
It need not show every one: an address that some status lists has been in the cache, and it has left the cache
since only if it is gone (`Seen`). Any version of a pool may be the one that a reconcile writes back, so the
invariant is about all of them, in the server, the cache, the events and in memory (`AllSound`). `JobFollowsBase`
says that memory differs from the version that was read in the status only, which is the reason that `Merge`,
conflicts and lost replies break neither `AllocationsProtected` nor `EditsKept`.

**Two controllers** (`ProviderInv`). `ClaimSide` and `PoolSide` cannot be proved one after the other: that a claim
step is one
that `PoolController` allows rests on the invariants of the claims, and the converse on those of the pool. So the
induction
is over all three at once, `Whole == ProviderInv /\ LInv /\ PInv`: each step is shown to be a step of `C` and of `P`,
hence
keeps `LInv` and `PInv`, and `ProviderInv` is shown to be kept besides. What is hard are names that come back. A pool
event
wakes the claims exactly when they can see a change, since a removal follows a version that was there
(`PoolComesAndGoes`): a pool cannot go twice in a row. An address is created once for each claim and UID, though its name
is free as soon as it is gone: by then the claim leaves in every version that is cached or on its way, so that no
reconcile takes up an attempt for it again (`ReleasedLeaves`). And the event of a removal says which address has gone only
through the cache: whatever the cache, the events and the server have of a name at one time belongs to one claim
(`OneOwner`, a part of `LInv`), so that the pool controller is never told of the wrong one.
`ServedClaimsHoldPool` follows from both sides: a bound claim that stays has its address (`BoundClaimIsServed`), and a
pool
whose status lists an address that exists does not go (`ListedAddressesHoldPool`).

**Instances** (`InstInv`). A reconcile may end without an error and without a write; nothing is lost by it since the
cache is
only behind while an event is on its way (`CacheCatchesUp`). `VerdictOnCurrentSpec` follows from the types and the
version check
alone.

**Addresses.** `AddressOf` of a regular subnet lies in its block, between the first and the last usable address, and the
index that yields an address is its distance from the first: so allocation finds the first free one, and fails only when
none is. That a block lies in a network, if one of its addresses does and it is not wider, is modular arithmetic; from
it follow the theorems about discovery and synchronisation. `ListedAddressesStayInside` is about edits: an
admitted spec has what is listed in its first subnet.

Only model-checked:

* Liveness (`ClaimEventuallyBound`, `ClaimEventuallyGone`, `StatusConverges`,
  `DeletionCompletes`, `DriftReported`, `EventuallyReady`, `WrongHostReported`, `StatusFollowsClaims`,
  `DeletionFollowsClaims`): out of the prover's reach.
* `FreeAgreesWithAllocator`: it compares cardinalities of sets, summed by a fold over the subnets, with arithmetic in a
  byte; a fold's value can only be proved by induction over data.

## What is not modelled

* The defaulting webhooks; formats that they and the API's patterns check; duplicates among pre-allocations; the
  annotation that skips the check of a deletion; `ValidateDelete` of an instance, whose pools `InstanceController` does
  not have (`PoolController` lets an instance go at any time, as one in another namespace may).
* The filter of claims that are paused by annotation themselves (`reconciler.go:96`): such a claim's own events are
  dropped, while those of its address, pool and cluster still enqueue it and `Reconcile` does not ask for the
  annotation. No claim of the models carries it.
* What UniFi does with a fixed IP that two users ask for, and how `GetNetwork` fails in the claim controller for a
  network that has gone: there it is a failed request.
* The claim controller does not ask for the instance's readiness, and a missing instance or secret is a failed request
  there.
* `ReleaseIP`, `CreateStaticAssignment`, `DeleteStaticAssignment`, `getExistingClientIPs`, `FindNextAvailableIP`,
  `AddressesToIPSet`, `ResourceNotPaused`: nothing calls them. The prefix, the DNS servers and the exclude ranges of
  `SyncNetworkToCIDR`: nothing reads them.
* IPv6, which the API's patterns exclude; values that do not parse; labels, owner references beyond the claim's UID,
  allocation details, network information.
* Time: timers fire at any time. Timestamps are part of an object's version in `InstanceController` only, where a
  write within the second of the last one makes a difference.
* More than one manager: leader election leaves one at work. Flags, health checks and manifests.

## What could come next

1. Restarts and lost replies in `Provider`. Its theorems rest on those of the two modules, which allow them, but the
   manager restarts with both controllers at once, and `Crash` of each module is one of its own caches.
2. The instance controller beside the two: its readiness bit is an environment choice in `PoolController`, and
   `VerdictOnCurrentSpec` would say what the bit is worth.
3. `NetworkLookup` as the sync step of `PoolController`, where it is now a choice between match and drift.
