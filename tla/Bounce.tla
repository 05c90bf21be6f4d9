------------------------------- MODULE Bounce -------------------------------
(***************************************************************************)
(* address_space_map and address_space_unmap of exec.c, with the one       *)
(* bounce buffer for memory that is not directly accessible and the list   *)
(* of clients that wait for it.  Devices run in different threads: every   *)
(* access to bounce.in_use, and every critical section of                  *)
(* map_client_list_lock between two of them, is a step.                    *)
(***************************************************************************)
EXTENDS Naturals, FiniteSets

CONSTANTS
  Devices,     \* callers of address_space_map
  IoRegions,   \* regions without direct access
  RamRegions,  \* regions with direct access
  MaxMaps      \* bound: calls of address_space_map that are not retries

ASSUME BounceAssumption ==
  /\ MaxMaps \in Nat /\ IoRegions \cap RamRegions = {}
  /\ IsFiniteSet(Devices)

VARIABLES
  dpc,       \* where each device is
  request,   \* the region it maps
  in_use,    \* bounce.in_use
  bounce,    \* bounce.mr, bounce.addr and the data in bounce.buffer: whose they are, as a set
  clients,   \* map_client_list
  lockedBy,  \* who holds map_client_list_lock, as a set
  bh,        \* bottom halves that are scheduled
  refs,      \* references that mappings hold on each region
  maps

bounceVars == <<dpc, request, in_use, bounce, clients, lockedBy, bh, refs, maps>>

DevicePlaces == {"idle", "map", "fill", "mapped", "direct", "refused", "check", "waiting", "release", "notify"}
Regions == IoRegions \cup RamRegions

DeviceAt(d, where) == dpc[d] = where
DeviceGoes(d, where) == dpc' = [dpc EXCEPT ![d] = where]

BounceInit ==
  /\ dpc = [d \in Devices |-> "idle"]
  /\ \E r \in Regions : request = [d \in Devices |-> r]
  /\ in_use = FALSE
  /\ bounce = [mr |-> {}, addr |-> {}, buffer |-> {}]
  /\ clients = {} /\ lockedBy = {} /\ bh = {}
  /\ refs = [r \in Regions |-> 0]
  /\ maps = 0

-----------------------------------------------------------------------------
(* A device calls address_space_map.                                       *)
Map(d, r) ==
  /\ DeviceAt(d, "idle") /\ maps < MaxMaps
  /\ maps' = maps + 1
  /\ request' = [request EXCEPT ![d] = r]
  /\ DeviceGoes(d, "map")
  /\ UNCHANGED <<in_use, bounce, clients, lockedBy, bh, refs>>

(* Directly accessible memory: a reference, and the host pointer.          *)
MapDirect(d) ==
  /\ DeviceAt(d, "map") /\ request[d] \in RamRegions
  /\ refs' = [refs EXCEPT ![request[d]] = @ + 1]
  /\ DeviceGoes(d, "direct")
  /\ UNCHANGED <<request, in_use, bounce, clients, lockedBy, bh, maps>>

\* Fault: the buffer, not in_use, tells whether it is taken.
TakeBounce_buffer(d) ==
  /\ DeviceAt(d, "map") /\ request[d] \in IoRegions
  /\ in_use' = TRUE
  /\ DeviceGoes(d, IF bounce.buffer # {} THEN "refused" ELSE "fill")
  /\ UNCHANGED <<request, bounce, clients, lockedBy, bh, refs, maps>>

(* atomic_xchg(&bounce.in_use, true): whoever finds it set is refused.     *)
TakeBounce(d) ==
  /\ DeviceAt(d, "map") /\ request[d] \in IoRegions
  /\ in_use' = TRUE
  /\ DeviceGoes(d, IF in_use THEN "refused" ELSE "fill")
  /\ UNCHANGED <<request, bounce, clients, lockedBy, bh, refs, maps>>

(* The buffer is allocated, and filled for a read; its region referenced.  *)
FillBounce(d) ==
  /\ DeviceAt(d, "fill")
  /\ bounce' = [mr |-> {request[d]}, addr |-> {d}, buffer |-> {d}]
  /\ refs' = [refs EXCEPT ![request[d]] = @ + 1]
  /\ DeviceGoes(d, "mapped")
  /\ UNCHANGED <<request, in_use, clients, lockedBy, bh, maps>>

(* A device that was refused calls cpu_register_map_client, which takes    *)
(* the lock and puts it on the list.                                       *)
RegisterClient(d) ==
  /\ DeviceAt(d, "refused") /\ lockedBy = {}
  /\ lockedBy' = {d}
  /\ clients' = clients \cup {d}
  /\ DeviceGoes(d, "check")
  /\ UNCHANGED <<request, in_use, bounce, bh, refs, maps>>

(* Under the lock it reads in_use, and notifies all clients when the       *)
(* buffer has become free.                                                 *)
CheckInUse(d) ==
  /\ DeviceAt(d, "check")
  /\ IF in_use THEN UNCHANGED <<clients, bh>> ELSE bh' = bh \cup clients /\ clients' = {}
  /\ lockedBy' = {}
  /\ DeviceGoes(d, "waiting")
  /\ UNCHANGED <<request, in_use, bounce, refs, maps>>

(* The bottom half of a client runs: the device tries again.               *)
RunBh(d) ==
  /\ DeviceAt(d, "waiting") /\ d \in bh
  /\ bh' = bh \ {d}
  /\ DeviceGoes(d, "map")
  /\ UNCHANGED <<request, in_use, bounce, clients, lockedBy, refs, maps>>

(* A request is cancelled: cpu_unregister_map_client, and its bottom half  *)
(* is deleted.                                                             *)
Cancel(d) ==
  /\ DeviceAt(d, "waiting") /\ lockedBy = {}
  /\ clients' = clients \ {d}
  /\ bh' = bh \ {d}
  /\ DeviceGoes(d, "idle")
  /\ UNCHANGED <<request, in_use, bounce, lockedBy, refs, maps>>

(* address_space_unmap of a pointer into RAM.                              *)
UnmapDirect(d) ==
  /\ DeviceAt(d, "direct")
  /\ refs' = [refs EXCEPT ![request[d]] = @ - 1]
  /\ DeviceGoes(d, "idle")
  /\ UNCHANGED <<request, in_use, bounce, clients, lockedBy, bh, maps>>

\* Fault: the reference on the region is kept.
UnmapBounce_leak(d) ==
  /\ DeviceAt(d, "mapped")
  /\ bounce' = [bounce EXCEPT !.buffer = {}]
  /\ DeviceGoes(d, "release")
  /\ UNCHANGED <<request, in_use, clients, lockedBy, bh, refs, maps>>

(* address_space_unmap of the bounce buffer: a write goes to bounce.addr,  *)
(* buffer and region are let go.                                           *)
UnmapBounce(d) ==
  /\ DeviceAt(d, "mapped")
  /\ bounce' = [bounce EXCEPT !.buffer = {}]
  /\ refs' = [r \in Regions |-> IF r \in bounce.mr THEN refs[r] - 1 ELSE refs[r]]
  /\ DeviceGoes(d, "release")
  /\ UNCHANGED <<request, in_use, clients, lockedBy, bh, maps>>

ReleaseBounce(d) ==
  /\ DeviceAt(d, "release")
  /\ in_use' = FALSE
  /\ DeviceGoes(d, "notify")
  /\ UNCHANGED <<request, bounce, clients, lockedBy, bh, refs, maps>>

(* cpu_notify_map_clients.                                                 *)
NotifyClients(d) ==
  /\ DeviceAt(d, "notify") /\ lockedBy = {}
  /\ bh' = bh \cup clients /\ clients' = {}
  /\ DeviceGoes(d, "idle")
  /\ UNCHANGED <<request, in_use, bounce, lockedBy, refs, maps>>

-----------------------------------------------------------------------------
DeviceRuns(d) ==
  \/ MapDirect(d) \/ TakeBounce(d) \/ FillBounce(d)
  \/ RegisterClient(d) \/ CheckInUse(d) \/ RunBh(d)
  \/ UnmapDirect(d) \/ UnmapBounce(d) \/ ReleaseBounce(d) \/ NotifyClients(d)

BounceNext ==
  \E d \in Devices :
    \/ \E r \in Regions : Map(d, r)
    \/ Cancel(d)
    \/ DeviceRuns(d)

BounceSpec == BounceInit /\ [][BounceNext]_bounceVars

\* Every device is run, and unmaps what it has mapped.
BounceFairness == \A d \in Devices : WF_bounceVars(DeviceRuns(d))

-----------------------------------------------------------------------------
(* From atomic_xchg to atomic_mb_set the bounce buffer has one owner, and  *)
(* while it is mapped it holds the owner's region, address and data: a     *)
(* write at unmap goes where the owner wants it.                           *)
Owns(d) == dpc[d] \in {"fill", "mapped", "release"}
BounceOwned ==
  /\ \A d, e \in Devices : Owns(d) /\ Owns(e) => d = e
  /\ \A d \in Devices : Owns(d) => in_use
  /\ \A d \in Devices : dpc[d] = "mapped" => bounce = [mr |-> {request[d]}, addr |-> {d}, buffer |-> {d}]

(* A client that is refused while the buffer is being released is not      *)
(* forgotten: while clients are listed the buffer has an owner, who will   *)
(* notify them, or somebody is about to.                                   *)
NoForgottenClient ==
  clients # {} => \E d \in Devices : Owns(d) \/ dpc[d] \in {"notify", "check"}

(* A region is referenced once for every mapping of it, bounced or direct, *)
(* so that it cannot go away under a device, nor stay for ever.            *)
RefsBalanced ==
  \A r \in Regions :
    refs[r] = Cardinality({d \in Devices : dpc[d] \in {"mapped", "direct"} /\ request[d] = r})

(* A client that waits is notified, or gives up.                           *)
ClientNotified == \A d \in Devices : dpc[d] = "waiting" ~> dpc[d] # "waiting"
=============================================================================
