------------------------------ MODULE VpnService ------------------------------
(* The connectivity services of the network operator: a point-to-point or mesh    *)
(* service creates one wireguard appliance per site, each appliance creates its   *)
(* virtual machine, waits for it and for its peers, installs the tunnel and adds  *)
(* the routes; the status of the appliances is folded back into the service.      *)
(*                                                                                *)
(* The operator is one event loop. Its Kubernetes calls are synchronous, so a     *)
(* handler is one step up to the only suspension it has: the installation, which  *)
(* runs in a thread with the peer information read before it. Handlers that fail  *)
(* are called again by kopf, and kopf stores their results after they return.     *)
EXTENDS Naturals, FiniteSets

CONSTANTS Sites,              \* the interfaces the service connects
          Kind,               \* "pointtopointservice" or "meshservice"
          MaxErrors,          \* bound on failing calls of the Kubernetes API
          MaxInstallFailures, \* bound on failing installations
          MaxCrashes,         \* bound on restarts of the operator
          MaxReports          \* bound on appliances reported as failed

\* What the constants must satisfy.
VpnAssumption ==
    /\ IsFiniteSet(Sites)
    /\ \/ Kind = "pointtopointservice" /\ \E a, b \in Sites : a # b /\ Sites = {a, b}
       \/ Kind = "meshservice" /\ \E a, b, c \in Sites : a # b /\ a # c /\ b # c
    /\ {MaxErrors, MaxInstallFailures, MaxCrashes, MaxReports} \subseteq Nat

VARIABLES
    spec,       \* what the service resource asks for: "valid", "malformed" or "no_subnetwork"
    service,    \* the create handler of the service: "new", "returned", "done" or "failed"
    configmap,  \* the generation of keys kept in the service's config map, 0 if there is none
    generated,  \* how many generations of keys were drawn
    edges,      \* the status the service keeps for each of its edges
    current,    \* status.currentStatus of the service
    appliance,  \* the appliance resources
    vm,         \* the virtual machine of each appliance
    tunnel,     \* the endpoints installed on each machine
    routes,     \* the peers each appliance has a route to
    job,        \* the installation that runs in a thread
    events,     \* the last change of each appliance not yet seen by servicestatus
    faults      \* what was spent of the bounds

vars == <<spec, service, configmap, generated, edges, current, appliance, vm, tunnel, routes, job,
          events, faults>>

Absent == [phase |-> "absent"]
NoJob == [kind |-> "none"]
NoTunnel == <<>>
Peers(s) == Sites \ {s}
Exists(s) == appliance[s].phase # "absent"

(* A set of calls may fail as long as the bound allows it.                        *)
Failing(calls) == {F \in SUBSET calls : faults.errors + Cardinality(F) <= MaxErrors}
Spend(F) == faults' = [faults EXCEPT !.errors = @ + Cardinality(F)]

Init ==
    /\ spec \in {"valid", "malformed", "no_subnetwork"}
    /\ service = "new"
    /\ configmap = 0 /\ generated = 0
    /\ edges = [s \in Sites |-> "none"]
    /\ current = "none"
    /\ appliance = [s \in Sites |-> Absent]
    /\ vm = [s \in Sites |-> "absent"]
    /\ tunnel = [s \in Sites |-> NoTunnel]
    /\ routes = [s \in Sites |-> {}]
    /\ job = [s \in Sites |-> NoJob]
    /\ events = [s \in Sites |-> "none"]
    /\ faults = [errors |-> 0, installs |-> 0, crashes |-> 0, reports |-> 0]

-------------------------------------------------------------------------------
(* The service resource.                                                          *)

\* Another generation of keys, one pair for each interface.
NewKeys == generated + 1

get_configmap(F) == IF "get_configmap" \in F THEN 0 ELSE configmap

\* Mutant of create_configmap: the keys just drawn are returned although the map exists.
create_configmap_overlooks(F) == IF "create_configmap" \in F THEN 0 ELSE NewKeys

(* A map that exists already, or any other error, leaves the caller without keys. *)
create_configmap(F) ==
    IF "create_configmap" \in F \/ configmap # 0 THEN 0 ELSE NewKeys

ServiceInfo(F) == IF get_configmap(F) # 0 THEN get_configmap(F) ELSE create_configmap(F)

SaveConfigmap(F) ==
    IF get_configmap(F) # 0
    THEN UNCHANGED <<configmap, generated>>
    ELSE /\ generated' = NewKeys
         /\ configmap' = IF configmap = 0 /\ "create_configmap" \notin F THEN NewKeys ELSE configmap

(* Only the site's own error and an existing resource keep an edge from being     *)
(* created, and neither is reported.                                              *)
create_vpn_edge(s, F, keys) ==
    IF Exists(s) \/ s \in F THEN appliance[s]
    ELSE [phase |-> "creating", keys |-> keys, status |-> "none", handled |-> "none"]

(* The sanity checks of both services: the interfaces, and a subnetwork for each. *)
InterfacesRefused(F) == spec # "valid" \/ "get_subnetwork" \in F

Refused(F) ==
    \/ Kind = "pointtopointservice" /\ ServiceInfo(F) = 0
    \/ InterfacesRefused(F)

CreateService ==
    /\ service = "new"
    /\ \E F \in Failing({"get_configmap", "create_configmap", "get_subnetwork"} \union Sites) :
          /\ Spend(F)
          /\ SaveConfigmap(F)
          /\ IF Refused(F)
             THEN service' = "failed" /\ UNCHANGED <<appliance, events>>
             ELSE IF ServiceInfo(F) = 0
             THEN UNCHANGED <<service, appliance, events>>
             ELSE /\ appliance' = [s \in Sites |-> create_vpn_edge(s, F, ServiceInfo(F))]
                  /\ events' = [s \in Sites |-> IF appliance'[s] = appliance[s] THEN events[s] ELSE "other"]
                  /\ service' = "returned"
    /\ UNCHANGED <<spec, edges, current, vm, tunnel, routes, job>>

(* kopf stores the result of the handler in the status of the service.            *)
StoreResult ==
    /\ service = "returned"
    /\ service' = "done"
    /\ edges' = [s \in Sites |-> "Pending"]
    /\ current' = "Pending"
    /\ UNCHANGED <<spec, configmap, generated, appliance, vm, tunnel, routes, job, events, faults>>

-------------------------------------------------------------------------------
(* The appliances.                                                                *)

ApiCalls(s) == {"create_compute", "get_compute", "get_subnet_info"} \union Peers(s)

(* Waiting for an address ends the handler with a temporary error; a peer whose   *)
(* machine does not exist, or cannot be read, has the address None.               *)
get_ip(s, F) == vm[s] = "RUNNING" /\ "get_compute" \notin F
AddressesKnown(s, F) == get_ip(s, F)

PeersKnown(s, F) ==
    /\ "get_subnet_info" \notin F
    /\ \A p \in Peers(s) \ F : vm[p] # "starting"

build_peers_info(s, F) ==
    [p \in Peers(s) |-> IF p \in F \/ vm[p] = "absent" THEN "None" ELSE "address"]

\* Mutant of create_compute: the machine is created once those of the peers are there.
create_compute_last(s, F) ==
    IF \E p \in Peers(s) : vm[p] = "absent" THEN vm[s]
    ELSE IF vm[s] = "absent" /\ "create_compute" \notin F THEN "starting" ELSE vm[s]

create_compute(s, F) == IF vm[s] = "absent" /\ "create_compute" \notin F THEN "starting" ELSE vm[s]

Changed(s, status) == events' = [events EXCEPT ![s] = status]

wireguardappliance(s) ==
    /\ Exists(s) /\ appliance[s].phase = "creating" /\ job[s] = NoJob
    /\ \E F \in Failing(ApiCalls(s)) :
          /\ Spend(F)
          /\ vm' = [vm EXCEPT ![s] = create_compute(s, F)]
          /\ job' = IF AddressesKnown(s, F) /\ PeersKnown(s, F)
                    THEN [job EXCEPT ![s] = [kind |-> "create", peers |-> build_peers_info(s, F)]]
                    ELSE job
    /\ UNCHANGED <<spec, service, configmap, generated, edges, current, appliance, tunnel, routes, events>>

(* Config Connector starts a machine some time after its resource was created.    *)
Boot(s) ==
    /\ vm[s] = "starting"
    /\ vm' = [vm EXCEPT ![s] = "RUNNING"]
    /\ UNCHANGED <<spec, service, configmap, generated, edges, current, appliance, tunnel, routes, job,
                   events, faults>>

(* A status write of the handler, which does not happen when its call fails.      *)
update_wireguard_status(s, status, F, call) ==
    IF call \in F THEN appliance[s] ELSE [appliance[s] EXCEPT !.status = status]

(* The exception path of a reinstallation: the status is set back, so that the    *)
(* retry sees the change from Running to Failed again.                            *)
ReinstallFailed(s, F) ==
    /\ appliance' = [appliance EXCEPT ![s] = update_wireguard_status(s, "Failed", F, "update_failed")]
    /\ Changed(s, "other")

(* An error while a route is looked up ends the handler; an error while it is     *)
(* created is only logged.                                                        *)
create_route(p, F) == IF p \in F THEN {} ELSE {p}

create_wireguard_routes(s, F) ==
    routes' = [routes EXCEPT ![s] = @ \union UNION { create_route(p, F) : p \in Peers(s) }]

(* An installation takes minutes: the result of the service's handler, stored     *)
(* right after it returned, is there before one ends.                             *)
InstallationEnds(s) == job[s] # NoJob /\ service # "returned" /\ service # "new"

InstallSucceeds(s) ==
    /\ InstallationEnds(s)
    /\ tunnel' = [tunnel EXCEPT ![s] = job[s].peers]
    /\ job' = [job EXCEPT ![s] = NoJob]
    /\ \E F \in Failing({"lookup", "update_running", "update_failed"} \union Peers(s)) :
          /\ Spend(F)
          /\ IF "lookup" \in F THEN UNCHANGED routes ELSE create_wireguard_routes(s, F)
          /\ \/ /\ job[s].kind = "create"
                /\ IF "lookup" \in F
                   THEN UNCHANGED <<appliance, events>>
                   ELSE /\ appliance' = [appliance EXCEPT ![s].phase = "active", ![s].status = "Running"]
                        /\ Changed(s, "Running")
             \/ /\ job[s].kind = "reinstall"
                /\ IF F \intersect {"lookup", "update_running"} # {}
                   THEN ReinstallFailed(s, F)
                   ELSE /\ appliance' = [appliance EXCEPT ![s].status = "Running", ![s].handled = "Failed"]
                        /\ Changed(s, "Running")
    /\ UNCHANGED <<spec, service, configmap, generated, edges, current, vm>>

InstallFails(s) ==
    /\ InstallationEnds(s)
    /\ faults.installs < MaxInstallFailures
    /\ job' = [job EXCEPT ![s] = NoJob]
    /\ \E F \in Failing({"update_failed"}) :
          /\ faults' = [faults EXCEPT !.errors = @ + Cardinality(F), !.installs = @ + 1]
          /\ IF job[s].kind = "create" THEN UNCHANGED <<appliance, events>> ELSE ReinstallFailed(s, F)
    /\ UNCHANGED <<spec, service, configmap, generated, edges, current, vm, tunnel, routes>>

(* The engineer reports a running appliance as failed, long after kopf recorded   *)
(* that it runs.                                                                  *)
ReportFailed(s) ==
    /\ Exists(s) /\ appliance[s].phase = "active"
    /\ appliance[s].status = "Running" /\ appliance[s].handled = "Running"
    /\ faults.reports < MaxReports
    /\ faults' = [faults EXCEPT !.reports = @ + 1]
    /\ appliance' = [appliance EXCEPT ![s].status = "Failed"]
    /\ Changed(s, "other")
    /\ UNCHANGED <<spec, service, configmap, generated, edges, current, vm, tunnel, routes, job>>

Reinstalls(s) == appliance[s].handled = "Running" /\ appliance[s].status = "Failed"

(* kopf calls the field handler with the status it last recorded and the present  *)
(* one, and records the present one when the handler succeeds.                    *)
handle_wireguard_status_change(s) ==
    /\ Exists(s) /\ appliance[s].phase = "active" /\ job[s] = NoJob
    /\ appliance[s].status # appliance[s].handled
    /\ IF Reinstalls(s)
       THEN \E F \in Failing((ApiCalls(s) \ {"create_compute"}) \union {"update_started", "update_failed"}) :
               /\ Spend(F)
               /\ IF "update_started" \notin F /\ AddressesKnown(s, F) /\ PeersKnown(s, F)
                  THEN /\ appliance' = [appliance EXCEPT ![s].status = "Reinstalling"]
                       /\ job' = [job EXCEPT ![s] = [kind |-> "reinstall", peers |-> build_peers_info(s, F)]]
                       /\ Changed(s, "other")
                  ELSE /\ appliance' = [appliance EXCEPT ![s].status =
                                          IF "update_failed" \in F /\ "update_started" \notin F
                                          THEN "Reinstalling" ELSE "Failed"]
                       /\ Changed(s, "other")
                       /\ UNCHANGED job
       ELSE /\ appliance' = [appliance EXCEPT ![s].handled = appliance[s].status]
            /\ Changed(s, IF appliance[s].status = "Running" THEN "Running" ELSE "other")
            /\ UNCHANGED <<job, faults>>
    /\ UNCHANGED <<spec, service, configmap, generated, edges, current, vm, tunnel, routes>>

-------------------------------------------------------------------------------
(* The status of the service.                                                     *)

MarkEdge(s) == IF events[s] = "Running" THEN [edges EXCEPT ![s] = "Running"] ELSE edges

updateStatus(s) ==
    IF service = "done"
    THEN /\ edges' = MarkEdge(s)
         /\ current' = IF \A t \in Sites : edges'[t] = "Running" THEN "Running" ELSE "Starting"
    ELSE UNCHANGED <<edges, current>>

(* A conflict is retried once; any other error, or a second conflict, loses the   *)
(* change.                                                                        *)
servicestatus(s) ==
    /\ events[s] # "none"
    /\ events' = [events EXCEPT ![s] = "none"]
    /\ \E F \in Failing({"update"}) :
          /\ Spend(F)
          /\ IF F = {} THEN updateStatus(s) ELSE UNCHANGED <<edges, current>>
    /\ UNCHANGED <<spec, service, configmap, generated, appliance, vm, tunnel, routes, job>>

-------------------------------------------------------------------------------
(* The operator restarts: running handlers and undelivered changes are lost, and  *)
(* a handler whose result was not stored is called again.                         *)
Restart ==
    /\ faults.crashes < MaxCrashes
    /\ faults' = [faults EXCEPT !.crashes = @ + 1]
    /\ service' = IF service = "returned" THEN "new" ELSE service
    /\ job' = [s \in Sites |-> NoJob]
    /\ events' = [s \in Sites |-> "none"]
    /\ UNCHANGED <<spec, configmap, generated, edges, current, appliance, vm, tunnel, routes>>

(* Nothing is left to do for the operator.                                        *)
Rest ==
    /\ service \in {"done", "failed"}
    /\ \A s \in Sites : /\ events[s] = "none" /\ job[s] = NoJob
                        /\ Exists(s) => appliance[s].phase = "active" /\ appliance[s].status = appliance[s].handled
    /\ UNCHANGED vars

SiteStep(s) ==
    \/ wireguardappliance(s)
    \/ Boot(s)
    \/ InstallSucceeds(s)
    \/ InstallFails(s)
    \/ ReportFailed(s)
    \/ handle_wireguard_status_change(s)
    \/ servicestatus(s)

Next == CreateService \/ StoreResult \/ Restart \/ Rest \/ \E s \in Sites : SiteStep(s)

Spec == Init /\ [][Next]_vars

-------------------------------------------------------------------------------
(* The two ends of a tunnel are configured from one set of keys: however often    *)
(* pointtopointservice or meshservice is called again, after failing calls of the *)
(* config map or a restart before its result was stored, all the appliances it    *)
(* created carry the keys the config map holds.                                   *)
PeersShareKeys == \A s \in Sites : Exists(s) => appliance[s].keys = configmap

(* updateStatus shows a service as Running only when the tunnel was installed on  *)
(* every one of its machines.                                                     *)
RunningServiceIsInstalled == current = "Running" => \A s \in Sites : tunnel[s] # NoTunnel

===============================================================================
