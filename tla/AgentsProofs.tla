---------------------------- MODULE AgentsProofs ----------------------------
(* Proofs about the parts of the cloud agents and of the network operator that *)
(* MCAgents runs: the topology graph agrees with the resources, the ends of a  *)
(* tunnel share their keys, a confirmation reaches the task that asked, the    *)
(* answer to a tool call continues one run, and the event stream of a run is a *)
(* sequence of whole messages.                                                 *)
EXTENDS MCAgents, Integers, Sequences, SequenceTheorems, TLAPS

----------------------------------------------------------------------------
(* The topology graph *)

Phases == {"absent", "live", "terminating", "gone"}

TopologyTypes ==
    /\ phase \in [Resources -> Phases]
    /\ due \in [Resources -> {"none", "create", "update", "delete"}]
    /\ edition \in [Resources -> Nat]
    /\ nodes \in [Resources -> Nat] /\ kg \in [Resources -> Nat]
    /\ manages \subseteq Resources \X Resources

\* The handler that is due fits the phase of the resource, an owner is there before
\* what it owns, and what exists has an edition.
DueFits ==
    \A r \in Resources :
        /\ due[r] \in {"create", "update"} => phase[r] = "live"
        /\ due[r] = "delete" => phase[r] = "terminating"
        /\ phase[r] # "absent" /\ Owner[r] # None => phase[Owner[r]] # "absent"
        /\ phase[r] = "live" => edition[r] # 0

Managed(r) == Owner[r] # None /\ phase[Owner[r]] = "live" => <<Owner[r], r>> \in manages

\* What create_node established once stays while update_node is due: it neither
\* makes a node nor the connection to the owner.
Established ==
    \A r \in Resources : phase[r] = "live" /\ due[r] # "create" => nodes[r] # 0 /\ Managed(r)

Forgotten(r) == /\ nodes[r] = 0
                /\ \A o \in Resources : <<o, r>> \notin manages
                /\ (\A c \in Resources : Owner[c] # r) => kg[r] = 0

\* The finalizer waits for delete_node, and nothing about the resource is written
\* after it but the description of a service.
Left ==
    \A r \in Resources :
        phase[r] \in {"terminating", "gone"} /\ due[r] = "none" => Forgotten(r)

TopologyInv == /\ TopologyTypes /\ DueFits /\ Established /\ Left
               /\ Topology!SettledIsMapped

LEMMA TopologyStart == Topology!Init => TopologyInv
BY TopologyConstants DEF Topology!Init, TopologyInv, TopologyTypes, DueFits, Established,
   Left, Forgotten, Managed, Phases, Topology!SettledIsMapped

\* What Kubernetes does to a resource leaves the tables alone.
LEMMA ResourceChanges ==
    ASSUME TopologyInv, NEW r \in Resources,
           \/ Topology!CreateResource(r) \/ Topology!EditResource(r)
           \/ Topology!DeleteResource(r) \/ Topology!RemoveFinalizer(r)
    PROVE  TopologyInv'
<1> USE TopologyConstants DEF Topology!GraphAssumption
<1>1. /\ TopologyTypes' /\ nodes' = nodes /\ kg' = kg /\ manages' = manages
  BY DEF TopologyInv, TopologyTypes, Topology!CreateResource, Topology!EditResource,
     Topology!DeleteResource, Topology!RemoveFinalizer, Topology!tables, Phases
<1>2. DueFits'
  BY DEF TopologyInv, TopologyTypes, DueFits, Topology!CreateResource, Topology!EditResource,
     Topology!DeleteResource, Topology!RemoveFinalizer, Topology!tables, Phases
<1>3. Established'
  BY <1>1 DEF TopologyInv, TopologyTypes, DueFits, Established, Managed,
     Topology!SettledIsMapped, Topology!CreateResource, Topology!EditResource,
     Topology!DeleteResource, Topology!RemoveFinalizer, Topology!tables, Phases
<1>4. Left'
  BY <1>1 DEF TopologyInv, TopologyTypes, DueFits, Left, Forgotten,
     Topology!CreateResource, Topology!EditResource, Topology!DeleteResource,
     Topology!RemoveFinalizer, Topology!tables, Phases
<1>5. Topology!SettledIsMapped'
  BY <1>1 DEF TopologyInv, TopologyTypes, DueFits, Topology!SettledIsMapped,
     Topology!CreateResource, Topology!EditResource, Topology!DeleteResource,
     Topology!RemoveFinalizer, Topology!tables, Phases
<1> QED  BY <1>1, <1>2, <1>3, <1>4, <1>5 DEF TopologyInv

LEMMA CreateNode ==
    ASSUME TopologyInv, NEW r \in Resources, Topology!create_node(r) PROVE TopologyInv'
<1> USE TopologyConstants DEF Topology!GraphAssumption
<1>1. PICK lost \in SUBSET Topology!Statements :
        /\ nodes' = Topology!UpsertNode(r, lost)
        /\ kg' = Topology!create_or_update_kg_resource_description_node(r, lost)
        /\ manages' = Topology!create_resource_connection(r, lost)
        /\ Topology!Report(r, lost,
              /\ "node" \notin lost
              /\ Topology!KgWritten(r, lost)
              /\ Owner[r] = None \/ ("manages" \notin lost /\ nodes'[r] # 0)
              /\ Topology!ConnectionsReported(r, lost))
  BY DEF Topology!create_node
<1>2. due[r] = "create" /\ phase[r] = "live" /\ phase' = phase /\ edition' = edition
  BY DEF Topology!create_node, TopologyInv, DueFits
<1>3. /\ nodes' = nodes \/ nodes' = [nodes EXCEPT ![r] = edition[r]]
      /\ kg' = kg \/ kg' = [kg EXCEPT ![r] = edition[r]]
      /\ manages' = manages \/ (Owner[r] # None /\ manages' = manages \cup {<<Owner[r], r>>})
      /\ due' = due \/ due' = [due EXCEPT ![r] = "none"]
  <2>1. nodes' = nodes \/ nodes' = [nodes EXCEPT ![r] = edition[r]]
    BY <1>1 DEF Topology!UpsertNode, Topology!Body
  <2>2. kg' = kg \/ kg' = [kg EXCEPT ![r] = edition[r]]
    BY <1>1 DEF Topology!create_or_update_kg_resource_description_node, Topology!Body
  <2>3. manages' = manages \/ (Owner[r] # None /\ manages' = manages \cup {<<Owner[r], r>>})
    BY <1>1 DEF Topology!create_resource_connection
  <2>4. due' = due \/ due' = [due EXCEPT ![r] = "none"]
    BY <1>1 DEF Topology!Report, TopologyInv, TopologyTypes
  <2> QED  BY <2>1, <2>2, <2>3, <2>4
<1>4. ASSUME due'[r] = "none"
      PROVE  /\ nodes' = [nodes EXCEPT ![r] = edition[r]] /\ kg' = [kg EXCEPT ![r] = edition[r]]
             /\ Owner[r] # None => <<Owner[r], r>> \in manages'
  <2>1. /\ "node" \notin lost /\ Topology!KgWritten(r, lost)
        /\ Owner[r] = None \/ ("manages" \notin lost /\ nodes'[r] # 0)
    BY <1>1, <1>2, <1>4 DEF Topology!Report, TopologyInv, TopologyTypes
  <2> QED
    BY <1>1, <2>1 DEF Topology!UpsertNode, Topology!Body, Topology!create_resource_connection,
       Topology!create_or_update_kg_resource_description_node
<1>5. TopologyTypes'
  BY <1>2, <1>3 DEF TopologyInv, TopologyTypes
<1>6. DueFits'
  BY <1>2, <1>3 DEF TopologyInv, TopologyTypes, DueFits
<1>7. Established'
  BY <1>2, <1>3, <1>4 DEF TopologyInv, TopologyTypes, DueFits, Established, Managed
<1>8. Left'
  <2> SUFFICES ASSUME NEW q \in Resources, phase[q] \in {"terminating", "gone"}, due'[q] = "none"
               PROVE  Forgotten(q)'
    BY <1>2 DEF Left
  <2>1. q # r /\ due[q] = "none" /\ Forgotten(q)
    BY <1>2, <1>3 DEF TopologyInv, TopologyTypes, Left
  <2> QED  BY <1>3, <2>1 DEF Forgotten, TopologyInv, TopologyTypes
<1>9. Topology!SettledIsMapped'
  BY <1>2, <1>3, <1>4 DEF TopologyInv, TopologyTypes, DueFits, Topology!SettledIsMapped
<1> QED  BY <1>5, <1>6, <1>7, <1>8, <1>9 DEF TopologyInv

LEMMA UpdateNode ==
    ASSUME TopologyInv, NEW r \in Resources, Topology!update_node(r) PROVE TopologyInv'
<1> USE TopologyConstants DEF Topology!GraphAssumption
<1>1. PICK lost \in SUBSET Topology!Statements :
        /\ nodes' = Topology!UpdateNode(r, lost)
        /\ kg' = Topology!create_or_update_kg_resource_description_node(r, lost)
        /\ Topology!Report(r, lost, /\ "node" \notin lost /\ Topology!KgWritten(r, lost)
                                    /\ Topology!ConnectionsReported(r, lost))
  BY DEF Topology!update_node, Topology!Statements
<1>2. /\ due[r] = "update" /\ phase[r] = "live" /\ nodes[r] # 0
      /\ phase' = phase /\ edition' = edition /\ manages' = manages
  BY DEF Topology!update_node, TopologyInv, DueFits, Established
<1>3. /\ nodes' = nodes \/ nodes' = [nodes EXCEPT ![r] = edition[r]]
      /\ kg' = kg \/ kg' = [kg EXCEPT ![r] = edition[r]]
      /\ due' = due \/ due' = [due EXCEPT ![r] = "none"]
  <2>1. nodes' = nodes \/ nodes' = [nodes EXCEPT ![r] = edition[r]]
    BY <1>1 DEF Topology!UpdateNode, Topology!Body
  <2>2. kg' = kg \/ kg' = [kg EXCEPT ![r] = edition[r]]
    BY <1>1 DEF Topology!create_or_update_kg_resource_description_node, Topology!Body
  <2>3. due' = due \/ due' = [due EXCEPT ![r] = "none"]
    BY <1>1 DEF Topology!Report, TopologyInv, TopologyTypes
  <2> QED  BY <2>1, <2>2, <2>3
<1>4. due'[r] = "none" =>
        nodes' = [nodes EXCEPT ![r] = edition[r]] /\ kg' = [kg EXCEPT ![r] = edition[r]]
  BY <1>1, <1>2 DEF Topology!Report, Topology!UpdateNode, Topology!Body, TopologyInv, TopologyTypes,
     Topology!create_or_update_kg_resource_description_node
<1>5. TopologyTypes'
  BY <1>2, <1>3 DEF TopologyInv, TopologyTypes
<1>6. DueFits'
  BY <1>2, <1>3 DEF TopologyInv, TopologyTypes, DueFits
<1>7. Established'
  BY <1>2, <1>3, <1>4 DEF TopologyInv, TopologyTypes, DueFits, Established, Managed
<1>8. Left'
  BY <1>2, <1>3 DEF TopologyInv, TopologyTypes, Left, Forgotten
<1>9. Topology!SettledIsMapped'
  BY <1>2, <1>3, <1>4 DEF TopologyInv, TopologyTypes, DueFits, Established, Managed,
     Topology!SettledIsMapped
<1> QED  BY <1>5, <1>6, <1>7, <1>8, <1>9 DEF TopologyInv

\* Deletion takes rows of the resource, which is not live, and of its own connections.
LEMMA DeleteNode ==
    ASSUME TopologyInv, NEW r \in Resources, Topology!delete_node(r) PROVE TopologyInv'
<1> USE TopologyConstants DEF Topology!GraphAssumption
<1>1. PICK lost \in SUBSET Topology!Statements :
        /\ manages' = Topology!delete_node_resource_connections(r, lost)
        /\ nodes' = Topology!delete_network_node(r, lost)
        /\ kg' = Topology!delete_kg_resource_description_node(r, lost)
        /\ Topology!Report(r, lost, Topology!Deleted(lost))
  BY DEF Topology!delete_node, Topology!Statements
<1>2. /\ due[r] = "delete" /\ phase[r] = "terminating"
      /\ phase' = phase /\ edition' = edition
  BY DEF Topology!delete_node, TopologyInv, DueFits
<1>3. /\ nodes' = nodes \/ nodes' = [nodes EXCEPT ![r] = 0]
      /\ kg' = kg \/ kg' = [kg EXCEPT ![r] = 0]
      /\ due' = due \/ due' = [due EXCEPT ![r] = "none"]
  <2>1. nodes' = nodes \/ nodes' = [nodes EXCEPT ![r] = 0]
    BY <1>1 DEF Topology!delete_network_node
  <2>2. kg' = kg \/ kg' = [kg EXCEPT ![r] = 0]
    BY <1>1 DEF Topology!delete_kg_resource_description_node
  <2>3. due' = due \/ due' = [due EXCEPT ![r] = "none"]
    BY <1>1 DEF Topology!Report, TopologyInv, TopologyTypes
  <2> QED  BY <2>1, <2>2, <2>3
<1>4. /\ manages' \subseteq manages
      /\ \A p, q \in Resources : p # r /\ q # r /\ <<p, q>> \in manages => <<p, q>> \in manages'
  BY <1>1 DEF Topology!delete_node_resource_connections, Topology!Touching
<1>5. ASSUME due'[r] = "none" PROVE Forgotten(r)'
  <2>1. Topology!Deleted(lost)
    BY <1>1, <1>2, <1>5 DEF Topology!Report, TopologyInv, TopologyTypes
  <2>2. {"node", "kg", "manages"} \cap lost = {} /\ Topology!Unlinked(lost)
    BY <2>1 DEF Topology!Deleted, Topology!Unlinked
  <2>3. nodes'[r] = 0 /\ kg'[r] = 0
    BY <1>1, <2>2 DEF Topology!delete_network_node, Topology!delete_kg_resource_description_node,
       TopologyInv, TopologyTypes
  <2>4. \A o \in Resources : <<o, r>> \notin manages'
    BY <1>1, <2>2 DEF Topology!delete_node_resource_connections, Topology!Touching
  <2> QED  BY <2>3, <2>4 DEF Forgotten
<1>6. TopologyTypes'
  BY <1>2, <1>3, <1>4 DEF TopologyInv, TopologyTypes
<1>7. DueFits'
  BY <1>2, <1>3 DEF TopologyInv, TopologyTypes, DueFits
<1>8. Established'
  BY <1>2, <1>3, <1>4 DEF TopologyInv, TopologyTypes, Established, Managed
<1>9. Left'
  <2> SUFFICES ASSUME NEW q \in Resources, phase[q] \in {"terminating", "gone"}, due'[q] = "none",
                      q # r
               PROVE  Forgotten(q)'
    BY <1>2, <1>5 DEF Left
  <2> QED  BY <1>3, <1>4 DEF Forgotten, Left, TopologyInv, TopologyTypes
<1>10. Topology!SettledIsMapped'
  BY <1>2, <1>3, <1>4 DEF TopologyInv, TopologyTypes, Topology!SettledIsMapped
<1> QED  BY <1>6, <1>7, <1>8, <1>9, <1>10 DEF TopologyInv

\* The writers outside of graph/ make no node and no connection, and what they write
\* of a resource with no handler due is what is there.
LEMMA StatusUpdate ==
    ASSUME TopologyInv, NEW r \in Resources, Topology!status_update(r) PROVE TopologyInv'
<1> USE TopologyConstants DEF Topology!GraphAssumption
<1>1. PICK lost \in SUBSET {"node", "kg"} : Topology!update_network_node(r, lost)
  BY DEF Topology!status_update
<1>2. /\ phase[r] = "live" /\ due' = due /\ phase' = phase /\ edition' = edition
      /\ manages' = manages
  BY <1>1 DEF Topology!status_update, Topology!update_network_node
<1>3. /\ nodes' = nodes \/ nodes' = [nodes EXCEPT ![r] = edition[r]]
      /\ kg' = kg \/ kg' = [kg EXCEPT ![r] = edition[r]]
  <2>1. nodes' = nodes \/ nodes' = [nodes EXCEPT ![r] = edition[r]]
    BY <1>1 DEF Topology!update_network_node, Topology!UpdateNode, Topology!Body
  <2>2. kg' = kg \/ kg' = [kg EXCEPT ![r] = edition[r]]
    BY <1>1 DEF Topology!update_network_node, Topology!Body,
       Topology!create_or_update_kg_resource_description_node
  <2> QED  BY <2>1, <2>2
<1>4. TopologyTypes' /\ DueFits'
  BY <1>2, <1>3 DEF TopologyInv, TopologyTypes, DueFits
<1>5. Established'
  BY <1>2, <1>3 DEF TopologyInv, TopologyTypes, DueFits, Established, Managed
<1>6. Left'
  BY <1>2, <1>3 DEF TopologyInv, TopologyTypes, Left, Forgotten
<1>7. Topology!SettledIsMapped'
  BY <1>2, <1>3 DEF TopologyInv, TopologyTypes, Topology!SettledIsMapped
<1> QED  BY <1>4, <1>5, <1>6, <1>7 DEF TopologyInv

LEMMA UpdateStatus ==
    ASSUME TopologyInv, NEW s \in Resources, Topology!updateStatus(s) PROVE TopologyInv'
<1> USE TopologyConstants DEF Topology!GraphAssumption
<1>1. /\ \E c \in Resources : Owner[c] = s
      /\ phase[s] \in {"live", "terminating"} /\ phase' = phase /\ manages' = manages
  BY DEF Topology!updateStatus, Topology!Exists
<1>2. \/ edition' = edition /\ due' = due
      \/ /\ edition' = [edition EXCEPT ![s] = @ + 1]
         /\ due' = due \/ due' = [due EXCEPT ![s] = "update"]
         /\ due'[s] \in {"create", "update", "delete", "none"}
         /\ phase[s] = "live" => due'[s] \in {"create", "update"}
         /\ phase[s] = "terminating" \/ due[s] = "create" => due' = due
  <2>1. CASE edition' = edition /\ due' = due
    BY <2>1
  <2>2. CASE /\ edition' = [edition EXCEPT ![s] = @ + 1]
             /\ due' = [due EXCEPT ![s] =
                          IF phase[s] = "live" /\ @ # "create" THEN "update" ELSE @]
    BY <2>2 DEF TopologyInv, TopologyTypes
  <2> QED  BY <2>1, <2>2 DEF Topology!updateStatus, Topology!PatchService
<1>3. /\ nodes' = nodes \/ (nodes[s] # 0 /\ nodes' = [nodes EXCEPT ![s] = edition'[s]])
      /\ kg' = kg \/ kg' = [kg EXCEPT ![s] = edition'[s]]
  BY DEF Topology!updateStatus
<1>4. edition' \in [Resources -> Nat] /\ (edition[s] # 0 => edition'[s] # 0)
  BY <1>2 DEF TopologyInv, TopologyTypes
<1>5. TopologyTypes'
  BY <1>1, <1>2, <1>3, <1>4 DEF TopologyInv, TopologyTypes
<1>6. DueFits'
  BY <1>1, <1>2, <1>4 DEF TopologyInv, TopologyTypes, DueFits
<1>7. Established'
  BY <1>1, <1>2, <1>3, <1>4 DEF TopologyInv, TopologyTypes, DueFits, Established, Managed
<1>8. Left'
  BY <1>1, <1>2, <1>3 DEF TopologyInv, TopologyTypes, Left, Forgotten
<1>9. Topology!SettledIsMapped'
  BY <1>1, <1>2, <1>3, <1>4 DEF TopologyInv, TopologyTypes, Topology!SettledIsMapped
<1> QED  BY <1>5, <1>6, <1>7, <1>8, <1>9 DEF TopologyInv

LEMMA TopologyStep == TopologyInv /\ [Topology!Next]_topologyVars => TopologyInv'
<1> SUFFICES ASSUME TopologyInv, [Topology!Next]_topologyVars PROVE TopologyInv'
  OBVIOUS
<1>1. ASSUME UNCHANGED topologyVars PROVE TopologyInv'
  BY <1>1 DEF TopologyInv, TopologyTypes, DueFits, Established, Managed, Left, Forgotten,
     Topology!SettledIsMapped, topologyVars
<1>2. ASSUME Topology!Next PROVE TopologyInv'
  BY <1>2, ResourceChanges, CreateNode, UpdateNode, DeleteNode, StatusUpdate, UpdateStatus
     DEF Topology!Next, Topology!Handler
<1> QED  BY <1>1, <1>2

(* Whatever resources there are, whichever statements of a handler fail, are cut  *)
(* off or repeated, and whichever status is written beside it, a resource with no *)
(* handler due is in the graph as it is now, under its owner, and one that is     *)
(* gone has left no node, no owner that manages it and, unless it owned           *)
(* something, no description (graph/lifecycle.py, create_node, update_node,       *)
(* delete_node; vpn/utils/status.py, updateStatus).                               *)
THEOREM Mapped == Spec => []TopologyIsCurrent
<1> DEFINE I == part = "topology" => TopologyInv
<1>1. Init => I
  BY TopologyStart DEF Init
<1>2. I /\ [Next]_vars => I'
  <2> SUFFICES ASSUME I, [Next]_vars, part' = "topology" PROVE TopologyInv'
    OBVIOUS
  <2>1. part = "topology" /\ [Topology!Next]_topologyVars
    BY DEF Next, vars
  <2> QED  BY <2>1, TopologyStep
<1>3. I => TopologyIsCurrent
  <2> SUFFICES ASSUME TopologyInv PROVE Topology!GoneIsForgotten
    BY DEF TopologyIsCurrent, TopologyInv
  <2> QED  BY DEF Topology!GoneIsForgotten, TopologyInv, TopologyTypes, DueFits, Left, Forgotten
<1> QED  BY <1>1, <1>2, <1>3, PTL DEF Spec

----------------------------------------------------------------------------
(* The VPN services *)

Statuses == {"none", "Running", "Failed", "Reinstalling"}
Appliance == [phase : {"creating", "active"}, keys : Nat, status : Statuses, handled : Statuses]
Changes == {"none", "other", "Running"}

VpnTypes ==
    /\ configmap \in Nat /\ generated \in Nat
    /\ edges \in [Sites -> {"none", "Pending", "Running"}] /\ events \in [Sites -> Changes]
    /\ appliance \in [Sites -> Appliance \cup {Vpn!Absent}]
    /\ DOMAIN tunnel = Sites /\ tunnel = [s \in Sites |-> tunnel[s]]
    /\ DOMAIN job = Sites /\ job = [s \in Sites |-> job[s]]

\* An appliance was created with the keys the map holds since then.
KeysKept == \A s \in Sites : Vpn!Exists(s) => appliance[s].keys = configmap /\ configmap # 0

Installed(s) == tunnel[s] # Vpn!NoTunnel

\* The status of an appliance, the change not seen yet and the edge say that it runs
\* only when its tunnel was installed, and an installation brings one.
InstalledFirst ==
    \A s \in Sites :
        /\ job[s] # Vpn!NoJob => Vpn!Exists(s) /\ job[s].peers # Vpn!NoTunnel
        /\ Vpn!Exists(s) /\ appliance[s].status = "Running" => Installed(s)
        /\ events[s] = "Running" => Installed(s)
        /\ edges[s] = "Running" => Installed(s)

VpnInv == VpnTypes /\ KeysKept /\ InstalledFirst /\ Vpn!RunningServiceIsInstalled

LEMMA VpnStart == Vpn!Init => VpnInv
BY DEF Vpn!Init, VpnInv, VpnTypes, KeysKept, InstalledFirst, Vpn!RunningServiceIsInstalled,
   Vpn!Exists, Vpn!Absent, Vpn!NoJob, Changes

\* Every site has a peer, so an installation is never the empty function.
LEMMA PeersInstalled ==
    ASSUME NEW s \in Sites, NEW F PROVE Vpn!build_peers_info(s, F) # Vpn!NoTunnel
<1>1. PICK p \in Vpn!Peers(s) : TRUE
  BY VpnConstants DEF Vpn!VpnAssumption, Vpn!Peers
<1>2. DOMAIN Vpn!build_peers_info(s, F) = Vpn!Peers(s)
  BY DEF Vpn!build_peers_info
<1>3. DOMAIN Vpn!NoTunnel = {}
  BY DEF Vpn!NoTunnel
<1> QED  BY <1>1, <1>2, <1>3

\* Keys are handed to new appliances only together with the map that holds them.
LEMMA ServiceCreated == VpnInv /\ Vpn!CreateService => VpnInv'
<1> SUFFICES ASSUME VpnInv, Vpn!CreateService PROVE VpnInv'
  OBVIOUS
<1>1. PICK F :
        /\ Vpn!SaveConfigmap(F)
        /\ \/ UNCHANGED <<appliance, events>>
           \/ /\ Vpn!ServiceInfo(F) # 0
              /\ appliance' = [s \in Sites |-> Vpn!create_vpn_edge(s, F, Vpn!ServiceInfo(F))]
              /\ events' = [s \in Sites |->
                             IF appliance'[s] = appliance[s] THEN events[s] ELSE "other"]
  BY DEF Vpn!CreateService
<1>2. UNCHANGED <<edges, current, tunnel, job>>
  BY DEF Vpn!CreateService
<1>3. /\ configmap' \in Nat /\ generated' \in Nat
      /\ configmap # 0 => configmap' = configmap
      /\ Vpn!ServiceInfo(F) # 0 => Vpn!ServiceInfo(F) = configmap'
  BY <1>1 DEF Vpn!SaveConfigmap, Vpn!ServiceInfo, Vpn!get_configmap, Vpn!create_configmap,
     Vpn!NewKeys, VpnInv, VpnTypes
<1>4. CASE UNCHANGED <<appliance, events>>
  BY <1>2, <1>3, <1>4 DEF VpnInv, VpnTypes, KeysKept, InstalledFirst, Installed,
     Vpn!RunningServiceIsInstalled, Vpn!Exists
<1>5. CASE /\ Vpn!ServiceInfo(F) # 0
           /\ appliance' = [s \in Sites |-> Vpn!create_vpn_edge(s, F, Vpn!ServiceInfo(F))]
           /\ events' = [s \in Sites |->
                          IF appliance'[s] = appliance[s] THEN events[s] ELSE "other"]
  <2> DEFINE new == [phase |-> "creating", keys |-> configmap', status |-> "none",
                     handled |-> "none"]
  <2>1. new \in Appliance /\ new.phase # "absent" /\ new.keys = configmap' /\ new.status # "Running"
    BY <1>3 DEF Appliance, Statuses
  <2>2. ASSUME NEW s \in Sites
        PROVE  \/ appliance'[s] = appliance[s] /\ (Vpn!Exists(s) \/ appliance[s] = Vpn!Absent)
               \/ appliance'[s] = new
    BY <1>3, <1>5 DEF Vpn!create_vpn_edge, Vpn!Exists, VpnInv, VpnTypes, Appliance
  <2> HIDE DEF new
  <2>3. VpnTypes'
    <3>1. appliance' \in [Sites -> Appliance \cup {Vpn!Absent}]
      BY <1>5, <2>1, <2>2 DEF VpnInv, VpnTypes
    <3> QED  BY <1>2, <1>3, <1>5, <3>1 DEF VpnInv, VpnTypes, Changes
  <2>4. KeysKept'
    BY <1>3, <1>5, <2>1, <2>2 DEF VpnInv, KeysKept, Vpn!Exists
  <2>5. InstalledFirst'
    BY <1>2, <1>5, <2>1, <2>2 DEF VpnInv, InstalledFirst, Installed, Vpn!Exists
  <2>6. Vpn!RunningServiceIsInstalled'
    BY <1>2 DEF VpnInv, Vpn!RunningServiceIsInstalled
  <2> QED  BY <2>3, <2>4, <2>5, <2>6 DEF VpnInv
<1> QED  BY <1>1, <1>4, <1>5

\* The change of an appliance that exists already.
LEMMA ApplianceChanges ==
    ASSUME VpnInv, NEW s \in Sites, Vpn!Exists(s),
           NEW a \in Appliance, NEW e \in Changes,
           a.keys = appliance[s].keys,
           appliance' = [appliance EXCEPT ![s] = a],
           events' = [events EXCEPT ![s] = e],
           UNCHANGED <<configmap, generated, edges, current>>,
           DOMAIN tunnel' = Sites, tunnel' = [t \in Sites |-> tunnel'[t]],
           DOMAIN job' = Sites, job' = [t \in Sites |-> job'[t]],
           \A t \in Sites : Installed(t) => Installed(t)',
           \A t \in Sites : job'[t] # Vpn!NoJob => Vpn!Exists(t) /\ job'[t].peers # Vpn!NoTunnel,
           "Running" \in {a.status, e} => Installed(s)'
    PROVE  VpnInv'
<1>1. VpnTypes'
  BY DEF VpnInv, VpnTypes
<1>2. KeysKept'
  BY DEF VpnInv, VpnTypes, KeysKept, Vpn!Exists
<1>3. InstalledFirst'
  <2>1. a.phase # "absent"
    BY DEF Appliance
  <2> QED  BY <2>1 DEF VpnInv, VpnTypes, InstalledFirst, Vpn!Exists
<1>4. Vpn!RunningServiceIsInstalled'
  BY DEF VpnInv, Vpn!RunningServiceIsInstalled, Installed
<1> QED  BY <1>1, <1>2, <1>3, <1>4 DEF VpnInv

\* A handler that begins leaves the appliance alone or starts an installation.
LEMMA ApplianceHandled ==
    ASSUME VpnInv, NEW s \in Sites, Vpn!wireguardappliance(s) \/ Vpn!Boot(s) PROVE VpnInv'
<1>1. \/ job' = job
      \/ \E F : job' = [job EXCEPT ![s] = [kind |-> "create", peers |-> Vpn!build_peers_info(s, F)]]
  BY DEF Vpn!wireguardappliance, Vpn!Boot
<1>2. UNCHANGED <<configmap, generated, edges, current, appliance, tunnel, events>>
  BY DEF Vpn!wireguardappliance, Vpn!Boot
<1>3. /\ DOMAIN job' = Sites /\ job' = [t \in Sites |-> job'[t]]
      /\ \A t \in Sites : job'[t] # Vpn!NoJob => Vpn!Exists(t) /\ job'[t].peers # Vpn!NoTunnel
  BY <1>1, PeersInstalled DEF VpnInv, VpnTypes, InstalledFirst, Vpn!wireguardappliance, Vpn!Boot
<1> QED
  BY <1>2, <1>3 DEF VpnInv, VpnTypes, KeysKept, InstalledFirst, Installed,
     Vpn!RunningServiceIsInstalled, Vpn!Exists

\* An installation runs for an appliance that exists.
LEMMA InstallationOver ==
    ASSUME VpnInv, NEW s \in Sites, Vpn!InstallSucceeds(s) \/ Vpn!InstallFails(s) PROVE VpnInv'
<1>1. UNCHANGED <<configmap, generated, edges, current>> /\ job[s] # Vpn!NoJob
  BY DEF Vpn!InstallSucceeds, Vpn!InstallFails, Vpn!InstallationEnds
<1>2. job' = [job EXCEPT ![s] = Vpn!NoJob]
  BY DEF Vpn!InstallSucceeds, Vpn!InstallFails
<1>3. tunnel' = tunnel \/ tunnel' = [tunnel EXCEPT ![s] = job[s].peers]
  BY DEF Vpn!InstallSucceeds, Vpn!InstallFails
<1>4. /\ DOMAIN job' = Sites /\ job' = [t \in Sites |-> job'[t]]
      /\ \A t \in Sites : job'[t] # Vpn!NoJob => Vpn!Exists(t) /\ job'[t].peers # Vpn!NoTunnel
  BY <1>2 DEF VpnInv, VpnTypes, InstalledFirst
<1>5. /\ DOMAIN tunnel' = Sites /\ tunnel' = [t \in Sites |-> tunnel'[t]]
      /\ \A t \in Sites : Installed(t) => Installed(t)'
      /\ Vpn!InstallSucceeds(s) => Installed(s)'
  <2>1. job[s].peers # Vpn!NoTunnel
    BY <1>1 DEF VpnInv, InstalledFirst
  <2>2. Vpn!InstallSucceeds(s) => tunnel' = [tunnel EXCEPT ![s] = job[s].peers]
    BY DEF Vpn!InstallSucceeds
  <2> QED  BY <1>3, <2>1, <2>2 DEF VpnInv, VpnTypes, Installed
<1> DEFINE up == [appliance[s] EXCEPT !.phase = "active", !.status = "Running"]
           upAgain == [appliance[s] EXCEPT !.status = "Running", !.handled = "Failed"]
           down == [appliance[s] EXCEPT !.status = "Failed"]
<1>6. \/ UNCHANGED <<appliance, events>>
      \/ \E a \in {up, upAgain} : /\ Vpn!InstallSucceeds(s)
                                    /\ appliance' = [appliance EXCEPT ![s] = a]
                                    /\ events' = [events EXCEPT ![s] = "Running"]
      \/ \E a \in {appliance[s], down} :
            appliance' = [appliance EXCEPT ![s] = a] /\ events' = [events EXCEPT ![s] = "other"]
  <2>1. \A F : Vpn!ReinstallFailed(s, F) =>
          \E a \in {appliance[s], down} :
            appliance' = [appliance EXCEPT ![s] = a] /\ events' = [events EXCEPT ![s] = "other"]
    BY DEF Vpn!ReinstallFailed, Vpn!update_wireguard_status, Vpn!Changed
  <2>2. CASE Vpn!InstallFails(s)
    BY <2>1, <2>2 DEF Vpn!InstallFails
  <2>3. CASE Vpn!InstallSucceeds(s)
    <3>1. PICK F :
            \/ UNCHANGED <<appliance, events>>
            \/ /\ appliance' = [appliance EXCEPT ![s].phase = "active", ![s].status = "Running"]
               /\ Vpn!Changed(s, "Running")
            \/ Vpn!ReinstallFailed(s, F)
            \/ /\ appliance' = [appliance EXCEPT ![s].status = "Running", ![s].handled = "Failed"]
               /\ Vpn!Changed(s, "Running")
      BY <2>3 DEF Vpn!InstallSucceeds
    <3>2. ASSUME appliance' = [appliance EXCEPT ![s].phase = "active", ![s].status = "Running"]
          PROVE  appliance' = [appliance EXCEPT ![s] = up]
      BY <3>2 DEF VpnInv, VpnTypes
    <3>3. ASSUME appliance' = [appliance EXCEPT ![s].status = "Running", ![s].handled = "Failed"]
          PROVE  appliance' = [appliance EXCEPT ![s] = upAgain]
      BY <3>3 DEF VpnInv, VpnTypes
    <3> HIDE DEF up, upAgain, down
    <3> QED  BY <2>1, <2>3, <3>1, <3>2, <3>3 DEF Vpn!Changed
  <2> QED  BY <2>2, <2>3
<1>7. CASE UNCHANGED <<appliance, events>>
  BY <1>1, <1>4, <1>5, <1>7 DEF VpnInv, VpnTypes, KeysKept, InstalledFirst, Installed,
     Vpn!RunningServiceIsInstalled, Vpn!Exists
<1>8. Vpn!Exists(s) /\ appliance[s] \in Appliance
  BY <1>1 DEF VpnInv, VpnTypes, InstalledFirst, Vpn!Exists, Vpn!Absent
<1>9. /\ {up, upAgain, down} \subseteq Appliance
      /\ up.keys = appliance[s].keys /\ upAgain.keys = appliance[s].keys
      /\ down.keys = appliance[s].keys /\ down.status = "Failed"
  BY <1>8 DEF Appliance, Statuses
<1> HIDE DEF up, upAgain, down
<1>10. ASSUME NEW a \in {up, upAgain}, Vpn!InstallSucceeds(s),
              appliance' = [appliance EXCEPT ![s] = a], events' = [events EXCEPT ![s] = "Running"]
       PROVE  VpnInv'
  <2>1. a \in Appliance /\ a.keys = appliance[s].keys /\ "Running" \in Changes /\ Installed(s)'
    BY <1>5, <1>9, <1>10 DEF Changes
  <2> QED  BY <1>1, <1>4, <1>5, <1>8, <1>10, <2>1, ApplianceChanges
<1>11. ASSUME NEW a \in {appliance[s], down},
              appliance' = [appliance EXCEPT ![s] = a], events' = [events EXCEPT ![s] = "other"]
       PROVE  VpnInv'
  <2>1. a \in Appliance /\ a.keys = appliance[s].keys /\ "other" \in Changes
    BY <1>8, <1>9 DEF Changes
  <2>2. a.status = "Running" => Installed(s)'
    BY <1>5, <1>8, <1>9 DEF VpnInv, InstalledFirst
  <2>3. "Running" \in {a.status, "other"} => Installed(s)'
    BY <2>2
  <2> QED  BY <1>1, <1>4, <1>5, <1>8, <1>11, <2>1, <2>3, ApplianceChanges
<1> QED  BY <1>6, <1>7, <1>10, <1>11

LEMMA StatusHandled ==
    ASSUME VpnInv, NEW s \in Sites, Vpn!ReportFailed(s) \/ Vpn!handle_wireguard_status_change(s)
    PROVE  VpnInv'
<1>1. Vpn!Exists(s) /\ appliance[s] \in Appliance
  BY DEF VpnInv, VpnTypes, Vpn!Exists, Vpn!Absent, Vpn!ReportFailed,
     Vpn!handle_wireguard_status_change
<1>2. UNCHANGED <<configmap, generated, edges, current, tunnel>>
  BY DEF Vpn!ReportFailed, Vpn!handle_wireguard_status_change
<1>3. \/ job' = job
      \/ \E F : job' = [job EXCEPT ![s] = [kind |-> "reinstall", peers |-> Vpn!build_peers_info(s, F)]]
  BY DEF Vpn!ReportFailed, Vpn!handle_wireguard_status_change
<1>4. /\ DOMAIN job' = Sites /\ job' = [t \in Sites |-> job'[t]]
      /\ \A t \in Sites : job'[t] # Vpn!NoJob => Vpn!Exists(t) /\ job'[t].peers # Vpn!NoTunnel
  BY <1>1, <1>3, PeersInstalled DEF VpnInv, VpnTypes, InstalledFirst
<1> DEFINE Put(a, e) == appliance' = [appliance EXCEPT ![s] = a] /\ events' = [events EXCEPT ![s] = e]
<1>5. \/ \E v \in {"Failed", "Reinstalling"} : Put([appliance[s] EXCEPT !.status = v], "other")
      \/ /\ Put([appliance[s] EXCEPT !.handled = appliance[s].status],
                IF appliance[s].status = "Running" THEN "Running" ELSE "other")
  BY DEF Vpn!ReportFailed, Vpn!handle_wireguard_status_change, Vpn!Changed, VpnInv, VpnTypes
<1>6. ASSUME NEW a \in Appliance, NEW e \in Changes, Put(a, e), a.keys = appliance[s].keys,
             "Running" \in {a.status, e} => Installed(s)
      PROVE  VpnInv'
  BY <1>1, <1>2, <1>4, <1>6, ApplianceChanges DEF Installed, VpnInv, VpnTypes
<1>7. ASSUME NEW v \in {"Failed", "Reinstalling"}, Put([appliance[s] EXCEPT !.status = v], "other")
      PROVE  VpnInv'
  <2>1. PICK a : a = [appliance[s] EXCEPT !.status = v]
    OBVIOUS
  <2>2. a \in Appliance /\ a.keys = appliance[s].keys /\ a.status # "Running"
    BY <1>1, <2>1 DEF Appliance, Statuses
  <2> QED  BY <1>6, <1>7, <2>1, <2>2 DEF Changes
<1>8. ASSUME NEW e \in {"Running", "other"}, e = "Running" => appliance[s].status = "Running",
             Put([appliance[s] EXCEPT !.handled = appliance[s].status], e)
      PROVE  VpnInv'
  <2>1. PICK a : a = [appliance[s] EXCEPT !.handled = appliance[s].status]
    OBVIOUS
  <2>2. a \in Appliance /\ a.keys = appliance[s].keys /\ a.status = appliance[s].status
    BY <1>1, <2>1 DEF Appliance
  <2>3. "Running" \in {a.status, e} => Installed(s)
    BY <1>1, <1>8, <2>2 DEF VpnInv, InstalledFirst
  <2> QED  BY <1>6, <1>8, <2>1, <2>2, <2>3 DEF Changes
<1> QED  BY <1>5, <1>7, <1>8

\* The result of the service, the fold of a change into it, and a restart.
LEMMA ServiceChanges ==
    ASSUME VpnInv,
           Vpn!StoreResult \/ Vpn!Restart \/ Vpn!Rest \/ \E s \in Sites : Vpn!servicestatus(s)
    PROVE  VpnInv'
<1>1. CASE Vpn!StoreResult
  BY <1>1 DEF Vpn!StoreResult, VpnInv, VpnTypes, KeysKept, InstalledFirst, Installed,
     Vpn!RunningServiceIsInstalled, Vpn!Exists
<1>2. CASE Vpn!Restart
  BY <1>2 DEF Vpn!Restart, VpnInv, VpnTypes, KeysKept, InstalledFirst, Installed, Changes,
     Vpn!RunningServiceIsInstalled, Vpn!Exists
<1>3. CASE Vpn!Rest
  BY <1>3 DEF Vpn!Rest, Vpn!vars, VpnInv, VpnTypes, KeysKept, InstalledFirst, Installed,
     Vpn!RunningServiceIsInstalled, Vpn!Exists
<1>4. ASSUME NEW s \in Sites, Vpn!servicestatus(s) PROVE VpnInv'
  <2>1. /\ UNCHANGED <<configmap, generated, appliance, tunnel, job>>
        /\ events' = [events EXCEPT ![s] = "none"]
        /\ Vpn!updateStatus(s) \/ UNCHANGED <<edges, current>>
    BY <1>4 DEF Vpn!servicestatus
  <2>2. /\ edges' \in [Sites -> {"none", "Pending", "Running"}]
        /\ \A t \in Sites : edges'[t] = "Running" => Installed(t)
        /\ current' = "Running" => \A t \in Sites : Installed(t)
    BY <2>1 DEF Vpn!updateStatus, Vpn!MarkEdge, VpnInv, VpnTypes, InstalledFirst, Installed,
       Vpn!RunningServiceIsInstalled
  <2> QED
    BY <2>1, <2>2 DEF VpnInv, VpnTypes, KeysKept, InstalledFirst, Installed, Changes,
       Vpn!RunningServiceIsInstalled, Vpn!Exists
<1> QED  BY <1>1, <1>2, <1>3, <1>4

LEMMA VpnStep == VpnInv /\ [Vpn!Next]_vpnVars => VpnInv'
<1> SUFFICES ASSUME VpnInv, [Vpn!Next]_vpnVars PROVE VpnInv'
  OBVIOUS
<1>1. ASSUME UNCHANGED vpnVars PROVE VpnInv'
  BY <1>1 DEF vpnVars, VpnInv, VpnTypes, KeysKept, InstalledFirst, Installed,
     Vpn!RunningServiceIsInstalled, Vpn!Exists
<1>2. ASSUME Vpn!Next PROVE VpnInv'
  BY <1>2, ServiceCreated, ServiceChanges, ApplianceHandled, InstallationOver, StatusHandled
  DEF Vpn!Next, Vpn!SiteStep
<1> QED  BY <1>1, <1>2

(* With any number of sites, failing calls, failed installations and restarts,    *)
(* all appliances of a service carry the keys of its config map, and the service  *)
(* is shown as Running only when the tunnel was installed on every machine        *)
(* (pointtopointservice, meshservice, updateStatus).                              *)
THEOREM SharedKeys == Spec => []PeersShareKeys
<1> DEFINE I == part = "vpn" => VpnInv
<1>1. Init => I
  BY VpnStart DEF Init
<1>2. I /\ [Next]_vars => I'
  <2> SUFFICES ASSUME I, [Next]_vars, part' = "vpn" PROVE VpnInv'
    OBVIOUS
  <2>1. part = "vpn" /\ [Vpn!Next]_vpnVars
    BY DEF Next, vars
  <2> QED  BY <2>1, VpnStep
<1>3. I => PeersShareKeys
  BY DEF PeersShareKeys, Vpn!PeersShareKeys, VpnInv, KeysKept
<1> QED  BY <1>1, <1>2, <1>3, PTL DEF Spec

----------------------------------------------------------------------------
(* The supervisor *)

LEMMA Appended ==
    ASSUME NEW T, NEW q \in Seq(T), NEW e \in T
    PROVE  /\ Append(q, e) \in Seq(T)
           /\ DOMAIN Append(q, e) = 1..(Len(q) + 1) /\ DOMAIN q = 1..Len(q) /\ Len(q) \in Nat
           /\ \A i \in DOMAIN q : Append(q, e)[i] = q[i]
           /\ Append(q, e)[Len(q) + 1] = e
OBVIOUS

Agents == {"assurance", "other"}
Fields == {"agent", "status", "task", "page", "trusted"}
MachineFields == {"agent", "task", "continues", "content", "state"}
RunStates == {"idle", "thinking", "streaming", "returned"}
Deltas == [agent : Agents, status : {"running"}]

SupervisorTypes ==
    /\ DOMAIN sessionSupervisor = Fields
    /\ run \in [Turns -> RunStates]
    /\ DOMAIN stream = Turns /\ stream = [r \in Turns |-> stream[r]]
    /\ delta \in [Turns -> Deltas \cup {None}]
    /\ tasks \in Seq(Agents) /\ pages \in Seq(Nat)
    /\ sent \in Seq([call : Nat, approved : BOOLEAN, page : Nat, task : Nat])
    /\ callsSupervisor \subseteq Nat /\ shownSupervisor \in Seq(Nat \cup {None})
    /\ accepted \subseteq [call : Nat, approved : BOOLEAN, page : Nat]
    /\ sessionSupervisor.page \in Nat \cup {None}
    /\ sessionSupervisor.trusted \in [call : Nat, approved : BOOLEAN, page : Nat] \cup {None}

IsTask(t) == t \in DOMAIN tasks

\* The machine of a stream is bound to a task from the first event on, the session may
\* be, and somebody awaits the input that is needed.
TasksFit ==
    /\ sessionSupervisor.task # None => IsTask(sessionSupervisor.task)
    /\ sessionSupervisor.status = "input_needed" => sessionSupervisor.agent \in Agents
    /\ \A r \in Turns : run[r] = "streaming" =>
          /\ DOMAIN stream[r] = MachineFields /\ stream[r].agent \in Agents
          /\ stream[r].task # None => IsTask(stream[r].task)
          /\ stream[r].state # None \/ stream[r].continues => stream[r].task # None

\* What a call wrote to the state of its context is there until it is applied.
DeltasFit == \A r \in Turns : run[r] \in {"streaming", "returned"} => delta[r] \in Deltas

Awaiting == sessionSupervisor.status = "input_needed" /\ sessionSupervisor.agent = "assurance"

\* While the assurance agent awaits an answer, the page and the task of the session
\* belong together, the page was not confirmed, and the decision held for it is the
\* only one recorded.
PageOpen ==
    Awaiting =>
      LET page == sessionSupervisor.page
          trusted == sessionSupervisor.trusted
      IN  /\ page \in DOMAIN pages /\ sessionSupervisor.task = pages[page]
          /\ \A i \in DOMAIN sent : sent[i].page # page
          /\ trusted # None => trusted \in accepted /\ trusted.page = page
          /\ \A d \in accepted : d.page = page => d = trusted

\* Decisions are about pages that arrived.
PagesKnown ==
    /\ None \notin accepted /\ \A d \in accepted : d.page \in DOMAIN pages
    /\ \A i \in DOMAIN sent : sent[i].page \in DOMAIN pages

SupervisorInv ==
    /\ SupervisorTypes /\ TasksFit /\ DeltasFit /\ PageOpen /\ PagesKnown
    /\ Supervisor!PageDecidedOnce /\ Supervisor!ConfirmationReachesItsTask
    /\ Supervisor!ConfirmationIsTheAnswer

LEMMA SupervisorStart == Supervisor!Init => SupervisorInv
<1> SUFFICES ASSUME Supervisor!Init PROVE SupervisorInv
  OBVIOUS
<1>1. SupervisorTypes
  BY DEF Supervisor!Init, Supervisor!Empty, SupervisorTypes, Fields, RunStates
<1> QED
  BY <1>1, SupervisorConstants
  DEF Supervisor!Init, Supervisor!Empty, SupervisorInv, Awaiting, TasksFit, DeltasFit, PageOpen, PagesKnown,
      Supervisor!PageDecidedOnce, Supervisor!ConfirmationReachesItsTask,
      Supervisor!ConfirmationIsTheAnswer, Supervisor!SupervisorAssumption

\* Sockets, messages of the user and approvals asked for leave the session alone.
LEMMA ConversationGoesOn ==
    ASSUME SupervisorInv,
           \/ \E s \in Sockets : Supervisor!register_socket(s) \/ Supervisor!remove_socket(s)
           \/ \E s \in Sockets, r \in Turns : Supervisor!agui_message(s, r)
           \/ \E r \in Turns : Supervisor!EndRun(r) \/ Supervisor!RequestTaskApproval(r)
    PROVE  SupervisorInv'
<1>1. /\ UNCHANGED <<sessionSupervisor, tasks, pages, accepted, sent>>
      /\ \/ run' = run /\ UNCHANGED <<stream, delta>>
         \/ /\ \E r \in Turns, p \in {"idle", "thinking"} : run' = [run EXCEPT ![r] = p]
            /\ UNCHANGED <<stream, delta>>
         \/ \E r \in Turns : /\ run' = [run EXCEPT ![r] = "idle"]
                             /\ stream' = [stream EXCEPT ![r] = None]
                             /\ delta' = [delta EXCEPT ![r] = None]
  BY DEF Supervisor!register_socket, Supervisor!remove_socket, Supervisor!agui_message,
     Supervisor!run_agui, Supervisor!EndRun, Supervisor!RequestTaskApproval, Supervisor!Rest,
     Supervisor!remote, Supervisor!calling
<1>2. callsSupervisor' \subseteq Nat /\ shownSupervisor' \in Seq(Nat \cup {None})
  <2>1. CASE UNCHANGED <<callsSupervisor, shownSupervisor>>
    BY <2>1 DEF SupervisorInv, SupervisorTypes
  <2>2. ASSUME NEW r \in Turns, Supervisor!RequestTaskApproval(r)
        PROVE  callsSupervisor' \subseteq Nat /\ shownSupervisor' \in Seq(Nat \cup {None})
    BY <2>2 DEF Supervisor!RequestTaskApproval, SupervisorInv, SupervisorTypes
  <2> QED
    BY <2>1, <2>2 DEF Supervisor!register_socket, Supervisor!remove_socket,
       Supervisor!agui_message, Supervisor!EndRun
<1>t. /\ run \in [Turns -> RunStates] /\ delta \in [Turns -> Deltas \cup {None}]
      /\ DOMAIN stream = Turns /\ stream = [r \in Turns |-> stream[r]]
  BY DEF SupervisorInv, SupervisorTypes
<1>c. /\ run' \in [Turns -> RunStates] /\ delta' \in [Turns -> Deltas \cup {None}]
      /\ DOMAIN stream' = Turns /\ stream' = [r \in Turns |-> stream'[r]]
      /\ \A q \in Turns : run'[q] \in {"streaming", "returned"} =>
           run[q] = run'[q] /\ stream'[q] = stream[q] /\ delta'[q] = delta[q]
  <2>1. CASE run' = run /\ UNCHANGED <<stream, delta>>
    BY <1>t, <2>1
  <2>2. ASSUME NEW r \in Turns, NEW p \in {"idle", "thinking"}, run' = [run EXCEPT ![r] = p],
               UNCHANGED <<stream, delta>>
        PROVE  <1>c!:
    BY <1>t, <2>2 DEF RunStates
  <2>3. ASSUME NEW r \in Turns, run' = [run EXCEPT ![r] = "idle"],
               stream' = [stream EXCEPT ![r] = None], delta' = [delta EXCEPT ![r] = None]
        PROVE  <1>c!:
    BY <1>t, <2>3 DEF RunStates
  <2> QED  BY <1>1, <2>1, <2>2, <2>3
<1>3. SupervisorTypes'
  BY <1>1, <1>2, <1>c DEF SupervisorInv, SupervisorTypes
<1>4. TasksFit' /\ DeltasFit'
  BY <1>1, <1>c DEF SupervisorInv, TasksFit, DeltasFit, IsTask
<1> QED
  BY <1>1, <1>3, <1>4 DEF SupervisorInv, Awaiting, PageOpen, PagesKnown,
     Supervisor!PageDecidedOnce, Supervisor!ConfirmationReachesItsTask,
     Supervisor!ConfirmationIsTheAnswer

\* A decision is recorded on the open page only, once.
LEMMA AnswerRecorded ==
    ASSUME SupervisorInv, NEW s \in Sockets, NEW c \in callsSupervisor, NEW approved \in BOOLEAN,
           \/ Supervisor!ToolResultFails(s, c, approved)
           \/ \E r \in Turns : Supervisor!handleToolResult(s, c, approved, r)
    PROVE  SupervisorInv'
<1> USE SupervisorConstants DEF Supervisor!SupervisorAssumption
<1>1. /\ UNCHANGED <<stream, delta, tasks, pages, sent, shownSupervisor>>
      /\ callsSupervisor' \subseteq callsSupervisor
      /\ run' = run \/ \E r \in Turns : run' = [run EXCEPT ![r] = "thinking"]
  BY DEF Supervisor!ToolResultFails, Supervisor!handleToolResult, Supervisor!remote,
     Supervisor!calling
<1>2. PICK d \in Supervisor!Decisions(c, approved) : Supervisor!Record(d)
  BY DEF Supervisor!ToolResultFails, Supervisor!handleToolResult
<1> DEFINE S == sessionSupervisor
<1>3. /\ DOMAIN S' = Fields
      /\ S'.agent = S.agent /\ S'.status = S.status /\ S'.task = S.task /\ S'.page = S.page
      /\ S'.trusted = IF d = None THEN S.trusted ELSE d
  BY <1>2 DEF Supervisor!Record, Supervisor!updateState, SupervisorInv, SupervisorTypes, Fields
<1>4. accepted' = accepted \cup ({d} \ {None})
  BY <1>2 DEF Supervisor!Record
<1>5. ASSUME d # None
      PROVE  /\ Awaiting /\ d.page = S.page /\ S.trusted \in {None, d}
             /\ d \in [call : Nat, approved : BOOLEAN, page : Nat]
  <2>1. Awaiting /\ S.page # None /\ S.trusted \in {None, d}
    BY <1>5 DEF Supervisor!Decisions, Awaiting
  <2>2. d = [call |-> c, approved |-> approved, page |-> S.page]
    BY <1>5 DEF Supervisor!Decisions, Supervisor!TrustedDecision
  <2>3. c \in Nat /\ S.page \in Nat
    BY <2>1 DEF SupervisorInv, SupervisorTypes
  <2> QED  BY <2>1, <2>2, <2>3
<1>6. SupervisorTypes'
  <2>1. S'.trusted \in [call : Nat, approved : BOOLEAN, page : Nat] \cup {None}
    BY <1>3, <1>5 DEF SupervisorInv, SupervisorTypes
  <2>2. accepted' \subseteq [call : Nat, approved : BOOLEAN, page : Nat]
    BY <1>4, <1>5 DEF SupervisorInv, SupervisorTypes
  <2>3. run' \in [Turns -> RunStates]
    BY <1>1 DEF SupervisorInv, SupervisorTypes, RunStates
  <2>4. callsSupervisor' \subseteq Nat /\ S'.page \in Nat \cup {None}
    BY <1>1, <1>3 DEF SupervisorInv, SupervisorTypes
  <2>5. /\ DOMAIN stream = Turns /\ stream = [r \in Turns |-> stream[r]]
        /\ delta \in [Turns -> Deltas \cup {None}]
        /\ tasks \in Seq(Agents) /\ pages \in Seq(Nat)
        /\ sent \in Seq([call : Nat, approved : BOOLEAN, page : Nat, task : Nat])
        /\ shownSupervisor \in Seq(Nat \cup {None})
    BY DEF SupervisorInv, SupervisorTypes
  <2> QED  BY <1>1, <1>3, <2>1, <2>2, <2>3, <2>4, <2>5 DEF SupervisorTypes
<1>7. TasksFit' /\ DeltasFit'
  BY <1>1, <1>3 DEF SupervisorInv, SupervisorTypes, TasksFit, DeltasFit, IsTask
<1>8. PageOpen'
  <2> SUFFICES ASSUME Awaiting' PROVE PageOpen'
    BY DEF PageOpen
  <2>1. /\ S.page \in DOMAIN pages /\ S.task = pages[S.page]
        /\ \A i \in DOMAIN sent : sent[i].page # S.page
        /\ S.trusted # None => S.trusted \in accepted /\ S.trusted.page = S.page
        /\ \A x \in accepted : x.page = S.page => x = S.trusted
    BY <1>3 DEF SupervisorInv, PageOpen, Awaiting
  <2>2. S'.trusted # None => S'.trusted \in accepted' /\ S'.trusted.page = S'.page
    BY <1>3, <1>4, <1>5, <2>1
  <2>3. ASSUME NEW x \in accepted', x.page = S'.page PROVE x = S'.trusted
    <3>1. CASE d = None
      BY <1>3, <1>4, <2>1, <2>3, <3>1
    <3>2. CASE d # None
      BY <1>3, <1>4, <1>5, <2>1, <2>3, <3>2 DEF SupervisorInv, PagesKnown
    <3> QED  BY <3>1, <3>2
  <2> QED  BY <1>1, <1>3, <2>1, <2>2, <2>3 DEF PageOpen
<1>9. PagesKnown'
  BY <1>1, <1>4, <1>5 DEF SupervisorInv, PagesKnown, PageOpen
<1>10. Supervisor!ConfirmationIsTheAnswer'
  BY <1>1, <1>4, <1>5 DEF SupervisorInv, PageOpen, Supervisor!ConfirmationIsTheAnswer
<1> QED
  BY <1>1, <1>6, <1>7, <1>8, <1>9, <1>10
  DEF SupervisorInv, Supervisor!PageDecidedOnce, Supervisor!ConfirmationReachesItsTask

\* A call of send_task continues the active task.
LEMMA StreamOpened ==
    ASSUME SupervisorInv, NEW r \in Turns, NEW agent \in Agents,
           Supervisor!Open(r, agent),
           DOMAIN sessionSupervisor' = Fields, sessionSupervisor'.task = sessionSupervisor.task,
           sessionSupervisor'.status = "running", UNCHANGED tasks
    PROVE  /\ TasksFit' /\ DeltasFit' /\ run' \in [Turns -> RunStates]
           /\ delta' \in [Turns -> Deltas \cup {None}]
           /\ DOMAIN stream' = Turns /\ stream' = [q \in Turns |-> stream'[q]]
<1> USE SupervisorConstants DEF Supervisor!SupervisorAssumption
<1> DEFINE S == sessionSupervisor
           new == Supervisor!NewMachine(agent)
<1>1. /\ run' = [run EXCEPT ![r] = "streaming"] /\ stream' = [stream EXCEPT ![r] = new]
      /\ delta' = [delta EXCEPT ![r] = [agent |-> agent, status |-> "running"]]
      /\ [agent |-> agent, status |-> "running"] \in Deltas
  BY DEF Deltas, Supervisor!Open
<1>2. /\ DOMAIN new = MachineFields /\ new.agent = agent /\ new.task = S.task
      /\ new.state # None \/ new.continues => S.task # None
  BY DEF Supervisor!NewMachine, MachineFields
<1> HIDE DEF new
<1>3. S.task # None => IsTask(S.task)
  BY DEF SupervisorInv, TasksFit
<1>4. ASSUME NEW q \in Turns, run'[q] = "streaming"
      PROVE  /\ DOMAIN stream'[q] = MachineFields /\ stream'[q].agent \in Agents
             /\ stream'[q].task # None => IsTask(stream'[q].task)
             /\ stream'[q].state # None \/ stream'[q].continues => stream'[q].task # None
  <2>1. CASE q = r
    BY <1>1, <1>2, <1>3, <2>1 DEF SupervisorInv, SupervisorTypes
  <2>2. CASE q # r
    BY <1>1, <1>4, <2>2 DEF SupervisorInv, SupervisorTypes, TasksFit
  <2> QED  BY <2>1, <2>2
<1>5. TasksFit'
  BY <1>3, <1>4 DEF TasksFit, IsTask
<1>6. delta' \in [Turns -> Deltas \cup {None}] /\ DeltasFit'
  BY <1>1 DEF SupervisorInv, SupervisorTypes, DeltasFit
<1> QED  BY <1>1, <1>5, <1>6 DEF SupervisorInv, SupervisorTypes, RunStates

\* A confirmation takes the open page with it.
LEMMA TaskSent ==
    ASSUME SupervisorInv, NEW r \in Turns, Supervisor!send_task(r) PROVE SupervisorInv'
<1> USE SupervisorConstants DEF Supervisor!SupervisorAssumption
<1> DEFINE S == sessionSupervisor
<1>1. UNCHANGED <<tasks, pages, callsSupervisor, shownSupervisor, accepted>>
  BY DEF Supervisor!send_task, Supervisor!SendScan, Supervisor!SendConfirmation,
     Supervisor!SendText, Supervisor!user, Supervisor!remote
<1>2. /\ DOMAIN S' = Fields /\ S'.task = S.task /\ S'.status = "running"
      /\ S'.page \in {S.page, None} /\ S'.trusted \in {S.trusted, None}
  BY DEF Supervisor!send_task, Supervisor!SendScan, Supervisor!SendConfirmation,
     Supervisor!SendText, Supervisor!updateState, SupervisorInv, SupervisorTypes, Fields
<1>4. PICK agent \in Agents : Supervisor!Open(r, agent)
  BY DEF Supervisor!send_task, Supervisor!SendScan, Supervisor!SendConfirmation,
     Supervisor!SendText, Agents
<1>5. /\ TasksFit' /\ DeltasFit' /\ run' \in [Turns -> RunStates]
      /\ delta' \in [Turns -> Deltas \cup {None}]
      /\ DOMAIN stream' = Turns /\ stream' = [q \in Turns |-> stream'[q]]
  BY <1>1, <1>2, <1>4, StreamOpened
<1>6. PageOpen'
  BY <1>2 DEF PageOpen, Awaiting
<1>7. SupervisorInv' \/ Supervisor!SendConfirmation(r)
  <2>1. sent' = sent \/ Supervisor!SendConfirmation(r)
    BY DEF Supervisor!send_task, Supervisor!SendScan, Supervisor!SendText
  <2>2. sent' = sent => SupervisorTypes'
    BY <1>1, <1>2, <1>5 DEF SupervisorInv, SupervisorTypes
  <2> QED
    BY <1>1, <1>5, <1>6, <2>1, <2>2
    DEF SupervisorInv, PagesKnown, Supervisor!PageDecidedOnce,
        Supervisor!ConfirmationReachesItsTask, Supervisor!ConfirmationIsTheAnswer
<1>8. ASSUME Supervisor!SendConfirmation(r) PROVE SupervisorInv'
  <2> DEFINE e == Supervisor!ConfirmationRequest
  <2>1. Awaiting /\ S.page # None /\ S.task # None /\ S.trusted # None
    BY <1>8 DEF Supervisor!SendConfirmation, Supervisor!Routable, Awaiting, SupervisorInv,
       TasksFit, Agents
  <2>2. /\ S.page \in DOMAIN pages /\ S.task = pages[S.page]
        /\ \A i \in DOMAIN sent : sent[i].page # S.page
        /\ S.trusted \in accepted /\ S.trusted.page = S.page
        /\ \A d \in accepted : d.page = S.page => d = S.trusted
    BY <2>1 DEF SupervisorInv, PageOpen
  <2>3. S.trusted \in [call : Nat, approved : BOOLEAN, page : Nat] /\ S.task \in Nat
    BY <2>2 DEF SupervisorInv, SupervisorTypes
  <2>4. /\ e.page = S.page /\ e.task = S.task
        /\ e \in [call : Nat, approved : BOOLEAN, page : Nat, task : Nat]
        /\ S.trusted = [call |-> e.call, approved |-> e.approved, page |-> e.page]
    BY <2>2, <2>3 DEF Supervisor!ConfirmationRequest
  <2> HIDE DEF e
  <2>5. sent' = Append(sent, e)
    BY <1>8 DEF Supervisor!SendConfirmation, e
  <2>6. /\ sent' \in Seq([call : Nat, approved : BOOLEAN, page : Nat, task : Nat])
        /\ DOMAIN sent' = 1..(Len(sent) + 1) /\ DOMAIN sent = 1..Len(sent) /\ Len(sent) \in Nat
        /\ \A i \in DOMAIN sent : sent'[i] = sent[i]
        /\ sent'[Len(sent) + 1] = e
    <3>1. sent \in Seq([call : Nat, approved : BOOLEAN, page : Nat, task : Nat])
      BY DEF SupervisorInv, SupervisorTypes
    <3> QED  BY <2>4, <2>5, <3>1, Appended
  <2>7. \A i \in DOMAIN sent' : i \in DOMAIN sent \/ i = Len(sent) + 1
    BY <2>6
  <2>8. SupervisorTypes'
    BY <1>1, <1>2, <1>5, <2>6 DEF SupervisorInv, SupervisorTypes
  <2>9. PagesKnown'
    BY <1>1, <2>2, <2>4, <2>6, <2>7 DEF SupervisorInv, PagesKnown
  <2>10. Supervisor!PageDecidedOnce'
    <3> SUFFICES ASSUME NEW i \in DOMAIN sent', NEW j \in DOMAIN sent', sent'[i].page = sent'[j].page
                 PROVE  i = j
      BY DEF Supervisor!PageDecidedOnce
    <3>1. CASE i \in DOMAIN sent /\ j \in DOMAIN sent
      BY <2>6, <3>1 DEF SupervisorInv, Supervisor!PageDecidedOnce
    <3>2. CASE i \in DOMAIN sent /\ j = Len(sent) + 1
      BY <2>2, <2>4, <2>6, <3>2
    <3>3. CASE i = Len(sent) + 1 /\ j \in DOMAIN sent
      BY <2>2, <2>4, <2>6, <3>3
    <3> QED  BY <2>7, <3>1, <3>2, <3>3
  <2>11. Supervisor!ConfirmationReachesItsTask'
    BY <1>1, <2>2, <2>4, <2>6, <2>7 DEF SupervisorInv, Supervisor!ConfirmationReachesItsTask
  <2>12. Supervisor!ConfirmationIsTheAnswer'
    <3>1. { d \in accepted : d.page = e.page } = {[call |-> e.call, approved |-> e.approved, page |-> e.page]}
      BY <2>2, <2>4
    <3> SUFFICES ASSUME NEW i \in DOMAIN sent'
                 PROVE  { d \in accepted : d.page = sent'[i].page }
                          = {[call |-> sent'[i].call, approved |-> sent'[i].approved,
                              page |-> sent'[i].page]}
      BY <1>1 DEF Supervisor!ConfirmationIsTheAnswer
    <3>2. CASE i \in DOMAIN sent
      BY <2>6, <3>2 DEF SupervisorInv, Supervisor!ConfirmationIsTheAnswer
    <3>3. CASE i = Len(sent) + 1
      BY <2>6, <3>1, <3>3
    <3> QED  BY <2>7, <3>2, <3>3
  <2> QED  BY <1>5, <1>6, <2>8, <2>9, <2>10, <2>11, <2>12 DEF SupervisorInv
<1> QED  BY <1>7, <1>8

\* What a stream that ends does: the call returns, no other stream is touched.
LEMMA StreamClosed ==
    ASSUME SupervisorInv, NEW r \in Turns, run[r] = "streaming", Supervisor!Close(r), UNCHANGED tasks,
           sessionSupervisor'.task # None => IsTask(sessionSupervisor'.task),
           sessionSupervisor'.status = "input_needed" => sessionSupervisor'.agent \in Agents
    PROVE  /\ run' \in [Turns -> RunStates] /\ delta' = delta
           /\ DOMAIN stream' = Turns /\ stream' = [q \in Turns |-> stream'[q]]
           /\ TasksFit' /\ DeltasFit'
<1>1. /\ run' = [run EXCEPT ![r] = "returned"] /\ stream' = [stream EXCEPT ![r] = None]
      /\ delta' = delta
  BY DEF Supervisor!Close
<1>2. TasksFit' /\ DeltasFit'
  BY <1>1 DEF SupervisorInv, SupervisorTypes, TasksFit, DeltasFit, IsTask
<1> QED  BY <1>1, <1>2 DEF SupervisorInv, SupervisorTypes, RunStates

\* Whoever sees the stream at work knows the task it is about.
LEMMA ActiveTask ==
    ASSUME SupervisorInv, NEW r \in Turns, Supervisor!Active(r)
    PROVE  run[r] = "streaming" /\ stream[r].task # None /\ IsTask(stream[r].task)
BY SupervisorConstants
DEF Supervisor!SupervisorAssumption, Supervisor!Active, SupervisorInv, TasksFit

\* A page arrives: a new one, that nobody has decided.
LEMMA PageArrived ==
    ASSUME SupervisorInv, NEW r \in Turns, Supervisor!PageArrives(r) PROVE SupervisorInv'
<1> USE SupervisorConstants DEF Supervisor!SupervisorAssumption
<1> DEFINE S == sessionSupervisor
           t == stream[r].task
<1>1. /\ UNCHANGED <<tasks, callsSupervisor, shownSupervisor, accepted, sent>>
      /\ Supervisor!Active(r) /\ Supervisor!Close(r) /\ stream[r].agent = "assurance"
      /\ pages' = Append(pages, t)
  BY DEF Supervisor!PageArrives, Supervisor!CarriesPage, Supervisor!user
<1>2. /\ DOMAIN S' = Fields /\ S'.agent = "assurance" /\ S'.task = t
      /\ S'.page = Len(pages) + 1 /\ S'.trusted = None
  BY DEF Supervisor!PageArrives, Supervisor!updateState, SupervisorInv, SupervisorTypes, Fields
<1>3. IsTask(t) /\ t \in Nat /\ run[r] = "streaming"
  BY <1>1, ActiveTask DEF IsTask, SupervisorInv, SupervisorTypes
<1> HIDE DEF t
<1>4. /\ pages' \in Seq(Nat) /\ Len(pages) \in Nat
      /\ DOMAIN pages = 1..Len(pages) /\ DOMAIN pages' = 1..(Len(pages) + 1)
      /\ \A i \in DOMAIN pages : i \in DOMAIN pages' /\ pages'[i] = pages[i] /\ i # Len(pages) + 1
      /\ Len(pages) + 1 \in DOMAIN pages' /\ pages'[Len(pages) + 1] = t
  <2>1. pages \in Seq(Nat)
    BY DEF SupervisorInv, SupervisorTypes
  <2>2. /\ pages' \in Seq(Nat) /\ Len(pages) \in Nat
        /\ DOMAIN pages = 1..Len(pages) /\ DOMAIN pages' = 1..(Len(pages) + 1)
        /\ \A i \in DOMAIN pages : pages'[i] = pages[i]
        /\ pages'[Len(pages) + 1] = t
    BY <1>1, <1>3, <2>1, Appended
  <2> QED  BY <2>2
<1>5. /\ TasksFit' /\ DeltasFit' /\ run' \in [Turns -> RunStates] /\ delta' = delta
      /\ DOMAIN stream' = Turns /\ stream' = [q \in Turns |-> stream'[q]]
  BY <1>1, <1>2, <1>3, StreamClosed DEF Agents
<1>6. SupervisorTypes'
  BY <1>1, <1>2, <1>4, <1>5 DEF SupervisorInv, SupervisorTypes
<1>7. PageOpen'
  <2>1. (\A i \in DOMAIN sent : sent[i].page # S'.page) /\ (\A d \in accepted : d.page # S'.page)
    BY <1>2, <1>4 DEF SupervisorInv, PagesKnown
  <2> QED  BY <1>1, <1>2, <1>4, <2>1 DEF PageOpen
<1>8. PagesKnown'
  BY <1>1, <1>4 DEF SupervisorInv, PagesKnown
<1>9. Supervisor!ConfirmationReachesItsTask'
  BY <1>1, <1>4 DEF SupervisorInv, PagesKnown, Supervisor!ConfirmationReachesItsTask
<1>10. Supervisor!PageDecidedOnce' /\ Supervisor!ConfirmationIsTheAnswer'
  BY <1>1 DEF SupervisorInv, Supervisor!PageDecidedOnce, Supervisor!ConfirmationIsTheAnswer
<1> QED  BY <1>5, <1>6, <1>7, <1>8, <1>9, <1>10 DEF SupervisorInv

\* A step that touches neither pages nor decisions and opens no page.
LEMMA PagesUntouched ==
    ASSUME SupervisorInv, TasksFit', DeltasFit',
           UNCHANGED <<pages, callsSupervisor, shownSupervisor, accepted, sent>>,
           DOMAIN sessionSupervisor' = Fields,
           sessionSupervisor'.page \in {sessionSupervisor.page, None},
           sessionSupervisor'.trusted \in {sessionSupervisor.trusted, None},
           \/ sessionSupervisor' = sessionSupervisor
           \/ ~Awaiting',
           tasks' \in Seq(Agents), run' \in [Turns -> RunStates],
           delta' \in [Turns -> Deltas \cup {None}],
           DOMAIN stream' = Turns, stream' = [q \in Turns |-> stream'[q]]
    PROVE  SupervisorInv'
<1>1. SupervisorTypes'
  BY DEF SupervisorInv, SupervisorTypes
<1>2. PageOpen'
  BY DEF SupervisorInv, PageOpen, Awaiting
<1> QED
  BY <1>1, <1>2 DEF SupervisorInv, PagesKnown, Supervisor!PageDecidedOnce,
     Supervisor!ConfirmationReachesItsTask, Supervisor!ConfirmationIsTheAnswer

LEMMA StreamEnds ==
    ASSUME SupervisorInv, NEW r \in Turns,
           \/ Supervisor!StreamFails(r) \/ Supervisor!InputRequired(r)
           \/ Supervisor!Completed(r) \/ Supervisor!Failed(r)
    PROVE  SupervisorInv'
<1> USE SupervisorConstants DEF Supervisor!SupervisorAssumption
<1> DEFINE S == sessionSupervisor
<1>1. /\ UNCHANGED <<tasks, pages, callsSupervisor, shownSupervisor, accepted, sent>>
      /\ Supervisor!Close(r) /\ run[r] = "streaming"
  BY DEF Supervisor!StreamFails, Supervisor!InputRequired, Supervisor!Completed,
     Supervisor!Failed, Supervisor!Active, Supervisor!user, Supervisor!remote
<1>2. /\ DOMAIN S' = Fields
      /\ S'.page \in {S.page, None} /\ S'.trusted \in {S.trusted, None}
      /\ S' = S \/ ~Awaiting'
      /\ \/ S'.task \in {S.task, None}
         \/ Supervisor!InputRequired(r) /\ S'.task = stream[r].task
      /\ S' = S \/ S'.status # "input_needed" \/ S'.agent = "other"
  <2>1. CASE Supervisor!StreamFails(r)
    BY <2>1 DEF Supervisor!StreamFails, SupervisorInv, SupervisorTypes
  <2>2. CASE Supervisor!InputRequired(r)
    BY <2>2 DEF Supervisor!InputRequired, Supervisor!updateState, SupervisorInv,
       SupervisorTypes, Fields, Awaiting
  <2>3. CASE Supervisor!Completed(r)
    BY <2>3 DEF Supervisor!Completed, Supervisor!Empty, Fields, Awaiting
  <2>4. CASE Supervisor!Failed(r)
    BY <2>4 DEF Supervisor!Failed, Supervisor!updateState, SupervisorInv,
       SupervisorTypes, Fields, Awaiting
  <2> QED  BY <2>1, <2>2, <2>3, <2>4
<1>3. /\ S'.task # None => IsTask(S'.task)
      /\ S'.status = "input_needed" => S'.agent \in Agents
  <2>1. Supervisor!InputRequired(r) => IsTask(stream[r].task)
    BY ActiveTask DEF Supervisor!InputRequired
  <2> QED  BY <1>2, <2>1 DEF SupervisorInv, TasksFit, Agents
<1>4. /\ TasksFit' /\ DeltasFit' /\ run' \in [Turns -> RunStates]
      /\ delta' \in [Turns -> Deltas \cup {None}]
      /\ DOMAIN stream' = Turns /\ stream' = [q \in Turns |-> stream'[q]]
  BY <1>1, <1>3, StreamClosed DEF SupervisorInv, SupervisorTypes
<1>5. tasks' \in Seq(Agents)
  BY <1>1 DEF SupervisorInv, SupervisorTypes
<1> QED  BY <1>1, <1>2, <1>4, <1>5, PagesUntouched

LEMMA StreamObserved ==
    ASSUME SupervisorInv, NEW r \in Turns,
           \/ Supervisor!ObserveTask(r) \/ Supervisor!ObserveArtifact(r)
           \/ Supervisor!ObserveWorking(r)
    PROVE  SupervisorInv'
<1> USE SupervisorConstants DEF Supervisor!SupervisorAssumption
<1> DEFINE S == sessionSupervisor
<1>m. PICK m : m = stream[r]
  OBVIOUS
<1>1. /\ UNCHANGED <<run, delta, pages, callsSupervisor, shownSupervisor, accepted, sent>>
      /\ run[r] = "streaming"
  BY DEF Supervisor!ObserveTask, Supervisor!ObserveArtifact, Supervisor!ObserveWorking,
     Supervisor!Active, Supervisor!user, Supervisor!remote
<1>2. /\ DOMAIN m = MachineFields /\ m.agent \in Agents
      /\ m.task # None => IsTask(m.task)
      /\ m.state # None \/ m.continues => m.task # None
  BY <1>1, <1>m DEF SupervisorInv, TasksFit
<1>3. CASE Supervisor!ObserveArtifact(r) \/ Supervisor!ObserveWorking(r)
  <2>1. PICK n : /\ stream' = [stream EXCEPT ![r] = n] /\ DOMAIN n = MachineFields
                 /\ n.agent = m.agent /\ n.task = m.task /\ n.continues = m.continues
    <3>1. \/ \E k : stream' = [stream EXCEPT ![r].content = k]
          \/ \E k : stream' = [stream EXCEPT ![r].state = k]
      BY <1>3 DEF Supervisor!ObserveArtifact, Supervisor!ObserveWorking
    <3>2. CASE \E k : stream' = [stream EXCEPT ![r].content = k]
      <4>1. PICK k : stream' = [stream EXCEPT ![r].content = k]
        BY <3>2
      <4>2. PICK n : n = [m EXCEPT !.content = k]
        OBVIOUS
      <4>3. /\ stream' = [stream EXCEPT ![r] = n] /\ DOMAIN n = MachineFields
            /\ n.agent = m.agent /\ n.task = m.task /\ n.continues = m.continues
        BY <1>m, <1>2, <4>1, <4>2 DEF MachineFields
      <4> QED  BY <4>3
    <3>3. CASE \E k : stream' = [stream EXCEPT ![r].state = k]
      <4>1. PICK k : stream' = [stream EXCEPT ![r].state = k]
        BY <3>3
      <4>2. PICK n : n = [m EXCEPT !.state = k]
        OBVIOUS
      <4>3. /\ stream' = [stream EXCEPT ![r] = n] /\ DOMAIN n = MachineFields
            /\ n.agent = m.agent /\ n.task = m.task /\ n.continues = m.continues
        BY <1>m, <1>2, <4>1, <4>2 DEF MachineFields
      <4> QED  BY <4>3
    <3> QED  BY <3>1, <3>2, <3>3
  <2>2. sessionSupervisor' = sessionSupervisor /\ tasks' = tasks /\ m.task # None
    BY <1>m, <1>2, <1>3 DEF Supervisor!ObserveArtifact, Supervisor!ObserveWorking,
       Supervisor!remote, Supervisor!Active
  <2>3. TasksFit' /\ DeltasFit'
    BY <1>1, <1>2, <2>1, <2>2 DEF SupervisorInv, SupervisorTypes, TasksFit, DeltasFit, IsTask
  <2> QED
    BY <1>1, <2>1, <2>2, <2>3, PagesUntouched DEF SupervisorInv, SupervisorTypes
<1>4. CASE Supervisor!ObserveTask(r)
  <2>t. PICK t : t = IF m.continues THEN m.task ELSE Len(tasks) + 1
    OBVIOUS
  <2>1. /\ tasks' = IF m.continues THEN tasks ELSE Append(tasks, m.agent)
        /\ S'.agent = m.agent /\ S'.status = "submitted" /\ S'.task = t /\ DOMAIN S' = Fields
        /\ S'.page = S.page /\ S'.trusted = S.trusted
    BY <1>m, <1>4, <2>t DEF Supervisor!ObserveTask, Supervisor!updateState, SupervisorInv,
       SupervisorTypes, Fields
  <2>2. PICK n : /\ stream' = [stream EXCEPT ![r] = n] /\ DOMAIN n = MachineFields
                 /\ n.agent = m.agent /\ n.task = t
    <3>1. PICK k : stream' = [stream EXCEPT ![r].task = t, ![r].state = k]
      BY <1>m, <1>4, <2>t DEF Supervisor!ObserveTask, SupervisorInv, SupervisorTypes
    <3>2. /\ stream' = [stream EXCEPT ![r] = [m EXCEPT !.task = t, !.state = k]]
          /\ DOMAIN [m EXCEPT !.task = t, !.state = k] = MachineFields
          /\ [m EXCEPT !.task = t, !.state = k].agent = m.agent
          /\ [m EXCEPT !.task = t, !.state = k].task = t
      BY <1>m, <1>2, <3>1 DEF MachineFields, SupervisorInv, SupervisorTypes
    <3> QED  BY <3>2
  <2>3. /\ tasks' \in Seq(Agents) /\ IsTask(t)' /\ t # None
        /\ \A x : IsTask(x) => IsTask(x)'
    <3>1. CASE m.continues
      BY <1>2, <2>t, <2>1, <3>1 DEF SupervisorInv, SupervisorTypes, IsTask
    <3>2. CASE ~m.continues
      BY <1>2, <2>t, <2>1, <3>2 DEF SupervisorInv, SupervisorTypes, IsTask
    <3> QED  BY <3>1, <3>2
  <2>4. TasksFit' /\ DeltasFit'
    BY <1>1, <1>2, <2>1, <2>2, <2>3 DEF SupervisorInv, SupervisorTypes, TasksFit, DeltasFit
  <2>5. ~Awaiting'
    BY <2>1 DEF Awaiting
  <2> QED
    BY <1>1, <2>1, <2>2, <2>3, <2>4, <2>5, PagesUntouched DEF SupervisorInv, SupervisorTypes
<1> QED  BY <1>3, <1>4

\* What a call left in its context turns the conversation back to its agent, running.
LEMMA DeltaCommitted ==
    ASSUME SupervisorInv, NEW r \in Turns, Supervisor!Commit(r) PROVE SupervisorInv'
<1> USE SupervisorConstants DEF Supervisor!SupervisorAssumption
<1> DEFINE S == sessionSupervisor
<1>1. /\ UNCHANGED <<stream, tasks, pages, callsSupervisor, shownSupervisor, accepted, sent>>
      /\ run[r] = "returned" /\ run' = [run EXCEPT ![r] = "thinking"]
      /\ delta' = [delta EXCEPT ![r] = None]
  BY DEF Supervisor!Commit, Supervisor!user, Supervisor!remote
<1>2. DOMAIN delta[r] = {"agent", "status"} /\ delta[r].status = "running"
  BY <1>1 DEF SupervisorInv, DeltasFit, Deltas
<1>3. /\ DOMAIN S' = Fields /\ S'.status = "running"
      /\ S'.task = S.task /\ S'.page = S.page /\ S'.trusted = S.trusted
  BY <1>2 DEF Supervisor!Commit, Supervisor!updateState, SupervisorInv, SupervisorTypes, Fields
<1>4. TasksFit' /\ DeltasFit'
  BY <1>1, <1>3 DEF SupervisorInv, SupervisorTypes, TasksFit, DeltasFit, IsTask
<1>5. ~Awaiting'
  BY <1>3 DEF Awaiting
<1>6. run' \in [Turns -> RunStates] /\ delta' \in [Turns -> Deltas \cup {None}]
  BY <1>1 DEF SupervisorInv, SupervisorTypes, RunStates
<1> QED
  BY <1>1, <1>3, <1>4, <1>5, <1>6, PagesUntouched DEF SupervisorInv, SupervisorTypes

LEMMA SupervisorStep == SupervisorInv /\ [Supervisor!Next]_supervisorVars => SupervisorInv'
<1> SUFFICES ASSUME SupervisorInv, [Supervisor!Next]_supervisorVars PROVE SupervisorInv'
  OBVIOUS
<1>1. ASSUME UNCHANGED supervisorVars PROVE SupervisorInv'
  BY <1>1 DEF supervisorVars, SupervisorInv, SupervisorTypes, TasksFit, DeltasFit, IsTask,
     PageOpen, Awaiting, PagesKnown, Supervisor!PageDecidedOnce, Supervisor!ConfirmationReachesItsTask,
     Supervisor!ConfirmationIsTheAnswer
<1>2. ASSUME Supervisor!Next PROVE SupervisorInv'
  BY <1>2, ConversationGoesOn, AnswerRecorded, TaskSent, PageArrived, StreamEnds, StreamObserved,
     DeltaCommitted
  DEF Supervisor!Next, Supervisor!send_streaming_task
<1> QED  BY <1>1, <1>2

(* In a conversation of any number of overlapping runs, streams and approvals, a  *)
(* candidate page is confirmed at most once, with the only decision recorded for  *)
(* it, on the remote task the page came from, also when the state a call left in  *)
(* its context is applied late (host_agent.py, send_task, handleToolResult).      *)
THEOREM RightTask == Spec => []ConfirmationReachesItsTask
<1> DEFINE I == part = "supervisor" => SupervisorInv
<1>1. Init => I
  BY SupervisorStart DEF Init
<1>2. I /\ [Next]_vars => I'
  <2> SUFFICES ASSUME I, [Next]_vars, part' = "supervisor" PROVE SupervisorInv'
    OBVIOUS
  <2>1. part = "supervisor" /\ [Supervisor!Next]_supervisorVars
    BY DEF Next, vars
  <2> QED  BY <2>1, SupervisorStep
<1>3. I => ConfirmationReachesItsTask
  BY DEF ConfirmationReachesItsTask, SupervisorInv
<1> QED  BY <1>1, <1>2, <1>3, PTL DEF Spec

----------------------------------------------------------------------------
(* The agent middleware *)

Own(r) == {<<r, "encoded">>, <<r, "raw">>}
EventsOf(r) == [type : {"call", "result"}, id : Own(r)] \cup [type : {"end", "error"}, id : {None}]

TaskStates == {"none", "created", "running", "done", "cancelled"}

AgentTypes ==
    /\ pc \in [Runs -> {"idle", "started", "waiting", "streaming", "ending", "closed"}]
    /\ thread \in [Runs -> Threads \cup {None}]
    /\ DOMAIN answers = Runs /\ answers = [r \in Runs |-> answers[r]]
    /\ shownAgent \in [Runs -> SUBSET {"started", "error", "finished"}]
    /\ callsAgent \in [Runs -> SUBSET (Runs \X {"encoded", "raw"})]
    /\ task \in [Runs -> TaskStates]
    /\ DOMAIN queueAgent = Runs /\ queueAgent = [r \in Runs |-> queueAgent[r]]
    /\ \A r \in Runs : queueAgent[r] \in Seq(EventsOf(r))
    /\ active \in [Threads -> Runs \cup {None}]
    /\ sessionAgent \subseteq Threads /\ fresh \subseteq Threads
    /\ pending \in [Threads -> SUBSET (Runs \X {"encoded", "raw"})]

\* Nothing is shown or queued before an execution started, and RUN_FINISHED is shown
\* when the stream is over.
RunsFit ==
    \A r \in Runs :
        /\ pc[r] = "idle" => thread[r] = None /\ answers[r] = None /\ shownAgent[r] = {}
        /\ pc[r] # "idle" => thread[r] \in Threads
        /\ pc[r] \in {"idle", "started", "waiting"} =>
             callsAgent[r] = {} /\ queueAgent[r] = <<>> /\ task[r] = "none"
        /\ "finished" \in shownAgent[r] => pc[r] \in {"ending", "closed"}
        /\ callsAgent[r] \subseteq Own(r)

Kept(t) == t \in sessionAgent /\ t \in fresh

\* The session of a stream with events is there and is not up for cleanup.
SessionsKept ==
    \A r \in Runs : pc[r] = "streaming" /\ ~Kept(thread[r]) =>
        callsAgent[r] = {} /\ queueAgent[r] = <<>> /\ task[r] \in {"created", "cancelled"}

\* A pending call is of a finished run of the thread, and nobody has answered it.
PendingUnanswered ==
    \A t \in Threads : \A id \in pending[t] :
        /\ t \in sessionAgent
        /\ id[1] \in Runs /\ id \in Own(id[1]) /\ thread[id[1]] = t
        /\ "finished" \in shownAgent[id[1]]
        /\ \A r \in Runs : answers[r] # id

\* An answer names the run it continues.
AnswersFit ==
    \A r \in Runs : answers[r] # None => answers[r][1] \in Runs /\ answers[r] \in Own(answers[r][1])

AgentInv ==
    /\ AgentTypes /\ RunsFit /\ SessionsKept /\ PendingUnanswered /\ AnswersFit
    /\ Agent!AnswerContinuesOnce /\ Agent!FinishedCallIsAnswerable
    /\ Agent!IdlePlaceAwaitsAnswer

\* What a cancellation makes of the state of a task.
Settles(old, new) == new = old \/ (old \in {"created", "running"} /\ new = "cancelled")

LEMMA CancelledTasks ==
    ASSUME AgentTypes, NEW ended
    PROVE  /\ Agent!Cancelled(ended) \in [Runs -> TaskStates]
           /\ \A q \in Runs : Settles(task[q], Agent!Cancelled(ended)[q])
BY DEF Agent!Cancelled, Agent!Alive, TaskStates, AgentTypes, Settles

LEMMA QueueChanges ==
    ASSUME AgentTypes, NEW r \in Runs, NEW v \in Seq(EventsOf(r)),
           queueAgent' = [queueAgent EXCEPT ![r] = v]
    PROVE  /\ DOMAIN queueAgent' = Runs /\ queueAgent' = [q \in Runs |-> queueAgent'[q]]
           /\ \A q \in Runs : queueAgent'[q] \in Seq(EventsOf(q))
           /\ queueAgent'[r] = v /\ \A q \in Runs \ {r} : queueAgent'[q] = queueAgent[q]
BY DEF AgentTypes

LEMMA AgentStart == Agent!Init => AgentInv
<1> SUFFICES ASSUME Agent!Init PROVE AgentInv
  OBVIOUS
<1>1. AgentTypes
  BY DEF Agent!Init, AgentTypes, TaskStates
<1> QED
  BY <1>1 DEF Agent!Init, AgentInv, RunsFit, SessionsKept, PendingUnanswered, AnswersFit,
     Agent!AnswerContinuesOnce, Agent!FinishedCallIsAnswerable, Agent!IdlePlaceAwaitsAnswer,
     Agent!Registered

\* A request begins: it continues a pending call, which is consumed, or none.
LEMMA RequestBegins ==
    ASSUME AgentInv, NEW r \in Runs, NEW t \in Threads, NEW id,
           Agent!Begin(r, t, id), UNCHANGED sessionAgent, fresh \subseteq fresh', fresh' \subseteq Threads,
           \/ id = None /\ pending' = pending
           \/ /\ id[1] \in Runs /\ thread[id[1]] = t /\ t \in sessionAgent /\ id \in pending[t]
              /\ pending' = [pending EXCEPT ![t] = @ \ {id}]
    PROVE  AgentInv'
<1> USE AgentConstants DEF Agent!ExecutionAssumption
<1>1. /\ pc[r] = "idle" /\ pc' = [pc EXCEPT ![r] = "started"]
      /\ thread' = [thread EXCEPT ![r] = t] /\ answers' = [answers EXCEPT ![r] = id]
      /\ shownAgent' = [shownAgent EXCEPT ![r] = {"started"}]
      /\ UNCHANGED <<callsAgent, task, queueAgent, active>>
  BY DEF Agent!Begin, Agent!executions
<1>2. thread[r] = None /\ answers[r] = None /\ shownAgent[r] = {} /\ callsAgent[r] = {}
  BY <1>1 DEF AgentInv, RunsFit
<1>3. id # None => /\ id[1] \in Runs \ {r} /\ id \in Own(id[1]) /\ thread[id[1]] = t
                   /\ "finished" \in shownAgent[id[1]] /\ \A q \in Runs : answers[q] # id
  BY <1>2 DEF AgentInv, PendingUnanswered
<1>p. /\ pending' \in [Threads -> SUBSET (Runs \X {"encoded", "raw"})]
      /\ \A u \in Threads : pending'[u] \subseteq pending[u]
      /\ \A u \in Threads \ {t} : pending'[u] = pending[u]
      /\ \A i \in pending[t] : i # id => i \in pending'[t]
      /\ id # None => id \notin pending'[t]
  <2>1. pending \in [Threads -> SUBSET (Runs \X {"encoded", "raw"})]
    BY DEF AgentInv, AgentTypes
  <2>2. CASE pending' = pending /\ id = None
    BY <2>1, <2>2
  <2>3. CASE pending' = [pending EXCEPT ![t] = pending[t] \ {id}]
    BY <2>1, <2>3
  <2> QED  BY <2>2, <2>3
<1>4. AgentTypes'
  <2>1. pc' \in [Runs -> {"idle", "started", "waiting", "streaming", "ending", "closed"}]
    BY <1>1 DEF AgentInv, AgentTypes
  <2>2. thread' \in [Runs -> Threads \cup {None}]
    <3>1. thread \in [Runs -> Threads \cup {None}]
      BY DEF AgentInv, AgentTypes
    <3> QED  BY <1>1, <3>1
  <2>3. DOMAIN answers' = Runs /\ answers' = [q \in Runs |-> answers'[q]]
    <3>1. DOMAIN answers = Runs
      BY DEF AgentInv, AgentTypes
    <3> QED  BY <1>1, <3>1
  <2>4. shownAgent' \in [Runs -> SUBSET {"started", "error", "finished"}]
    BY <1>1 DEF AgentInv, AgentTypes
  <2> QED  BY <1>1, <1>p, <2>1, <2>2, <2>3, <2>4 DEF AgentInv, AgentTypes
<1>5. RunsFit'
  BY <1>1, <1>2 DEF AgentInv, AgentTypes, RunsFit
<1>6. SessionsKept'
  BY <1>1 DEF AgentInv, AgentTypes, SessionsKept, Kept
<1>7. PendingUnanswered'
  <2> SUFFICES ASSUME NEW u \in Threads, NEW i \in pending'[u]
               PROVE  /\ u \in sessionAgent /\ i[1] \in Runs /\ i \in Own(i[1]) /\ thread'[i[1]] = u
                      /\ "finished" \in shownAgent'[i[1]] /\ \A q \in Runs : answers'[q] # i
    BY DEF PendingUnanswered
  <2>1. i \in pending[u] /\ (id # None => i # id)
    <3>1. i \in pending[u]
      BY <1>p
    <3>2. thread[i[1]] = u
      BY <3>1 DEF AgentInv, PendingUnanswered
    <3> QED  BY <1>3, <1>p, <3>1, <3>2
  <2>2. /\ u \in sessionAgent /\ i[1] \in Runs /\ i \in Own(i[1]) /\ thread[i[1]] = u
        /\ "finished" \in shownAgent[i[1]] /\ \A q \in Runs : answers[q] # i
    BY <2>1 DEF AgentInv, PendingUnanswered
  <2>3. i # None
    BY <1>2, <2>2
  <2> QED  BY <1>1, <1>2, <2>1, <2>2, <2>3 DEF AgentInv, AgentTypes
<1>8. AnswersFit'
  BY <1>1, <1>3 DEF AgentInv, AgentTypes, AnswersFit
<1>9. Agent!AnswerContinuesOnce'
  BY <1>1, <1>2, <1>3 DEF AgentInv, AgentTypes, Agent!AnswerContinuesOnce
<1>10. Agent!FinishedCallIsAnswerable'
  <2> SUFFICES ASSUME NEW q \in Runs, "finished" \in shownAgent'[q], NEW i \in callsAgent'[q]
               PROVE  \/ thread'[q] \in sessionAgent /\ i \in pending'[thread'[q]]
                      \/ \E o \in Runs : answers'[o] = i
    BY DEF Agent!FinishedCallIsAnswerable, Agent!is_pending_tool_call, Agent!get_state_value
  <2>1. q # r /\ "finished" \in shownAgent[q] /\ i \in callsAgent[q] /\ thread'[q] = thread[q]
    BY <1>1 DEF AgentInv, AgentTypes
  <2>2. \/ thread[q] \in sessionAgent /\ i \in pending[thread[q]]
        \/ \E o \in Runs : answers[o] = i
    BY <2>1 DEF AgentInv, Agent!FinishedCallIsAnswerable, Agent!is_pending_tool_call,
       Agent!get_state_value
  <2>3. ASSUME NEW o \in Runs, answers[o] = i PROVE \E x \in Runs : answers'[x] = i
    <3>1. i # None
      BY <2>1 DEF AgentInv, AgentTypes
    <3> QED  BY <1>1, <1>2, <2>3, <3>1 DEF AgentInv, AgentTypes
  <2>4. ASSUME thread[q] \in sessionAgent, i \in pending[thread[q]]
        PROVE  i \in pending'[thread[q]] \/ answers'[r] = i
    <3>1. thread[q] \in Threads
      BY <2>4 DEF AgentInv, AgentTypes
    <3> QED  BY <1>1, <1>p, <2>4, <3>1 DEF AgentInv, AgentTypes
  <2> QED  BY <2>1, <2>2, <2>3, <2>4
<1>11. Agent!IdlePlaceAwaitsAnswer'
  <2> SUFFICES ASSUME NEW u \in Threads, active'[u] # None,
                      \A q \in Runs : thread'[q] = u => pc'[q] = "closed"
               PROVE  u \in sessionAgent /\ pending'[u] # {}
    BY DEF Agent!IdlePlaceAwaitsAnswer, Agent!Registered, Agent!_has_pending_tool_calls,
       Agent!get_state_value
  <2>1. u # t
    BY <1>1 DEF AgentInv, AgentTypes
  <2>2. \A q \in Runs : thread[q] = u => pc[q] = "closed"
    BY <1>1, <1>2, <2>1 DEF AgentInv, AgentTypes
  <2>3. u \in sessionAgent /\ pending[u] # {}
    BY <1>1, <2>2 DEF AgentInv, Agent!IdlePlaceAwaitsAnswer, Agent!Registered,
       Agent!_has_pending_tool_calls, Agent!get_state_value
  <2> QED  BY <1>p, <2>1, <2>3
<1> QED  BY <1>4, <1>5, <1>6, <1>7, <1>8, <1>9, <1>10, <1>11 DEF AgentInv

\* A step that begins nothing, reports no run as finished and settles no call: a thread
\* becomes idle only when it has calls pending or gave up its place.
LEMMA CallsUntouched ==
    ASSUME AgentInv, AgentTypes', RunsFit', SessionsKept',
           UNCHANGED <<thread, answers, pending>>,
           \A q \in Runs : "finished" \in shownAgent'[q] <=> "finished" \in shownAgent[q],
           \A q \in Runs : "finished" \in shownAgent[q] => callsAgent'[q] = callsAgent[q],
           \A t \in sessionAgent : pending[t] # {} => t \in sessionAgent',
           \A t \in Threads :
             active'[t] # None /\ (\A q \in Runs : thread[q] = t => pc'[q] = "closed") =>
               \/ active[t] # None /\ \A q \in Runs : thread[q] = t => pc[q] = "closed"
               \/ pending[t] # {} /\ t \in sessionAgent
    PROVE  AgentInv'
<1>1. PendingUnanswered'
  BY DEF AgentInv, AgentTypes, PendingUnanswered
<1>2. AnswersFit'
  BY DEF AgentInv, AnswersFit
<1>3. Agent!AnswerContinuesOnce'
  <2> SUFFICES ASSUME NEW r \in Runs, answers[r] # None
               PROVE  /\ thread[answers[r][1]] = thread[r] /\ "finished" \in shownAgent'[answers[r][1]]
                      /\ \A o \in Runs \ {r} : answers[o] # answers[r]
    BY DEF Agent!AnswerContinuesOnce
  <2> QED  BY DEF AgentInv, AnswersFit, Agent!AnswerContinuesOnce
<1>4. Agent!FinishedCallIsAnswerable'
  <2> SUFFICES ASSUME NEW q \in Runs, "finished" \in shownAgent[q], NEW i \in callsAgent[q]
               PROVE  \/ thread[q] \in sessionAgent' /\ i \in pending[thread[q]]
                      \/ \E o \in Runs : answers[o] = i
    BY DEF Agent!FinishedCallIsAnswerable, Agent!is_pending_tool_call, Agent!get_state_value
  <2> QED
    BY DEF AgentInv, Agent!FinishedCallIsAnswerable, Agent!is_pending_tool_call,
       Agent!get_state_value
<1>5. Agent!IdlePlaceAwaitsAnswer'
  <2> SUFFICES ASSUME NEW t \in Threads, active'[t] # None,
                      \A q \in Runs : thread[q] = t => pc'[q] = "closed"
               PROVE  t \in sessionAgent' /\ pending[t] # {}
    BY DEF Agent!IdlePlaceAwaitsAnswer, Agent!Registered, Agent!_has_pending_tool_calls,
       Agent!get_state_value
  <2> QED
    BY DEF AgentInv, Agent!IdlePlaceAwaitsAnswer, Agent!Registered,
       Agent!_has_pending_tool_calls, Agent!get_state_value
<1> QED  BY <1>1, <1>2, <1>3, <1>4, <1>5 DEF AgentInv

\* The limit is checked, or the execution awaited has ended.
LEMMA ExecutionStarts ==
    ASSUME AgentInv, NEW r \in Runs, Agent!CheckLimit(r) \/ Agent!AwaitExisting(r) PROVE AgentInv'
<1> USE AgentConstants DEF Agent!ExecutionAssumption
<1>1. /\ pc[r] \in {"started", "waiting"}
      /\ UNCHANGED <<thread, answers, callsAgent, queueAgent, sessionAgent, fresh, pending>>
  BY DEF Agent!CheckLimit, Agent!AwaitExisting, Agent!sessions
<1>2. thread[r] \in Threads /\ callsAgent[r] = {} /\ queueAgent[r] = <<>> /\ task[r] = "none"
      /\ "finished" \notin shownAgent[r]
  BY <1>1 DEF AgentInv, RunsFit
<1>3. \A ended : Agent!Cancelled(ended)[r] = task[r]
  BY <1>2 DEF Agent!Cancelled, Agent!Alive
<1>4. /\ task' \in [Runs -> TaskStates]
      /\ \A q \in Runs \ {r} : Settles(task[q], task'[q])
      /\ pc'[r] = "streaming" => task'[r] = "created"
      /\ pc'[r] # "streaming" => task'[r] = task[r]
  <2>1. task \in [Runs -> TaskStates] /\ DOMAIN pc = Runs
    BY DEF AgentInv, AgentTypes
  <2>2. PICK T : /\ T = task \/ \E ended : T = Agent!Cancelled(ended)
                 /\ \/ task' = T /\ \E p \in {"waiting", "ending"} : pc' = [pc EXCEPT ![r] = p]
                    \/ task' = [T EXCEPT ![r] = "created"] /\ pc' = [pc EXCEPT ![r] = "streaming"]
    BY DEF Agent!CheckLimit, Agent!AwaitExisting, Agent!StartBackground
  <2>3. /\ T \in [Runs -> TaskStates] /\ T[r] = task[r]
        /\ \A q \in Runs : Settles(task[q], T[q])
    <3>1. CASE T = task
      BY <2>1, <3>1 DEF Settles
    <3>2. CASE \E ended : T = Agent!Cancelled(ended)
      BY <1>3, <3>2, CancelledTasks DEF AgentInv
    <3> QED  BY <2>2, <3>1, <3>2
  <2> QED  BY <2>1, <2>2, <2>3 DEF TaskStates
<1>5. /\ \E p \in {"waiting", "streaming", "ending"} : pc' = [pc EXCEPT ![r] = p]
      /\ \/ shownAgent' = shownAgent
         \/ shownAgent' = [shownAgent EXCEPT ![r] = shownAgent[r] \cup {"error"}]
  BY DEF Agent!CheckLimit, Agent!AwaitExisting, Agent!StartBackground
<1>s. /\ shownAgent' \in [Runs -> SUBSET {"started", "error", "finished"}]
      /\ \A q \in Runs : "finished" \in shownAgent'[q] <=> "finished" \in shownAgent[q]
      /\ \A q \in Runs \ {r} : shownAgent'[q] = shownAgent[q]
  <2>1. shownAgent \in [Runs -> SUBSET {"started", "error", "finished"}]
    BY DEF AgentInv, AgentTypes
  <2>2. CASE shownAgent' = shownAgent
    BY <2>1, <2>2
  <2>3. CASE shownAgent' = [shownAgent EXCEPT ![r] = shownAgent[r] \cup {"error"}]
    BY <2>1, <2>3
  <2> QED  BY <1>5, <2>2, <2>3
<1>6. /\ active' \in [Threads -> Runs \cup {None}]
      /\ \A t \in Threads : active'[t] # None => active[t] # None \/ t = thread[r]
  <2>1. /\ Agent!Kept \in [Threads -> Runs \cup {None}]
        /\ \A t \in Threads : Agent!Kept[t] # None => active[t] # None
    BY DEF Agent!Kept, AgentInv, AgentTypes
  <2>2. \/ active' \in {active, Agent!Kept}
        \/ \E registry \in {active, Agent!Kept} : active' = [registry EXCEPT ![thread[r]] = r]
    BY DEF Agent!CheckLimit, Agent!AwaitExisting, Agent!StartBackground
  <2>3. active \in [Threads -> Runs \cup {None}]
    BY DEF AgentInv, AgentTypes
  <2> QED  BY <1>2, <2>1, <2>2, <2>3
<1>7. AgentTypes'
  <2>1. pc' \in [Runs -> {"idle", "started", "waiting", "streaming", "ending", "closed"}]
    BY <1>5 DEF AgentInv, AgentTypes
  <2> QED  BY <1>1, <1>4, <1>6, <1>s, <2>1 DEF AgentInv, AgentTypes
<1>8. RunsFit'
  BY <1>1, <1>2, <1>4, <1>5, <1>s DEF AgentInv, AgentTypes, RunsFit, Settles
<1>9. SessionsKept'
  BY <1>1, <1>2, <1>4, <1>5 DEF AgentInv, AgentTypes, SessionsKept, Kept, Settles
<1>10. \A t \in Threads :
         active'[t] # None /\ (\A q \in Runs : thread[q] = t => pc'[q] = "closed") =>
           active[t] # None /\ \A q \in Runs : thread[q] = t => pc[q] = "closed"
  BY <1>2, <1>5, <1>6 DEF AgentInv, AgentTypes
<1> QED  BY <1>1, <1>7, <1>8, <1>9, <1>10, <1>s, CallsUntouched

\* The agent runs: its session is made, its events are queued while they are read.
LEMMA AgentRuns ==
    ASSUME AgentInv, NEW r \in Runs, Agent!TaskStep(r) PROVE AgentInv'
<1> USE AgentConstants DEF Agent!ExecutionAssumption
<1>1. /\ task[r] \in {"created", "running"}
      /\ UNCHANGED <<pc, thread, answers, shownAgent, callsAgent, active, pending>>
      /\ \E v \in {"running", "done"} : task' = [task EXCEPT ![r] = v]
  BY DEF Agent!TaskStep, Agent!_ensure_session_exists, Agent!BackendTool, Agent!ClientTool,
     Agent!_run_adk_in_background, Agent!requests, Agent!sessions, AgentInv, AgentTypes
<1>2. pc[r] \notin {"idle", "started", "waiting"} /\ thread[r] \in Threads
  BY <1>1 DEF AgentInv, AgentTypes, RunsFit
<1>3. \/ UNCHANGED <<sessionAgent, fresh>> /\ task[r] = "running"
      \/ /\ sessionAgent' = sessionAgent \cup {thread[r]} /\ fresh' = fresh \cup {thread[r]}
         /\ queueAgent' = queueAgent
  BY DEF Agent!TaskStep, Agent!_ensure_session_exists, Agent!BackendTool, Agent!ClientTool,
     Agent!_run_adk_in_background, Agent!sessions, Agent!get_or_create_session
<1>4. /\ DOMAIN queueAgent' = Runs /\ queueAgent' = [q \in Runs |-> queueAgent'[q]]
      /\ \A q \in Runs : queueAgent'[q] \in Seq(EventsOf(q))
      /\ \A q \in Runs \ {r} : queueAgent'[q] = queueAgent[q]
  <2>1. /\ DOMAIN queueAgent = Runs /\ queueAgent = [q \in Runs |-> queueAgent[q]]
        /\ \A q \in Runs : queueAgent[q] \in Seq(EventsOf(q))
    BY DEF AgentInv, AgentTypes
  <2>2. \/ queueAgent' = queueAgent
        \/ \E e \in Seq(EventsOf(r)) : queueAgent' = [queueAgent EXCEPT ![r] = queueAgent[r] \o e]
    <3> DEFINE call == [type |-> "call", id |-> Agent!Encoded(r)]
               result == [type |-> "result", id |-> Agent!Raw(r)]
               end == [type |-> "end", id |-> None]
               error == [type |-> "error", id |-> None]
    <3>1. {call, result, end, error} \subseteq EventsOf(r)
      BY DEF EventsOf, Own, Agent!Encoded, Agent!Raw
    <3>2. \/ queueAgent' = queueAgent \/ Agent!Emit(r, <<call>>) \/ Agent!Emit(r, <<call, result>>)
          \/ Agent!Emit(r, <<end>>) \/ Agent!Emit(r, <<error, end>>)
      BY DEF Agent!TaskStep, Agent!_ensure_session_exists, Agent!BackendTool, Agent!ClientTool,
         Agent!_run_adk_in_background
    <3> HIDE DEF call, result, end, error
    <3>3. {<<call>>, <<call, result>>, <<end>>, <<error, end>>} \subseteq Seq(EventsOf(r))
      BY <3>1
    <3>4. \A e : Agent!Emit(r, e) =>
            queueAgent' = queueAgent \/ queueAgent' = [queueAgent EXCEPT ![r] = queueAgent[r] \o e]
      BY DEF Agent!Emit
    <3> QED  BY <3>2, <3>3, <3>4
  <2>3. PICK v \in Seq(EventsOf(r)) : queueAgent' = [queueAgent EXCEPT ![r] = v]
    <3>1. \A e \in Seq(EventsOf(r)) : queueAgent[r] \o e \in Seq(EventsOf(r))
      BY <2>1
    <3>2. queueAgent = [queueAgent EXCEPT ![r] = queueAgent[r]]
      BY <2>1
    <3> QED  BY <2>1, <2>2, <3>1, <3>2
  <2> QED  BY <2>3, QueueChanges DEF AgentInv
<1>5. AgentTypes'
  <2>1. task' \in [Runs -> TaskStates]
    BY <1>1 DEF AgentInv, AgentTypes, TaskStates
  <2>2. sessionAgent' \subseteq Threads /\ fresh' \subseteq Threads
    BY <1>2, <1>3 DEF AgentInv, AgentTypes
  <2> QED  BY <1>1, <1>4, <2>1, <2>2 DEF AgentInv, AgentTypes
<1>6. RunsFit'
  BY <1>1, <1>2, <1>4 DEF AgentInv, AgentTypes, RunsFit
<1>7. SessionsKept'
  <2> SUFFICES ASSUME NEW q \in Runs, pc[q] = "streaming", ~Kept(thread[q])'
               PROVE  /\ callsAgent[q] = {} /\ queueAgent'[q] = <<>>
                      /\ task'[q] \in {"created", "cancelled"}
    BY <1>1 DEF SessionsKept
  <2>1. ~Kept(thread[q])
    BY <1>1, <1>3 DEF Kept
  <2>2. callsAgent[q] = {} /\ queueAgent[q] = <<>> /\ task[q] \in {"created", "cancelled"}
    BY <2>1 DEF AgentInv, SessionsKept
  <2>3. q # r
    BY <1>1, <1>3, <2>2 DEF Kept
  <2> QED  BY <1>1, <1>4, <2>2, <2>3 DEF AgentInv, AgentTypes
<1>8. \A t \in sessionAgent : t \in sessionAgent'
  BY <1>3
<1> QED  BY <1>1, <1>5, <1>6, <1>7, <1>8, CallsUntouched

\* An event is read: what it calls or settles is of this run.
LEMMA EventRead ==
    ASSUME AgentInv, NEW r \in Runs, Agent!_stream_events(r) PROVE AgentInv'
<1> USE AgentConstants DEF Agent!ExecutionAssumption
<1>e. PICK e : e = Head(queueAgent[r])
  OBVIOUS
<1>1. /\ pc[r] = "streaming" /\ queueAgent[r] # <<>>
      /\ queueAgent' = [queueAgent EXCEPT ![r] = Tail(queueAgent[r])]
      /\ callsAgent' = [callsAgent EXCEPT ![r] = Agent!Track(callsAgent[r], e)]
      /\ \E x \in {{}, {"error"}} : shownAgent' = [shownAgent EXCEPT ![r] = shownAgent[r] \cup x]
      /\ UNCHANGED <<pc, thread, answers, task, active, sessionAgent, fresh, pending>>
  BY <1>e DEF Agent!_stream_events, Agent!sessions, AgentInv, AgentTypes
<1>2. /\ "finished" \notin shownAgent[r] /\ callsAgent[r] \subseteq Own(r) /\ thread[r] \in Threads
  BY <1>1 DEF AgentInv, RunsFit
<1>3. Tail(queueAgent[r]) \in Seq(EventsOf(r)) /\ e \in EventsOf(r)
  BY <1>e, <1>1 DEF AgentInv, AgentTypes
<1>4. Agent!Track(callsAgent[r], e) \subseteq Own(r)
  BY <1>2, <1>3 DEF Agent!Track, EventsOf
<1>5. Own(r) \subseteq Runs \X {"encoded", "raw"}
  BY DEF Own
<1>6. /\ callsAgent' \in [Runs -> SUBSET (Runs \X {"encoded", "raw"})]
      /\ callsAgent'[r] \subseteq Own(r)
      /\ \A q \in Runs \ {r} : callsAgent'[q] = callsAgent[q]
  BY <1>1, <1>4, <1>5 DEF AgentInv, AgentTypes
<1>7. /\ DOMAIN queueAgent' = Runs /\ queueAgent' = [q \in Runs |-> queueAgent'[q]]
      /\ \A q \in Runs : queueAgent'[q] \in Seq(EventsOf(q))
      /\ \A q \in Runs \ {r} : queueAgent'[q] = queueAgent[q]
  BY <1>1, <1>3, QueueChanges DEF AgentInv
<1>8. /\ shownAgent' \in [Runs -> SUBSET {"started", "error", "finished"}]
      /\ \A q \in Runs : "finished" \in shownAgent'[q] <=> "finished" \in shownAgent[q]
      /\ \A q \in Runs \ {r} : shownAgent'[q] = shownAgent[q]
  <2>1. PICK x \in {{}, {"error"}} : shownAgent' = [shownAgent EXCEPT ![r] = shownAgent[r] \cup x]
    BY <1>1
  <2>2. shownAgent \in [Runs -> SUBSET {"started", "error", "finished"}]
    BY DEF AgentInv, AgentTypes
  <2> QED  BY <2>1, <2>2
<1>9. AgentTypes'
  BY <1>1, <1>6, <1>7, <1>8 DEF AgentInv, AgentTypes
<1>10. RunsFit'
  BY <1>1, <1>2, <1>6, <1>7, <1>8 DEF AgentInv, AgentTypes, RunsFit
<1>11. SessionsKept'
  BY <1>1, <1>6, <1>7 DEF AgentInv, SessionsKept, Kept
<1> QED  BY <1>1, <1>2, <1>6, <1>8, <1>9, <1>10, <1>11, CallsUntouched

\* The stream is over: the calls it left open become pending with RUN_FINISHED.
LEMMA StreamIsOver ==
    ASSUME AgentInv, NEW r \in Runs, pc[r] = "streaming",
           NEW x \in {{}, {"error"}}, Agent!StreamOver(r, x),
           queueAgent' = queueAgent \/ queueAgent' = [queueAgent EXCEPT ![r] = <<>>]
    PROVE  AgentInv'
<1> USE AgentConstants DEF Agent!ExecutionAssumption
<1>t. PICK t : t = thread[r]
  OBVIOUS
<1>1. /\ pc[r] = "streaming" /\ Agent!StreamOver(r, x)
      /\ queueAgent' = queueAgent \/ queueAgent' = [queueAgent EXCEPT ![r] = <<>>]
  OBVIOUS
<1>2. /\ pc' = [pc EXCEPT ![r] = "ending"]
      /\ shownAgent' = [shownAgent EXCEPT ![r] = shownAgent[r] \cup x \cup {"finished"}]
      /\ fresh' = fresh \/ (fresh' = fresh \cup {t} /\ t \in sessionAgent)
      /\ UNCHANGED <<thread, answers, callsAgent, task, active, sessionAgent>>
      /\ pending' = [pending EXCEPT ![t] = IF t \in sessionAgent THEN pending[t] \cup callsAgent[r]
                                           ELSE pending[t]]
  BY <1>t, <1>1 DEF Agent!StreamOver, Agent!StorePending, Agent!update_session_state,
     Agent!get_state_value, AgentInv, AgentTypes
<1>3. /\ t \in Threads /\ "finished" \notin shownAgent[r] /\ callsAgent[r] \subseteq Own(r)
      /\ callsAgent[r] # {} => t \in sessionAgent
  BY <1>t, <1>1 DEF AgentInv, RunsFit, SessionsKept, Kept
<1>4. /\ pending' \in [Threads -> SUBSET (Runs \X {"encoded", "raw"})]
      /\ pending'[t] = pending[t] \cup callsAgent[r]
      /\ \A u \in Threads \ {t} : pending'[u] = pending[u]
  BY <1>2, <1>3 DEF AgentInv, AgentTypes
<1>5. /\ shownAgent' \in [Runs -> SUBSET {"started", "error", "finished"}]
      /\ "finished" \in shownAgent'[r]
      /\ \A q \in Runs \ {r} : shownAgent'[q] = shownAgent[q]
  <2>1. shownAgent \in [Runs -> SUBSET {"started", "error", "finished"}]
    BY DEF AgentInv, AgentTypes
  <2> QED  BY <1>2, <2>1
<1>6. /\ DOMAIN queueAgent' = Runs /\ queueAgent' = [q \in Runs |-> queueAgent'[q]]
      /\ \A q \in Runs : queueAgent'[q] \in Seq(EventsOf(q))
      /\ \A q \in Runs \ {r} : queueAgent'[q] = queueAgent[q]
  <2>1. PICK v \in Seq(EventsOf(r)) : queueAgent' = [queueAgent EXCEPT ![r] = v]
    <3>1. queueAgent = [queueAgent EXCEPT ![r] = queueAgent[r]] /\ queueAgent[r] \in Seq(EventsOf(r))
      BY DEF AgentInv, AgentTypes
    <3>2. <<>> \in Seq(EventsOf(r))
      OBVIOUS
    <3>3. CASE queueAgent' = queueAgent
      BY <3>1, <3>3
    <3>4. CASE queueAgent' = [queueAgent EXCEPT ![r] = <<>>]
      BY <3>2, <3>4
    <3> QED  BY <1>1, <3>3, <3>4
  <2> QED  BY <2>1, QueueChanges DEF AgentInv
<1>7. AgentTypes'
  <2>1. pc' \in [Runs -> {"idle", "started", "waiting", "streaming", "ending", "closed"}]
    BY <1>2 DEF AgentInv, AgentTypes
  <2>2. fresh' \subseteq Threads
    BY <1>2, <1>3 DEF AgentInv, AgentTypes
  <2> QED  BY <1>2, <1>4, <1>5, <1>6, <2>1, <2>2 DEF AgentInv, AgentTypes
<1>8. RunsFit'
  BY <1>1, <1>2, <1>5, <1>6 DEF AgentInv, AgentTypes, RunsFit
<1>9. SessionsKept'
  BY <1>1, <1>2, <1>6 DEF AgentInv, AgentTypes, SessionsKept, Kept
<1>10. PendingUnanswered'
  <2> SUFFICES ASSUME NEW u \in Threads, NEW i \in pending'[u]
               PROVE  /\ u \in sessionAgent /\ i[1] \in Runs /\ i \in Own(i[1]) /\ thread[i[1]] = u
                      /\ "finished" \in shownAgent'[i[1]] /\ \A q \in Runs : answers[q] # i
    BY <1>2 DEF PendingUnanswered
  <2>1. CASE i \in pending[u]
    BY <1>5, <2>1 DEF AgentInv, PendingUnanswered
  <2>2. CASE i \in callsAgent[r] /\ u = t
    <3>1. u \in sessionAgent /\ i[1] = r /\ i \in Own(r) /\ thread[r] = u
      BY <1>t, <1>3, <2>2 DEF Own
    <3>2. ASSUME NEW q \in Runs PROVE answers[q] # i
      <4>1. SUFFICES ASSUME answers[q] = i PROVE FALSE
        OBVIOUS
      <4>2. answers[q] # None
        BY <2>2, <4>1 DEF AgentInv, AgentTypes
      <4> QED
        BY <1>3, <3>1, <4>1, <4>2 DEF AgentInv, Agent!AnswerContinuesOnce
    <3> QED  BY <1>5, <3>1, <3>2
  <2> QED  BY <1>4, <2>1, <2>2
<1>11. AnswersFit'
  BY <1>2 DEF AgentInv, AnswersFit
<1>12. Agent!AnswerContinuesOnce'
  <2> SUFFICES ASSUME NEW q \in Runs, answers[q] # None
               PROVE  /\ thread[answers[q][1]] = thread[q] /\ "finished" \in shownAgent'[answers[q][1]]
                      /\ \A o \in Runs \ {q} : answers[o] # answers[q]
    BY <1>2 DEF Agent!AnswerContinuesOnce
  <2> QED  BY <1>5 DEF AgentInv, AnswersFit, Agent!AnswerContinuesOnce
<1>13. Agent!FinishedCallIsAnswerable'
  <2> SUFFICES ASSUME NEW q \in Runs, "finished" \in shownAgent'[q], NEW i \in callsAgent[q]
               PROVE  \/ thread[q] \in sessionAgent /\ i \in pending'[thread[q]]
                      \/ \E o \in Runs : answers[o] = i
    BY <1>2 DEF Agent!FinishedCallIsAnswerable, Agent!is_pending_tool_call, Agent!get_state_value
  <2>1. CASE q = r
    BY <1>t, <1>3, <1>4, <2>1
  <2>2. CASE q # r
    <3>1. \/ thread[q] \in sessionAgent /\ i \in pending[thread[q]]
          \/ \E o \in Runs : answers[o] = i
      BY <1>5, <2>2 DEF AgentInv, Agent!FinishedCallIsAnswerable, Agent!is_pending_tool_call,
         Agent!get_state_value
    <3> QED  BY <1>4, <3>1 DEF AgentInv, AgentTypes
  <2> QED  BY <2>1, <2>2
<1>14. Agent!IdlePlaceAwaitsAnswer'
  <2> SUFFICES ASSUME NEW u \in Threads, active[u] # None,
                      \A q \in Runs : thread[q] = u => pc'[q] = "closed"
               PROVE  u \in sessionAgent /\ pending'[u] # {}
    BY <1>2 DEF Agent!IdlePlaceAwaitsAnswer, Agent!Registered, Agent!_has_pending_tool_calls,
       Agent!get_state_value
  <2>1. u # t
    BY <1>t, <1>2 DEF AgentInv, AgentTypes
  <2>2. \A q \in Runs : thread[q] = u => pc[q] = "closed"
    BY <1>t, <1>2, <2>1 DEF AgentInv, AgentTypes
  <2> QED
    BY <1>4, <2>1, <2>2 DEF AgentInv, Agent!IdlePlaceAwaitsAnswer, Agent!Registered,
       Agent!_has_pending_tool_calls, Agent!get_state_value
<1> QED  BY <1>7, <1>8, <1>9, <1>10, <1>11, <1>12, <1>13, <1>14 DEF AgentInv

\* The consumer goes away, the task was cancelled, or the request ends: the place of
\* the thread is given up unless calls are pending.
LEMMA RequestEnds ==
    ASSUME AgentInv, NEW r \in Runs,
           \/ Agent!Abandon(r) \/ Agent!Finally(r)
           \/ pc[r] = "streaming" /\ Agent!StreamBroken(r) /\ queueAgent' = queueAgent
    PROVE  AgentInv'
<1> USE AgentConstants DEF Agent!ExecutionAssumption
<1>1. /\ UNCHANGED <<thread, answers, shownAgent, callsAgent, task, sessionAgent, fresh, pending>>
      /\ queueAgent' = queueAgent \/ queueAgent' = [queueAgent EXCEPT ![r] = <<>>]
      /\ pc[r] # "idle"
  BY DEF Agent!Abandon, Agent!Finally, Agent!StreamBroken, Agent!sessions
<1>2. \/ pc' = [pc EXCEPT ![r] = "ending"] /\ active' = active
      \/ /\ pc' = [pc EXCEPT ![r] = "closed"] /\ pc[r] = "ending"
         /\ \/ active' = [active EXCEPT ![thread[r]] = None]
            \/ active' = active /\ thread[r] \in sessionAgent /\ pending[thread[r]] # {}
  BY DEF Agent!Abandon, Agent!Finally, Agent!StreamBroken, Agent!_has_pending_tool_calls,
     Agent!get_state_value, AgentInv, AgentTypes
<1>3. thread[r] \in Threads
  BY <1>1 DEF AgentInv, RunsFit
<1>4. /\ DOMAIN queueAgent' = Runs /\ queueAgent' = [q \in Runs |-> queueAgent'[q]]
      /\ \A q \in Runs : queueAgent'[q] \in Seq(EventsOf(q))
      /\ \A q \in Runs \ {r} : queueAgent'[q] = queueAgent[q]
  <2>1. PICK v \in Seq(EventsOf(r)) : queueAgent' = [queueAgent EXCEPT ![r] = v]
    <3>1. queueAgent = [queueAgent EXCEPT ![r] = queueAgent[r]] /\ queueAgent[r] \in Seq(EventsOf(r))
      BY DEF AgentInv, AgentTypes
    <3>2. <<>> \in Seq(EventsOf(r))
      OBVIOUS
    <3>3. CASE queueAgent' = queueAgent
      BY <3>1, <3>3
    <3>4. CASE queueAgent' = [queueAgent EXCEPT ![r] = <<>>]
      BY <3>2, <3>4
    <3> QED  BY <1>1, <3>3, <3>4
  <2> QED  BY <2>1, QueueChanges DEF AgentInv
<1>p. PICK p \in {"ending", "closed"} : pc' = [pc EXCEPT ![r] = p]
  BY <1>2
<1>5. AgentTypes'
  <2>1. pc' \in [Runs -> {"idle", "started", "waiting", "streaming", "ending", "closed"}]
    BY <1>p DEF AgentInv, AgentTypes
  <2>2. active' \in [Threads -> Runs \cup {None}]
    BY <1>2 DEF AgentInv, AgentTypes
  <2> QED  BY <1>1, <1>4, <2>1, <2>2 DEF AgentInv, AgentTypes
<1>6. RunsFit'
  BY <1>1, <1>3, <1>4, <1>p DEF AgentInv, AgentTypes, RunsFit
<1>7. SessionsKept'
  BY <1>1, <1>4, <1>p DEF AgentInv, AgentTypes, SessionsKept, Kept
<1>8. ASSUME NEW t \in Threads, active'[t] # None,
             \A q \in Runs : thread[q] = t => pc'[q] = "closed"
      PROVE  \/ active[t] # None /\ \A q \in Runs : thread[q] = t => pc[q] = "closed"
             \/ pending[t] # {} /\ t \in sessionAgent
  <2>1. CASE t = thread[r]
    BY <1>2, <1>3, <1>8, <2>1 DEF AgentInv, AgentTypes
  <2>2. CASE t # thread[r]
    BY <1>2, <1>8, <2>2 DEF AgentInv, AgentTypes
  <2> QED  BY <2>1, <2>2
<1> QED  BY <1>1, <1>5, <1>6, <1>7, <1>8, CallsUntouched

\* Time passes, sessions without calls are cleaned up, executions are cancelled.
LEMMA OthersAct ==
    ASSUME AgentInv,
           \/ \E r \in Runs : Agent!Age(r)
           \/ \E t \in Threads : Agent!Expire(t)
           \/ Agent!_cleanup_expired_sessions
           \/ Agent!close
    PROVE  AgentInv'
<1> USE AgentConstants DEF Agent!ExecutionAssumption
<1>1. UNCHANGED <<pc, thread, answers, shownAgent, callsAgent, queueAgent>>
  BY DEF Agent!Age, Agent!Expire, Agent!_cleanup_expired_sessions, Agent!close, Agent!requests,
     Agent!executions
<1>2. /\ task' \in [Runs -> TaskStates]
      /\ \A q \in Runs : Settles(task[q], task'[q])
  <2>1. task' = task \/ \E ended : task' = Agent!Cancelled(ended)
    BY DEF Agent!Age, Agent!Expire, Agent!_cleanup_expired_sessions, Agent!close,
       Agent!executions
  <2>2. CASE task' = task
    BY <2>2 DEF AgentInv, AgentTypes, Settles
  <2>3. CASE \E ended : task' = Agent!Cancelled(ended)
    BY <2>3, CancelledTasks DEF AgentInv
  <2> QED  BY <2>1, <2>2, <2>3
<1>3. active' = active \/ active' = [t \in Threads |-> None]
  BY DEF Agent!Age, Agent!Expire, Agent!_cleanup_expired_sessions, Agent!close
<1>4. /\ pending' = pending /\ sessionAgent' \subseteq sessionAgent
      /\ \A t \in sessionAgent : pending[t] # {} \/ t \in fresh => t \in sessionAgent'
  <2>1. CASE Agent!_cleanup_expired_sessions
    BY <2>1 DEF Agent!_cleanup_expired_sessions, Agent!Expired, AgentInv, AgentTypes
  <2>2. CASE UNCHANGED <<pending, sessionAgent>>
    BY <2>2
  <2> QED  BY <2>1, <2>2 DEF Agent!Age, Agent!Expire, Agent!close, Agent!sessions
<1>5. /\ fresh' \subseteq fresh
      /\ \A t \in fresh : Agent!Streaming(t) # {} => t \in fresh'
  BY DEF Agent!Age, Agent!Expire, Agent!_cleanup_expired_sessions, Agent!close, Agent!sessions
<1>6. AgentTypes'
  <2>1. active' \in [Threads -> Runs \cup {None}]
    BY <1>3 DEF AgentInv, AgentTypes
  <2>2. sessionAgent' \subseteq Threads /\ fresh' \subseteq Threads
    BY <1>4, <1>5 DEF AgentInv, AgentTypes
  <2> QED  BY <1>1, <1>2, <1>4, <2>1, <2>2 DEF AgentInv, AgentTypes
<1>7. RunsFit'
  BY <1>1, <1>2 DEF AgentInv, AgentTypes, RunsFit, Settles
<1>8. SessionsKept'
  <2> SUFFICES ASSUME NEW r \in Runs, pc[r] = "streaming", ~Kept(thread[r])'
               PROVE  ~Kept(thread[r])
    BY <1>1, <1>2 DEF AgentInv, SessionsKept, Settles
  <2>1. Agent!Streaming(thread[r]) # {}
    BY DEF Agent!Streaming
  <2> QED  BY <1>1, <1>4, <1>5, <2>1 DEF Kept
<1>9. \A t \in Threads : active'[t] # None => active[t] # None
  BY <1>3
<1> QED  BY <1>1, <1>4, <1>6, <1>7, <1>8, <1>9, CallsUntouched

LEMMA AgentStep == AgentInv /\ [Agent!Next]_agentVars => AgentInv'
<1> SUFFICES ASSUME AgentInv, [Agent!Next]_agentVars PROVE AgentInv'
  OBVIOUS
<1>1. ASSUME UNCHANGED agentVars PROVE AgentInv'
  <2>1. AgentTypes' /\ RunsFit' /\ SessionsKept'
    BY <1>1 DEF agentVars, AgentInv, AgentTypes, RunsFit, SessionsKept, Kept
  <2> QED  BY <1>1, <2>1, CallsUntouched DEF agentVars
<1>2. ASSUME NEW r \in Runs, NEW t \in Threads, Agent!run(r, t) PROVE AgentInv'
  BY <1>2, RequestBegins DEF Agent!run, Agent!sessions, AgentInv, AgentTypes
<1>3. ASSUME NEW r \in Runs, NEW o \in Runs, Agent!handle_tool_result(r, Agent!Encoded(o))
      PROVE  AgentInv'
  <2>i. PICK id : id = Agent!Encoded(o)
    OBVIOUS
  <2>1. PICK t \in Threads :
          /\ Agent!TrustedAnswer(t, id) /\ Agent!is_pending_tool_call(t, id)
          /\ Agent!_remove_pending_tool_call(t, id) /\ fresh' = fresh \cup {t}
          /\ Agent!Begin(r, t, id) /\ sessionAgent' = sessionAgent
    BY <1>3, <2>i DEF Agent!handle_tool_result
  <2>2. id[1] \in Runs /\ thread[id[1]] = t
    BY <2>i, <2>1 DEF Agent!Encoded, Agent!TrustedAnswer
  <2>3. t \in sessionAgent /\ id \in pending[t] /\ pending' = [pending EXCEPT ![t] = @ \ {id}]
    BY <2>1 DEF Agent!is_pending_tool_call, Agent!get_state_value,
       Agent!_remove_pending_tool_call, Agent!update_session_state
  <2>4. fresh \subseteq fresh' /\ fresh' \subseteq Threads
    BY <2>1 DEF AgentInv, AgentTypes
  <2> QED  BY <2>1, <2>2, <2>3, <2>4, RequestBegins
<1>4. ASSUME NEW r \in Runs, Agent!StreamEnd(r) \/ Agent!StreamTimeout(r) PROVE AgentInv'
  <2>1. CASE Agent!StreamEnd(r)
    BY <2>1, StreamIsOver DEF Agent!StreamEnd
  <2>2. CASE Agent!StreamTimeout(r) /\ Agent!StreamBroken(r)
    BY <2>2, RequestEnds DEF Agent!StreamTimeout
  <2>3. CASE Agent!StreamTimeout(r) /\ \E x \in {{}, {"error"}} : Agent!StreamOver(r, x)
    BY <2>3, StreamIsOver DEF Agent!StreamTimeout
  <2> QED  BY <1>4, <2>1, <2>2, <2>3 DEF Agent!StreamTimeout
<1>5. ASSUME Agent!Next PROVE AgentInv'
  BY <1>2, <1>3, <1>4, <1>5, ExecutionStarts, AgentRuns, EventRead, RequestEnds, OthersAct
  DEF Agent!Next, Agent!RunStep
<1> QED  BY <1>1, <1>5

(* For any requests, threads, limits and disturbances, an answer continues a call *)
(* the server showed in its thread, once, a call whose run was reported finished  *)
(* stays answerable, and an idle thread holds a place among the executions only   *)
(* while a call is pending in its session, also after a cancellation (adk.py,     *)
(* handle_tool_result, the finally of _start_new_execution; session_manager.py,   *)
(* _cleanup_expired_sessions).                                                    *)
THEOREM Continues == Spec => []AnswerContinuesOnce
<1> DEFINE I == part = "agent" => AgentInv
<1>1. Init => I
  BY AgentStart DEF Init
<1>2. I /\ [Next]_vars => I'
  <2> SUFFICES ASSUME I, [Next]_vars, part' = "agent" PROVE AgentInv'
    OBVIOUS
  <2>1. part = "agent" /\ [Agent!Next]_agentVars
    BY DEF Next, vars
  <2> QED  BY <2>1, AgentStep
<1>3. I => AnswerContinuesOnce
  BY DEF AnswerContinuesOnce, AgentInv
<1> QED  BY <1>1, <1>2, <1>3, PTL DEF Spec

----------------------------------------------------------------------------
(* The event stream *)

Shown == [kind : {"TEXT_MESSAGE_START", "TEXT_MESSAGE_CONTENT", "TEXT_MESSAGE_END", "TOOL_CALL_START",
                  "TOOL_CALL_END", "TOOL_CALL_RESULT"}, of : Nat \cup {"encoded", "raw"}]
TextKinds == {"TEXT_MESSAGE_START", "TEXT_MESSAGE_CONTENT", "TEXT_MESSAGE_END"}

\* Every tool call is shown outside the messages.
Outside(q) == \A i \in 1..Len(q) : Stream!CallIsOutside(q, i)

Care == {"outside", "any"}

\* What was put into the queue reads as whole messages, the one that is being streamed
\* is open, and no message beyond the last one was begun.  With c = "outside" the tool
\* calls are outside the messages.
Reads(q, s, m, c) ==
    /\ q \in Seq(Shown) /\ m \in Nat
    /\ c = "outside" => Outside(q)
    /\ Stream!Bracketed(q)
    /\ Stream!Open(q, Len(q)) = IF s THEN {m} ELSE {}
    /\ \A i \in 1..Len(q) : q[i].kind = "TEXT_MESSAGE_START" => q[i].of \in 1..m

StreamInv == /\ streaming \in BOOLEAN /\ state \in {"running", "stopped", "done", "failed"}
             /\ Reads(queueStream, streaming, message, "any")
             /\ state # "stopped" => Reads(queueStream, streaming, message, "outside")
             /\ proxy => ~streaming
             /\ Stream!CallsCutMessages /\ Stream!FinishedRunIsClosed

\* Message x was started by one of the first n events, the i-th, and not ended since.
Begun(q, n, x, i) == /\ i \in 1..n /\ q[i].kind = "TEXT_MESSAGE_START" /\ q[i].of = x
                     /\ \A j \in (i + 1)..n : ~(q[j].kind = "TEXT_MESSAGE_END" /\ q[j].of = x)

LEMMA OpenMeans ==
    ASSUME NEW q, NEW n, NEW x
    PROVE  x \in Stream!Open(q, n) <=> \E i : Begun(q, n, x, i)
BY DEF Stream!Open, Begun

\* One more event opens a message, closes one, or does neither; what was read before
\* stays as it was.
LEMMA OneMore ==
    ASSUME NEW q \in Seq(Shown), NEW e \in Shown, NEW r, r = Append(q, e)
    PROVE  /\ r \in Seq(Shown) /\ Len(r) = Len(q) + 1 /\ r[Len(r)] = e
           /\ \A i \in 1..Len(q) : r[i] = q[i]
           /\ \A n \in 0..Len(q) : Stream!Open(r, n) = Stream!Open(q, n)
           /\ \A x : x \in Stream!Open(r, Len(r)) <=>
                \/ e.kind = "TEXT_MESSAGE_START" /\ x = e.of
                \/ x \in Stream!Open(q, Len(q)) /\ ~(e.kind = "TEXT_MESSAGE_END" /\ x = e.of)
<1> DEFINE n == Len(q)
<1>0. n = Len(q)
  OBVIOUS
<1>1. r \in Seq(Shown) /\ n \in Nat /\ Len(r) = n + 1 /\ r[n + 1] = e /\ \A i \in 1..n : r[i] = q[i]
  BY AppendProperties
<1> HIDE DEF n
<1>2. ASSUME NEW k \in 0..n PROVE Stream!Open(r, k) = Stream!Open(q, k)
  <2>1. ASSUME NEW x PROVE x \in Stream!Open(r, k) <=> x \in Stream!Open(q, k)
    <3>1. ASSUME NEW i PROVE Begun(r, k, x, i) <=> Begun(q, k, x, i)
      BY <1>1 DEF Begun
    <3> QED BY <3>1, OpenMeans
  <2> QED BY <2>1
<1>3. ASSUME NEW x
      PROVE  x \in Stream!Open(r, n + 1) <=>
                \/ e.kind = "TEXT_MESSAGE_START" /\ x = e.of
                \/ x \in Stream!Open(q, n) /\ ~(e.kind = "TEXT_MESSAGE_END" /\ x = e.of)
  <2>1. ASSUME x \in Stream!Open(r, n + 1)
        PROVE  \/ e.kind = "TEXT_MESSAGE_START" /\ x = e.of
               \/ x \in Stream!Open(q, n) /\ ~(e.kind = "TEXT_MESSAGE_END" /\ x = e.of)
    <3>1. PICK i : Begun(r, n + 1, x, i)
      BY <2>1, OpenMeans
    <3>2. CASE i = n + 1
      BY <1>1, <3>1, <3>2 DEF Begun
    <3>3. CASE i \in 1..n
      <4>1. Begun(q, n, x, i) /\ ~(e.kind = "TEXT_MESSAGE_END" /\ x = e.of)
        BY <1>1, <3>1, <3>3 DEF Begun
      <4> QED BY <4>1, OpenMeans
    <3> QED BY <1>1, <3>1, <3>2, <3>3 DEF Begun
  <2>2. ASSUME e.kind = "TEXT_MESSAGE_START", x = e.of PROVE x \in Stream!Open(r, n + 1)
    <3>1. Begun(r, n + 1, x, n + 1)
      BY <1>1, <2>2 DEF Begun
    <3> QED BY <3>1, OpenMeans
  <2>3. ASSUME x \in Stream!Open(q, n), ~(e.kind = "TEXT_MESSAGE_END" /\ x = e.of)
        PROVE  x \in Stream!Open(r, n + 1)
    <3>1. PICK i : Begun(q, n, x, i)
      BY <2>3, OpenMeans
    <3>2. Begun(r, n + 1, x, i)
      BY <1>1, <2>3, <3>1 DEF Begun
    <3> QED BY <3>2, OpenMeans
  <2> QED BY <2>1, <2>2, <2>3
<1> QED BY <1>0, <1>1, <1>2, <1>3

\* An event that is in its place is appended to a queue that reads well.
LEMMA InPlace ==
    ASSUME NEW q, NEW s \in BOOLEAN, NEW m, NEW c \in Care, Reads(q, s, m, c), NEW e \in Shown,
           NEW t \in BOOLEAN, NEW k \in Nat,
           \/ e.kind = "TEXT_MESSAGE_START" /\ ~s /\ t /\ k = m + 1 /\ e.of = k
           \/ e.kind = "TEXT_MESSAGE_CONTENT" /\ s /\ t /\ k = m /\ e.of = m
           \/ e.kind = "TEXT_MESSAGE_END" /\ s /\ ~t /\ k = m /\ e.of = m
           \/ e.kind \notin TextKinds /\ t = s /\ k = m,
           c = "outside" /\ e.kind = "TOOL_CALL_START" => ~s
    PROVE  Reads(Append(q, e), t, k, c)
<1> DEFINE r == Append(q, e)
           n == Len(q)
<1>0. q \in Seq(Shown) /\ m \in Nat /\ n \in Nat
  BY DEF Reads
<1>1. /\ r \in Seq(Shown) /\ Len(r) = n + 1 /\ r[Len(r)] = e
      /\ \A i \in 1..n : r[i] = q[i]
      /\ \A i \in 0..n : Stream!Open(r, i) = Stream!Open(q, i)
      /\ \A x : x \in Stream!Open(r, Len(r)) <=>
                \/ e.kind = "TEXT_MESSAGE_START" /\ x = e.of
                \/ x \in Stream!Open(q, n) /\ ~(e.kind = "TEXT_MESSAGE_END" /\ x = e.of)
  BY <1>0, OneMore
<1>2. /\ \A x : x \in Stream!Open(q, n) <=> s /\ x = m
      /\ Stream!Open(q, n) = IF s THEN {m} ELSE {}
  BY DEF Reads
<1> HIDE DEF r
<1>3. \A i \in 1..(n + 1) : r[i].kind = "TEXT_MESSAGE_START" => r[i].of \in 1..k
  BY <1>0, <1>1 DEF Reads, TextKinds
<1>4. Stream!Open(r, Len(r)) = IF t THEN {k} ELSE {}
  <2>1. \A x : x \in Stream!Open(r, Len(r)) <=> t /\ x = k
    BY <1>1, <1>2 DEF TextKinds
  <2> QED BY <2>1
<1>5. Stream!Bracketed(r)
  <2> SUFFICES ASSUME NEW i \in 1..(n + 1)
               PROVE  /\ r[i].kind = "TEXT_MESSAGE_START"
                           => /\ Stream!Open(r, i - 1) = {}
                              /\ \A j \in 1..(i - 1) : r[j].kind = "TEXT_MESSAGE_START" => r[j].of # r[i].of
                      /\ r[i].kind \in {"TEXT_MESSAGE_CONTENT", "TEXT_MESSAGE_END"}
                           => Stream!Open(r, i - 1) = {r[i].of}
    BY <1>1 DEF Stream!Bracketed
  <2>1. CASE i \in 1..n
    <3>1. /\ q[i].kind = "TEXT_MESSAGE_START"
               => /\ Stream!Open(q, i - 1) = {}
                  /\ \A j \in 1..(i - 1) : q[j].kind = "TEXT_MESSAGE_START" => q[j].of # q[i].of
          /\ q[i].kind \in {"TEXT_MESSAGE_CONTENT", "TEXT_MESSAGE_END"} => Stream!Open(q, i - 1) = {q[i].of}
      BY <2>1 DEF Reads, Stream!Bracketed
    <3>2. i - 1 \in 0..n /\ r[i] = q[i] /\ \A j \in 1..(i - 1) : r[j] = q[j]
      BY <1>0, <1>1, <2>1
    <3> QED BY <1>1, <3>1, <3>2
  <2>2. CASE i = n + 1
    <3>1. r[i] = e /\ i - 1 = n /\ Stream!Open(r, i - 1) = Stream!Open(q, n)
      BY <1>0, <1>1, <2>2
    <3>2. \A j \in 1..n : q[j].kind = "TEXT_MESSAGE_START" => q[j].of \in 1..m
      BY DEF Reads
    <3> QED BY <1>0, <1>1, <1>2, <3>1, <3>2 DEF TextKinds
  <2> QED BY <1>0, <2>1, <2>2
<1>6. ASSUME c = "outside", NEW i \in 1..(n + 1) PROVE Stream!CallIsOutside(r, i)
  <2>1. CASE i \in 1..n
    <3>1. Stream!CallIsOutside(q, i)
      BY <1>6, <2>1 DEF Reads, Outside
    <3>2. i - 1 \in 0..n /\ r[i] = q[i]
      BY <1>0, <1>1, <2>1
    <3> QED BY <1>1, <3>1, <3>2 DEF Stream!CallIsOutside
  <2>2. CASE i = n + 1
    <3>1. r[i] = e /\ i - 1 = n /\ Stream!Open(r, i - 1) = Stream!Open(q, n)
      BY <1>0, <1>1, <2>2
    <3> QED BY <1>2, <1>6, <3>1 DEF Stream!CallIsOutside
  <2> QED BY <1>0, <2>1, <2>2
<1>7. c = "outside" => Outside(r)
  BY <1>1, <1>6 DEF Outside
<1> QED BY <1>1, <1>3, <1>4, <1>5, <1>7 DEF Reads, r

\* A translation that is read well after everything that reads well: what it yields, put
\* after such a queue, reads well with the streaming state it leaves.
ReadsOn(out, s, m, t, k, c) ==
    /\ out \in Seq(Shown) /\ t \in BOOLEAN /\ k \in Nat
    /\ \A q : Reads(q, s, m, c) => Reads(q \o out, t, k, c)

Follows(t, s, m, c) == ReadsOn(t.out, s, m, t.streaming, t.message, c)

LEMMA NothingFollows == ASSUME NEW s \in BOOLEAN, NEW m \in Nat, NEW c \in Care PROVE ReadsOn(<<>>, s, m, s, m, c)
<1>1. <<>> \in Seq(Shown)
  OBVIOUS
<1>2. ASSUME NEW q, Reads(q, s, m, c) PROVE q \o <<>> = q
  <2>1. q \in Seq(Shown)
    BY <1>2 DEF Reads
  <2> QED BY <2>1, ConcatEmptySeq
<1> QED BY <1>1, <1>2 DEF ReadsOn

LEMMA OneFollows ==
    ASSUME NEW s \in BOOLEAN, NEW m \in Nat, NEW c \in Care,
           NEW e \in Shown, NEW t \in BOOLEAN, NEW k \in Nat,
           \/ e.kind = "TEXT_MESSAGE_START" /\ ~s /\ t /\ k = m + 1 /\ e.of = k
           \/ e.kind = "TEXT_MESSAGE_CONTENT" /\ s /\ t /\ k = m /\ e.of = m
           \/ e.kind = "TEXT_MESSAGE_END" /\ s /\ ~t /\ k = m /\ e.of = m
           \/ e.kind \notin TextKinds /\ t = s /\ k = m,
           c = "outside" /\ e.kind = "TOOL_CALL_START" => ~s
    PROVE  ReadsOn(<<e>>, s, m, t, k, c)
<1>1. <<e>> \in Seq(Shown)
  OBVIOUS
<1>2. ASSUME NEW q, Reads(q, s, m, c) PROVE Reads(q \o <<e>>, t, k, c)
  <2>1. q \in Seq(Shown) /\ Append(q, e) = q \o <<e>>
    BY <1>2, AppendIsConcat DEF Reads
  <2>2. Reads(Append(q, e), t, k, c)
    BY <1>2, InPlace
  <2> QED BY <2>1, <2>2
<1> QED BY <1>1, <1>2 DEF ReadsOn

LEMMA BothFollow ==
    ASSUME NEW a, NEW b, NEW s, NEW m, NEW t, NEW k, NEW u, NEW l, NEW c,
           ReadsOn(a, s, m, t, k, c), ReadsOn(b, t, k, u, l, c)
    PROVE  ReadsOn(a \o b, s, m, u, l, c)
<1>1. a \in Seq(Shown) /\ b \in Seq(Shown) /\ a \o b \in Seq(Shown)
  BY ConcatProperties DEF ReadsOn
<1>2. ASSUME NEW q, Reads(q, s, m, c) PROVE Reads(q \o (a \o b), u, l, c)
  <2>1. q \in Seq(Shown)
    BY <1>2 DEF Reads
  <2>2. (q \o a) \o b = q \o (a \o b)
    BY <1>1, <2>1, ConcatAssociative
  <2>3. Reads(q \o a, t, k, c)
    BY <1>2 DEF ReadsOn
  <2>4. Reads((q \o a) \o b, u, l, c)
    BY <2>3 DEF ReadsOn
  <2> QED BY <2>2, <2>4
<1> QED BY <1>1, <1>2 DEF ReadsOn

LEMMA Together ==
    ASSUME NEW a, NEW b, NEW c
    PROVE  <<a>> \o <<b>> = <<a, b>> /\ (<<a>> \o <<b>>) \o <<c>> = <<a, b, c>>
<1> DEFINE S == {a, b, c}
<1>1. <<a>> \in Seq(S) /\ <<b>> \in Seq(S) /\ <<c>> \in Seq(S) /\ <<a, b>> \in Seq(S) /\ <<a, b, c>> \in Seq(S)
  OBVIOUS
<1>2. <<a>> \o <<b>> = <<a, b>>
  <2> DEFINE s == <<a>> \o <<b>>
             t == <<a, b>>
  <2>1. /\ <<a>> \o <<b>> \in Seq(S) /\ Len(<<a>> \o <<b>>) = 2
        /\ (<<a>> \o <<b>>)[1] = a /\ (<<a>> \o <<b>>)[2] = b
    BY <1>1, ConcatProperties
  <2>2. s \in Seq(S) /\ t \in Seq(S) /\ Len(s) = Len(t) /\ \A k \in 1..Len(s) : s[k] = t[k]
    BY <1>1, <2>1
  <2> HIDE DEF s, t
  <2>3. s = t
    BY <2>2, SeqEqual
  <2> QED BY <2>3 DEF s, t
<1>3. <<a, b>> \o <<c>> = <<a, b, c>>
  <2> DEFINE s == <<a, b>> \o <<c>>
             t == <<a, b, c>>
  <2>1. /\ <<a, b>> \o <<c>> \in Seq(S) /\ Len(<<a, b>> \o <<c>>) = 3
        /\ (<<a, b>> \o <<c>>)[1] = a /\ (<<a, b>> \o <<c>>)[2] = b /\ (<<a, b>> \o <<c>>)[3] = c
    BY <1>1, ConcatProperties
  <2>2. s \in Seq(S) /\ t \in Seq(S) /\ Len(s) = Len(t) /\ \A k \in 1..Len(s) : s[k] = t[k]
    BY <1>1, <2>1
  <2> HIDE DEF s, t
  <2>3. s = t
    BY <2>2, SeqEqual
  <2> QED BY <2>3 DEF s, t
<1> QED BY <1>2, <1>3

\* The messages and the calls the translator shows.
LEMMA MessageFollows ==
    ASSUME NEW m \in Nat, NEW c \in Care
    PROVE  /\ ReadsOn(<<Stream!End(m)>>, TRUE, m, FALSE, m, c)
           /\ ReadsOn(<<Stream!Content(m)>>, TRUE, m, TRUE, m, c)
           /\ ReadsOn(<<Stream!Start(m + 1)>>, FALSE, m, TRUE, m + 1, c)
<1>1. /\ Stream!End(m) \in Shown /\ Stream!End(m).kind = "TEXT_MESSAGE_END" /\ Stream!End(m).of = m
      /\ Stream!Content(m) \in Shown /\ Stream!Content(m).kind = "TEXT_MESSAGE_CONTENT" /\ Stream!Content(m).of = m
  BY DEF Stream!End, Stream!Content, Shown
<1>2. /\ Stream!Start(m + 1) \in Shown /\ m + 1 \in Nat
      /\ Stream!Start(m + 1).kind = "TEXT_MESSAGE_START" /\ Stream!Start(m + 1).of = m + 1
  BY DEF Stream!Start, Shown
<1>3. ReadsOn(<<Stream!End(m)>>, TRUE, m, FALSE, m, c)
  BY <1>1, OneFollows
<1>4. ReadsOn(<<Stream!Content(m)>>, TRUE, m, TRUE, m, c)
  BY <1>1, OneFollows
<1>5. ReadsOn(<<Stream!Start(m + 1)>>, FALSE, m, TRUE, m + 1, c)
  BY <1>2, OneFollows
<1> QED BY <1>3, <1>4, <1>5

LEMMA CallFollows ==
    ASSUME NEW s \in BOOLEAN, NEW m \in Nat, NEW id \in {"encoded", "raw"}, NEW c \in Care
    PROVE  /\ ~(c = "outside" /\ s) => ReadsOn(Stream!ToolCall(id), s, m, s, m, c)
           /\ ReadsOn(<< [kind |-> "TOOL_CALL_RESULT", of |-> id] >>, s, m, s, m, c)
<1>1. ASSUME NEW x \in {"TOOL_CALL_START", "TOOL_CALL_END", "TOOL_CALL_RESULT"},
             x = "TOOL_CALL_START" => ~(c = "outside" /\ s)
      PROVE  ReadsOn(<< [kind |-> x, of |-> id] >>, s, m, s, m, c)
  <2>1. /\ [kind |-> x, of |-> id] \in Shown /\ [kind |-> x, of |-> id].kind \notin TextKinds
        /\ [kind |-> x, of |-> id].kind = x
    BY DEF Shown, TextKinds
  <2> QED BY <1>1, <2>1, OneFollows
<1>2. ASSUME ~(c = "outside" /\ s)
      PROVE  ReadsOn(<< [kind |-> "TOOL_CALL_START", of |-> id] >> \o << [kind |-> "TOOL_CALL_END", of |-> id] >>,
                     s, m, s, m, c)
  BY <1>1, <1>2, BothFollow
<1>3. Stream!ToolCall(id) =
        << [kind |-> "TOOL_CALL_START", of |-> id] >> \o << [kind |-> "TOOL_CALL_END", of |-> id] >>
  BY DEF Stream!ToolCall
<1> QED BY <1>1, <1>2, <1>3

LEMMA CloseFollows ==
    ASSUME NEW s \in BOOLEAN, NEW m \in Nat, NEW c \in Care
    PROVE  /\ Follows(Stream!force_close_streaming_message(s, m), s, m, c)
           /\ Stream!force_close_streaming_message(s, m).streaming = FALSE
           /\ Stream!force_close_streaming_message(s, m).message = m
BY NothingFollows, MessageFollows
   DEF Follows, Stream!force_close_streaming_message, Stream!Yield

LEMMA TextFollows ==
    ASSUME NEW e, NEW s \in BOOLEAN, NEW m \in Nat, NEW c \in Care
    PROVE  Follows(Stream!_translate_text_content(e, s, m), s, m, c)
<1>1. CASE ~s
  <2>1. ReadsOn(<<Stream!Start(m + 1)>> \o <<Stream!Content(m + 1)>>, FALSE, m, TRUE, m + 1, c)
    BY MessageFollows, BothFollow, m + 1 \in Nat
  <2>2. ReadsOn((<<Stream!Start(m + 1)>> \o <<Stream!Content(m + 1)>>) \o <<Stream!End(m + 1)>>,
                  FALSE, m, FALSE, m + 1, c)
    BY <2>1, MessageFollows, BothFollow, m + 1 \in Nat
  <2>3. /\ <<Stream!Start(m + 1)>> \o <<Stream!Content(m + 1)>> = <<Stream!Start(m + 1), Stream!Content(m + 1)>>
        /\ (<<Stream!Start(m + 1)>> \o <<Stream!Content(m + 1)>>) \o <<Stream!End(m + 1)>>
             = <<Stream!Start(m + 1), Stream!Content(m + 1), Stream!End(m + 1)>>
    BY Together
  <2>4. Follows(Stream!FinalText(e, s, m), s, m, c)
    BY <1>1, <2>2, <2>3, NothingFollows DEF Follows, Stream!FinalText, Stream!Yield
  <2>5. Follows(Stream!StreamedText(s, m), s, m, c)
    BY <1>1, <2>1, <2>3 DEF Follows, Stream!StreamedText, Stream!Yield
  <2>6. Follows(Stream!Yield(<<>>, s, m), s, m, c)
    BY NothingFollows DEF Follows, Stream!Yield
  <2> QED BY <2>4, <2>5, <2>6 DEF Stream!_translate_text_content
<1>2. CASE s
  <2>1. Follows(Stream!FinalText(e, s, m), s, m, c)
    BY <1>2, CloseFollows DEF Stream!FinalText
  <2>2. Follows(Stream!StreamedText(s, m), s, m, c)
    BY <1>2, MessageFollows DEF Follows, Stream!StreamedText, Stream!Yield
  <2>3. Follows(Stream!Yield(<<>>, s, m), s, m, c)
    BY NothingFollows DEF Follows, Stream!Yield
  <2> QED BY <2>1, <2>2, <2>3 DEF Stream!_translate_text_content
<1> QED BY <1>1, <1>2

\* The translation of an event that only shows its long-running call, which need not
\* be outside a message.
LEMMA StopFollows ==
    ASSUME NEW e, streaming \in BOOLEAN, message \in Nat, NEW c \in Care,
           c = "any" \/ e.part # "client"
    PROVE  Follows(Stream!translate_lro_function_calls(e), streaming, message, c)
BY CallFollows, NothingFollows DEF Follows, Stream!translate_lro_function_calls, Stream!Yield

\* A client tool is called when the text is closed.
LEMMA ClientCloses ==
    ASSUME NEW e, ~e.user, e.part = "client"
    PROVE  Stream!translate(e).streaming = FALSE
BY DEF Stream!translate, Stream!Yield, Stream!force_close_streaming_message

\* The whole translation of an event.
LEMMA EventFollows ==
    ASSUME NEW e, streaming \in BOOLEAN, message \in Nat, NEW c \in Care
    PROVE  Follows(Stream!translate(e), streaming, message, c)
<1> DEFINE text == Stream!_translate_text_content(e, streaming, message)
           closed == IF e.part \in {"backend", "internal", "client"}
                     THEN Stream!force_close_streaming_message(text.streaming, text.message)
                     ELSE Stream!Yield(<<>>, text.streaming, text.message)
           s == closed.streaming
           m == closed.message
<1>1. ReadsOn(text.out, streaming, message, text.streaming, text.message, c)
  BY TextFollows DEF Follows
<1>2. text.streaming \in BOOLEAN /\ text.message \in Nat
  BY <1>1 DEF ReadsOn
<1> HIDE DEF text
<1>3. ReadsOn(closed.out, text.streaming, text.message, s, m, c)
  <2>1. Follows(Stream!Yield(<<>>, text.streaming, text.message), text.streaming, text.message, c)
    BY <1>2, NothingFollows DEF Follows, Stream!Yield
  <2>2. Follows(closed, text.streaming, text.message, c)
    BY <1>2, <2>1, CloseFollows
  <2> QED BY <2>2 DEF Follows
<1>4. /\ s \in BOOLEAN /\ m \in Nat
      /\ e.part \in {"backend", "client"} => s = FALSE
  BY <1>2, <1>3, CloseFollows DEF ReadsOn
<1> HIDE DEF closed, s, m
<1>5. /\ ReadsOn(Stream!_translate_function_calls(e), s, m, s, m, c)
      /\ ReadsOn(Stream!_translate_function_response(e), s, m, s, m, c)
  BY <1>4, CallFollows, NothingFollows DEF Stream!_translate_function_calls, Stream!_translate_function_response
<1>6. ReadsOn(((text.out \o closed.out) \o Stream!_translate_function_calls(e))
                  \o Stream!_translate_function_response(e), streaming, message, s, m, c)
  BY <1>1, <1>3, <1>5, BothFollow
<1>7. Follows(Stream!Yield(<<>>, streaming, message), streaming, message, c)
  BY NothingFollows DEF Follows, Stream!Yield
<1>8. Stream!translate(e) =
        IF e.user THEN Stream!Yield(<<>>, streaming, message)
        ELSE Stream!Yield(((text.out \o closed.out) \o Stream!_translate_function_calls(e))
                            \o Stream!_translate_function_response(e), s, m)
  BY DEF Stream!translate, text, closed, s, m
<1>9. Follows(Stream!Yield(((text.out \o closed.out) \o Stream!_translate_function_calls(e))
                            \o Stream!_translate_function_response(e), s, m), streaming, message, c)
  BY <1>6 DEF Follows, Stream!Yield
<1> QED BY <1>7, <1>8, <1>9

LEMMA StreamStart == Stream!Init => StreamInv
<1> SUFFICES ASSUME Stream!Init PROVE StreamInv
  OBVIOUS
<1>1. /\ streaming = FALSE /\ message = 0 /\ proxy = FALSE /\ queueStream = <<>>
      /\ state = "running" /\ Len(<<>>) = 0
  BY DEF Stream!Init
<1>2. Stream!Bracketed(<<>>) /\ Stream!Open(<<>>, 0) = {} /\ Outside(<<>>)
  BY DEF Stream!Bracketed, Stream!Open, Outside
<1>3. Reads(<<>>, FALSE, 0, "outside") /\ Reads(<<>>, FALSE, 0, "any")
  BY <1>2 DEF Reads
<1>4. Stream!CallsCutMessages /\ Stream!FinishedRunIsClosed
  BY <1>1 DEF Stream!CallsCutMessages, Stream!FinishedRunIsClosed
<1> QED BY <1>1, <1>3, <1>4 DEF StreamInv

LEMMA PutReads ==
    ASSUME NEW c \in Care, Reads(queueStream, streaming, message, c),
           NEW t, Follows(t, streaming, message, c), Stream!Put(t)
    PROVE  streaming' \in BOOLEAN /\ Reads(queueStream', streaming', message', c)
<1>1. /\ queueStream' = queueStream \o t.out /\ streaming' = t.streaming /\ message' = t.message
  BY DEF Stream!Put
<1> QED BY <1>1 DEF Follows, ReadsOn

\* The call that stops the run is the last one.
LEMMA CallStops ==
    ASSUME NEW q \in Seq(Shown), Outside(q), NEW id \in {"encoded", "raw"},
           NEW r, r = q \o Stream!ToolCall(id)
    PROVE  \A i \in 1..Len(r) : Stream!CallIsOutside(r, i) \/ i = Len(r) - 1
<1> DEFINE a == [kind |-> "TOOL_CALL_START", of |-> id]
           b == [kind |-> "TOOL_CALL_END", of |-> id]
           p == Append(q, a)
           n == Len(q)
<1>1. a \in Shown /\ b \in Shown /\ b.kind = "TOOL_CALL_END" /\ n \in Nat
  BY DEF Shown
<1> HIDE DEF a, b
<1>2. /\ p \in Seq(Shown) /\ Len(p) = n + 1 /\ \A i \in 1..n : p[i] = q[i]
      /\ \A i \in 0..n : Stream!Open(p, i) = Stream!Open(q, i)
  <2>1. /\ p \in Seq(Shown) /\ Len(p) = Len(q) + 1 /\ p[Len(p)] = a
        /\ \A i \in 1..Len(q) : p[i] = q[i]
        /\ \A i \in 0..Len(q) : Stream!Open(p, i) = Stream!Open(q, i)
        /\ \A x : x \in Stream!Open(p, Len(p)) <=>
             \/ a.kind = "TEXT_MESSAGE_START" /\ x = a.of
             \/ x \in Stream!Open(q, Len(q)) /\ ~(a.kind = "TEXT_MESSAGE_END" /\ x = a.of)
    BY <1>1, OneMore
  <2> QED BY <2>1
<1>3. r = Append(p, b)
  <2>1. Stream!ToolCall(id) = <<a>> \o <<b>>
    BY DEF Stream!ToolCall, a, b
  <2>2. <<a>> \in Seq(Shown) /\ <<b>> \in Seq(Shown)
    BY <1>1
  <2>3. q \o (<<a>> \o <<b>>) = (q \o <<a>>) \o <<b>>
    BY <2>2, ConcatAssociative
  <2>4. q \o <<a>> = p /\ p \o <<b>> = Append(p, b)
    BY <1>1, <1>2, AppendIsConcat
  <2> QED BY <2>1, <2>3, <2>4
<1> HIDE DEF p, n
<1>4. /\ r \in Seq(Shown) /\ Len(r) = n + 2 /\ r[n + 2] = b /\ \A i \in 1..n : r[i] = q[i]
      /\ \A i \in 0..n : Stream!Open(r, i) = Stream!Open(q, i)
  <2>1. /\ r \in Seq(Shown) /\ Len(r) = Len(p) + 1 /\ r[Len(r)] = b
        /\ \A i \in 1..Len(p) : r[i] = p[i]
        /\ \A i \in 0..Len(p) : Stream!Open(r, i) = Stream!Open(p, i)
        /\ \A x : x \in Stream!Open(r, Len(r)) <=>
             \/ b.kind = "TEXT_MESSAGE_START" /\ x = b.of
             \/ x \in Stream!Open(p, Len(p)) /\ ~(b.kind = "TEXT_MESSAGE_END" /\ x = b.of)
    BY <1>1, <1>2, <1>3, OneMore
  <2> QED BY <1>1, <1>2, <1>3, <2>1
<1>5. ASSUME NEW i \in 1..n PROVE Stream!CallIsOutside(r, i)
  <2>1. Stream!CallIsOutside(q, i)
    BY DEF Outside, n
  <2>2. i - 1 \in 0..n
    BY <1>1
  <2> QED BY <1>4, <2>1, <2>2 DEF Stream!CallIsOutside
<1>6. Stream!CallIsOutside(r, n + 2)
  BY <1>1, <1>4 DEF Stream!CallIsOutside
<1>7. n + 1 = Len(r) - 1 /\ \A i \in 1..Len(r) : i \in 1..n \/ i = n + 1 \/ i = n + 2
  BY <1>1, <1>4
<1> QED BY <1>5, <1>6, <1>7

LEMMA StreamStep == StreamInv /\ [Stream!Next]_streamVars => StreamInv'
<1> SUFFICES ASSUME StreamInv, [Stream!Next]_streamVars PROVE StreamInv'
  OBVIOUS
<1>0. /\ streaming \in BOOLEAN /\ message \in Nat
      /\ Reads(queueStream, streaming, message, "any")
      /\ state # "stopped" => Reads(queueStream, streaming, message, "outside")
      /\ "outside" \in Care /\ "any" \in Care
  BY DEF StreamInv, Reads, Care
<1>1. ASSUME NEW e \in Stream!Events, Stream!TranslateEvent(e) PROVE StreamInv'
  <2>1. state = "running" /\ state' = "running" /\ proxy' = (e.part = "client")
    BY <1>1 DEF Stream!TranslateEvent, Stream!AgentEvent
  <2>2. streaming' \in BOOLEAN /\ Reads(queueStream', streaming', message', "outside")
    <3>1. PICK t : t = Stream!translate(e)
      OBVIOUS
    <3>2. Follows(t, streaming, message, "outside")
      BY <1>0, <3>1, EventFollows
    <3>3. Stream!Put(t)
      BY <1>1, <3>1 DEF Stream!TranslateEvent
    <3> QED BY <1>0, <2>1, <3>2, <3>3, PutReads
  <2>3. proxy' => ~streaming'
    <3>1. e.part = "client" => ~e.user
      BY DEF Stream!Events
    <3>2. e.part = "client" => Stream!translate(e).streaming = FALSE
      BY <3>1, ClientCloses
    <3>3. streaming' = Stream!translate(e).streaming
      BY <1>1 DEF Stream!TranslateEvent, Stream!Put
    <3> HIDE DEF Stream!translate
    <3> QED BY <2>1, <3>2, <3>3
  <2>4. StreamInv'
    BY <2>1, <2>2, <2>3 DEF StreamInv, Reads, Outside, Stream!CallsCutMessages,
       Stream!FinishedRunIsClosed
  <2> QED BY <2>4
<1>2. ASSUME NEW e \in Stream!Events, Stream!LongRunningEvent(e) PROVE StreamInv'
  <2>1. /\ state = "running" /\ ~proxy /\ proxy' = proxy
        /\ state' = IF e.part = "client" THEN "stopped" ELSE "running"
    BY <1>2 DEF Stream!LongRunningEvent, Stream!AgentEvent
  <2>t. PICK t : t = Stream!translate_lro_function_calls(e) /\ Stream!Put(t)
    BY <1>2 DEF Stream!LongRunningEvent
  <2>2. CASE e.part # "client"
    <3>0. Follows(t, streaming, message, "outside")
      BY <1>0, <2>t, <2>2, StopFollows
    <3>1. streaming' \in BOOLEAN /\ Reads(queueStream', streaming', message', "outside")
      BY <1>0, <2>1, <2>t, <3>0, PutReads
    <3> QED
      BY <2>1, <2>2, <3>1 DEF StreamInv, Reads, Outside, Stream!CallsCutMessages,
         Stream!FinishedRunIsClosed
  <2>3. CASE e.part = "client"
    <3>0. Follows(t, streaming, message, "any")
      BY <1>0, <2>t, StopFollows
    <3>1. streaming' \in BOOLEAN /\ Reads(queueStream', streaming', message', "any")
      BY <1>0, <2>t, <3>0, PutReads
    <3>2. queueStream' = queueStream \o Stream!ToolCall("encoded")
      BY <2>t, <2>3 DEF Stream!Put, Stream!translate_lro_function_calls, Stream!Yield
    <3>3. queueStream \in Seq(Shown) /\ Outside(queueStream)
      BY <1>0, <2>1 DEF Reads
    <3>4. \A i \in 1..Len(queueStream') :
            Stream!CallIsOutside(queueStream', i) \/ i = Len(queueStream') - 1
      BY <3>2, <3>3, CallStops
    <3> QED
      BY <2>1, <2>3, <3>1, <3>4 DEF StreamInv, Reads, Stream!CallsCutMessages,
         Stream!FinishedRunIsClosed
  <2> QED BY <2>2, <2>3
<1>3. CASE Stream!_execute_proxy_tool
  <2>1. ~streaming /\ state = "running" /\ state' = "running" /\ proxy' = FALSE
    BY <1>3 DEF Stream!_execute_proxy_tool, StreamInv
  <2>2. ReadsOn(Stream!ToolCall("raw"), streaming, message, streaming, message, "outside")
    BY <1>0, <2>1, CallFollows
  <2>3. /\ queueStream' = queueStream \o Stream!ToolCall("raw")
        /\ streaming' = streaming /\ message' = message
    BY <1>3 DEF Stream!_execute_proxy_tool
  <2>4. Reads(queueStream', streaming', message', "outside")
    BY <1>0, <2>1, <2>2, <2>3 DEF ReadsOn
  <2> QED
    BY <1>0, <2>1, <2>3, <2>4 DEF StreamInv, Reads, Outside, Stream!CallsCutMessages,
       Stream!FinishedRunIsClosed
<1>4. CASE Stream!Finish
  <2>1. state = "running" /\ state' = "done" /\ ~proxy /\ proxy' = proxy
    BY <1>4 DEF Stream!Finish
  <2>2. streaming' \in BOOLEAN /\ Reads(queueStream', streaming', message', "outside")
    BY <1>0, <1>4, <2>1, CloseFollows, PutReads DEF Stream!Finish
  <2>3. streaming' = FALSE
    BY <1>0, <1>4, CloseFollows DEF Stream!Finish, Stream!Put
  <2> QED
    BY <2>1, <2>2, <2>3 DEF StreamInv, Reads, Outside, Stream!CallsCutMessages,
       Stream!FinishedRunIsClosed
<1>5. CASE Stream!FailRun
  <2>1. /\ UNCHANGED <<queueStream, streaming, message, proxy>>
        /\ state = "running" /\ state' = "failed"
    BY <1>5 DEF Stream!FailRun
  <2> QED
    BY <1>0, <2>1 DEF StreamInv, Reads, Outside, Stream!CallsCutMessages,
       Stream!FinishedRunIsClosed
<1>6. CASE UNCHANGED streamVars
  BY <1>6 DEF StreamInv, Stream!FinishedRunIsClosed, Stream!CallsCutMessages, streamVars, Reads
<1> QED BY <1>1, <1>2, <1>3, <1>4, <1>5, <1>6 DEF Stream!Next

(* The event stream, for a run of any number of events: whatever the agent       *)
(* produces in whatever order, final events that repeat what was streamed, tool  *)
(* calls that cut a message and user events included, the reader sees whole      *)
(* messages, one open at a time, tool calls between them but for the long-running *)
(* call that stops a run, and no message open when the agent is done             *)
(* (event_translator.py, translate, translate_lro_function_calls,                *)
(* force_close_streaming_message; adk.py, _run_adk_in_background).               *)
THEOREM Bracketing == Spec => []MessagesAreBracketed
<1> DEFINE I == part = "stream" => StreamInv
<1>1. Init => I
  BY StreamStart DEF Init
<1>2. I /\ [Next]_vars => I'
  <2> SUFFICES ASSUME I, [Next]_vars, part' = "stream" PROVE StreamInv'
    OBVIOUS
  <2>1. part = "stream" /\ [Stream!Next]_streamVars
    BY DEF Next, vars
  <2> QED BY <2>1, StreamStep
<1>3. I => MessagesAreBracketed
  BY DEF MessagesAreBracketed, StreamInv, Reads, Stream!MessagesAreBracketed
<1> QED BY <1>1, <1>2, <1>3, PTL DEF Spec

=============================================================================
