------------------------------ MODULE Instances ------------------------------
(***************************************************************************)
(* pkg/provider/instances_v2.go and instances_getter.go: what the provider *)
(* tells the node controllers about the virtual machine instance behind a  *)
(* node.  An instance is a record of the state vmis; lookups return a      *)
(* name, NotFound (the API server's, or InstanceNotFound) or Failed (any   *)
(* other error).                                                           *)
(***************************************************************************)
EXTENDS Listeners

CONSTANTS
    VMINames,       \* names of virtual machine instances
    Hostname,       \* Hostname[v]: spec.hostname of instance v
    Dotted,         \* instances with a name outside [0-9A-Za-z_-]
    InstanceLabel,  \* InstanceLabel[n]: the instance-id label of node n
    ZoneAndRegionEnabled

VARIABLE vmis       \* vmis[v]: the instance as the infra cluster reports it

NotFound == "NotFound"
Failed == "Failed"

ASSUME InstancesConstants ==
    /\ IsFiniteSet(VMINames)
    /\ NotFound \notin VMINames /\ Failed \notin VMINames

Phase == {"absent", "Scheduling", "Running", "Failed", "Unknown"}

Exists(v) == vmis[v].phase # "absent"

-----------------------------------------------------------------------------
InstanceByVMIName(name) == IF name \in VMINames /\ Exists(name) THEN name ELSE NotFound

(* None or several with the hostname is an error, and not "not found".     *)
InstanceByVMIHostname(name) ==
    LET found == {v \in VMINames : Exists(v) /\ Hostname[v] = name}
    IN  IF Cardinality(found) = 1 THEN CHOOSE v \in found : TRUE ELSE Failed

(* The first getter that does not say "not found" decides.                 *)
findInstance(fetched) ==
    LET decided == {i \in DOMAIN fetched : fetched[i] # NotFound}
    IN  IF decided = {} THEN NotFound ELSE fetched[Min(decided)]

(* The id is cut out of "kubevirt://<name>" by a regular expression that   *)
(* admits no dot.                                                          *)
getProviderID(name) == <<"kubevirt", name>>

instanceIDFromProviderID(providerID) ==
    IF providerID = None \/ providerID[2] \in Dotted THEN Failed ELSE providerID[2]

(* Mutant: an instance that is gone is an error.                           *)
GoneIsAnError(node) ==
    LET id == instanceIDFromProviderID(node.providerID)
    IN  IF id = Failed \/ InstanceByVMIName(id) = NotFound THEN Failed ELSE "yes"

InstanceExists(node) ==
    LET id == instanceIDFromProviderID(node.providerID)
    IN  CASE id = Failed -> Failed
          [] id # Failed /\ InstanceByVMIName(id) = NotFound -> "no"
          [] OTHER -> "yes"

InstanceShutdown(node) ==
    LET id == instanceIDFromProviderID(node.providerID)
    IN  CASE id = Failed -> Failed
          [] id # Failed /\ InstanceByVMIName(id) = NotFound -> "yes"
          [] OTHER -> CASE vmis[id].phase = "Failed" -> "yes"
                        [] vmis[id].phase = "Unknown" -> Failed
                        [] OTHER -> "no"

(* Mutant: every interface counts, also those the guest's CNI made.        *)
addressesOfAllInterfaces(ifs, prevAddrs) ==
    LET ips == SelectSeq(FlattenSeq([i \in DOMAIN ifs |-> ifs[i].ips]), isUsableNodeIP)
    IN  IF ips = <<>> THEN prevAddrs
        ELSE [i \in DOMAIN ips |-> [type |-> "InternalIP", ip |-> ips[i]]]

(* The usable addresses of the default interface, each once; the node's    *)
(* previous ones when the instance reports none.                           *)
getNodeAddresses(ifs, prevAddrs) ==
    LET default == {i \in DOMAIN ifs : ifs[i].name = "default"}
        ips == IF default = {} THEN <<>> ELSE ifs[Min(default)].ips
        found == {i \in DOMAIN ips : isUsableNodeIP(ips[i]) /\ New(ips, i)}
        previous == {i \in DOMAIN prevAddrs :
                        /\ prevAddrs[i].type = "InternalIP" /\ isUsableNodeIP(prevAddrs[i].ip)
                        /\ New(prevAddrs, i)}
    IN  IF found = {} THEN At(prevAddrs, previous)
        ELSE At([i \in DOMAIN ips |-> [type |-> "InternalIP", ip |-> ips[i]]], found)

(* An instance that has not been scheduled names no infra node.            *)
getRegionAndZone(v) ==
    IF ZoneAndRegionEnabled /\ vmis[v].phase = "Scheduling" THEN Failed ELSE "labels"

(* The provider id and the addresses, or nothing in case of an error.      *)
(* Type, region and zone only become labels and are left out.              *)
InstanceMetadata(name, node) ==
    LET found == findInstance(
                     IF InstanceLabel[name] # None
                       THEN <<InstanceByVMIName(InstanceLabel[name])>>
                       ELSE <<InstanceByVMIName(name), InstanceByVMIHostname(name)>>)
    IN  {[providerID |-> getProviderID(v), addrs |-> getNodeAddresses(vmis[v].ifs, node.addrs)] :
            v \in {v \in {found} \cap VMINames : getRegionAndZone(v) # Failed}}
=============================================================================
