-------------------------------- MODULE Cloud --------------------------------
(***************************************************************************)
(* pkg/provider/cloud.go and cmd/kubevirt-cloud-controller-manager: from   *)
(* the configuration file to the controllers that run.  A file is a record *)
(* with the fields it sets, or Garbled when it is not valid YAML; an       *)
(* address is a record of the parts url.Parse tells apart.                 *)
(***************************************************************************)
EXTENDS Integers

CONSTANTS
    Garbled,        \* a file that cannot be unmarshalled
    Rejected,       \* an error
    InCluster       \* the pod's own service account can be used

Scheme == {"none", "http", "https", "other", "unparsable"}

Address == [scheme : Scheme, host : {"", "server"}, port : {"", "9000", "80"}]

NoAddress == [scheme |-> "none", host |-> "", port |-> ""]

Kubeconfig == {"", "file", "missing"}

CloudConfig == [kubeconfig : Kubeconfig, namespace : {"", "tenant", "default"},
                lbEnabled : BOOLEAN, instancesEnabled : BOOLEAN, eps : BOOLEAN,
                rpcServerAddr : Address]

-----------------------------------------------------------------------------
createDefaultCloudConfig ==
    [kubeconfig |-> "", namespace |-> "", lbEnabled |-> TRUE,
     instancesEnabled |-> TRUE, eps |-> FALSE, rpcServerAddr |-> NoAddress]

(* What the file does not set keeps its default.                           *)
NewCloudConfigFromBytes(file) ==
    [f \in DOMAIN createDefaultCloudConfig |->
        IF f \in DOMAIN file THEN file[f] ELSE createDefaultCloudConfig[f]]

GetInfraKubeConfig(path) == IF path = "missing" THEN Rejected ELSE "kubeconfig"

(* The REST configuration of the infra cluster, the same for the provider  *)
(* and for the EndpointSlice controller.                                   *)
infraRestConfig(config) ==
    IF config.kubeconfig = "" THEN (IF InCluster THEN "in-cluster" ELSE Rejected)
    ELSE GetInfraKubeConfig(config.kubeconfig)

(* Only a kubeconfig gives a namespace that is not configured.             *)
kubevirtCloudProviderFactory(file) ==
    IF file = Garbled THEN Rejected
    ELSE LET config == NewCloudConfigFromBytes(file)
             namespace == IF config.namespace = "" /\ config.kubeconfig # ""
                            THEN "default" ELSE config.namespace
         IN  IF infraRestConfig(config) = Rejected THEN Rejected
             ELSE [namespace |-> namespace, config |-> config]

-----------------------------------------------------------------------------
(* The dial target, or an error.                                           *)
normalizeServerAddr(addr) ==
    CASE addr.scheme = "none" -> IF addr.host = "" THEN Rejected ELSE addr
      [] addr.scheme \in {"unparsable", "https"} -> Rejected
      [] addr.scheme = "other" -> addr
      [] addr.scheme = "http" ->
            IF addr.host = "" THEN Rejected
            ELSE [addr EXCEPT !.scheme = "none", !.port = IF @ = "" THEN "80" ELSE @]

NewClient(addr) == IF normalizeServerAddr(addr) = Rejected THEN Rejected ELSE "client"

(* Mutant: the new client never reaches the load balancer.                 *)
clientShadowed(config) == IF config.lbEnabled THEN "nil" ELSE "unsupported"

(* An error of NewClient is logged.  The load balancer then holds a nil    *)
(* *rpc.Client in an interface, which is not equal to nil.                 *)
LoadBalancer(config) ==
    CASE ~config.lbEnabled -> "unsupported"
      [] config.lbEnabled /\ config.rpcServerAddr = NoAddress -> "nil"
      [] OTHER -> IF NewClient(config.rpcServerAddr) = Rejected THEN "nil" ELSE "client"

InstancesV2(config) == config.instancesEnabled

(* Off unless enabled; without an infra client it stops the process.       *)
startKubevirtCloudController(config) ==
    CASE ~config.eps -> "off"
      [] config.eps /\ infraRestConfig(config) = Rejected -> Rejected
      [] OTHER -> "running"

(* cloudInitializer, Initialize and the start of the controllers: what the *)
(* process runs with, or Rejected when it ends with a fatal error.         *)
startProcess(file) ==
    LET cloud == kubevirtCloudProviderFactory(file)
    IN  IF cloud = Rejected THEN Rejected
        ELSE IF startKubevirtCloudController(cloud.config) = Rejected THEN Rejected
        ELSE [namespace |-> cloud.namespace, lb |-> LoadBalancer(cloud.config),
              instances |-> InstancesV2(cloud.config),
              eps |-> startKubevirtCloudController(cloud.config)]
=============================================================================
