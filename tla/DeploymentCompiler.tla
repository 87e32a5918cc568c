------------------------- MODULE DeploymentCompiler -------------------------
(***************************************************************************)
(* tools/compile_deployment.py: the validation of a deployment             *)
(* description, its comparison with what the chosen RMW backend can do,    *)
(* and what is generated from an accepted one.                             *)
(*                                                                         *)
(* A description is a record with the fields of the JSON file.  A field    *)
(* whose content only its own syntax check looks at is left out; malformed *)
(* holds the parts whose syntax check fails.  An identifier is the         *)
(* sequence of its words, <<"wheel", "speed">> for wheel_speed.            *)
(***************************************************************************)
EXTENDS Integers, Sequences, FiniteSets, FiniteSetsExt, Functions

\* A condition that rejects, and the code it rejects with.
Check(bad, code) == [bad |-> bad, code |-> code]

\* The checks are made in order and the first bad one raises DeploymentError.
FirstError(checks) ==
  LET bad == {i \in DOMAIN checks : checks[i].bad}
  IN IF bad = {} THEN "OK" ELSE checks[Min(bad)].code

SUPPORTED_BACKENDS == {"rmw_cyclonedds_c", "rmw_zenoh_pico"}

-----------------------------------------------------------------------------
(***************************************************************************)
(* validate_deployment.                                                    *)
(***************************************************************************)

\* Mutant of DuplicateId: ids are compared with the next one only.
DuplicateIdOfNeighbour(endpoints, i) ==
  i > 2 /\ endpoints[i - 1].id = endpoints[i].id

DuplicateId(endpoints, i) ==
  \E j \in 1..i - 1 : endpoints[j].id = endpoints[i].id

\* The checks of one endpoint.
EndpointChecks(endpoints, i) ==
  LET e == endpoints[i] IN
  << Check("id" \in e.malformed, "E_SCHEMA"),
     Check(DuplicateId(endpoints, i), "E_DUPLICATE_ENDPOINT"),
     Check(\/ e.kind \notin {"publisher", "subscription"}
           \/ "topic" \in e.malformed \/ "type" \in e.malformed,
           "E_SCHEMA"),
     Check(e.lifetime # "fixed_startup", "E_LIFETIME_UNSUPPORTED"),
     Check(e.callback # (e.kind = "subscription"), "E_SCHEMA"),
     Check(\/ e.qos.reliability \notin {"best_effort", "reliable"}
           \/ e.qos.durability \notin {"volatile", "transient_local"}
           \/ e.qos.history # "keep_last"
           \/ e.qos.depth < 1,
           "E_SCHEMA") >>

\* What the checks of the endpoints, in turn, raise first.
EndpointsError(endpoints) ==
  LET error(i) == FirstError(EndpointChecks(endpoints, i))
      bad == {i \in DOMAIN endpoints : error(i) # "OK"}
  IN IF bad = {} THEN "OK" ELSE error(Min(bad))

\* The checks of resources.
ResourceChecks(d) ==
  << Check("resources" \in d.malformed, "E_SCHEMA"),
     Check(Len(d.endpoints) > d.resources.local_endpoints,
           "E_RESOURCE_ENDPOINT_CAPACITY"),
     Check(\/ \E k \in DOMAIN d.resources.remote : d.resources.remote[k] < 0
           \/ d.resources.workers < 1
           \/ d.resources.application < 0
           \/ DOMAIN d.resources.targets = {}
           \/ \E t \in DOMAIN d.resources.targets :
                \/ d.resources.targets[t].flash_bytes < 1
                \/ d.resources.targets[t].ram_bytes < 1,
           "E_SCHEMA") >>

\* The checks before those of the endpoints.
RootChecks(d) ==
  << Check("root" \in d.malformed, "E_SCHEMA"),
     Check(d.schema_version # 2, "E_SCHEMA_VERSION"),
     Check("name" \in d.malformed \/ d.domain_id \notin 0..232, "E_SCHEMA"),
     Check(d.message_profile # "fixed_size", "E_MESSAGE_PROFILE_UNSUPPORTED"),
     Check("node" \in d.malformed, "E_SCHEMA"),
     Check(d.rmw = <<>> \/ ~IsInjective(d.rmw), "E_SCHEMA"),
     Check(~(Range(d.rmw) \subseteq SUPPORTED_BACKENDS), "E_BACKEND_UNKNOWN"),
     Check("graph" \in d.malformed \/ ~IsInjective(d.graph.api), "E_SCHEMA") >>

validate_deployment(d) ==
  CASE FirstError(RootChecks(d)) # "OK" -> FirstError(RootChecks(d))
    [] EndpointsError(d.endpoints) # "OK" -> EndpointsError(d.endpoints)
    [] OTHER -> FirstError(ResourceChecks(d))

-----------------------------------------------------------------------------
(***************************************************************************)
(* validate_capabilities.                                                  *)
(***************************************************************************)

\* Mutant of QosSupported: the largest depth is not compared.
QosSupportedAnyDepth(qos, cap) ==
  /\ \A p \in {"reliability", "durability", "history"} : qos[p] \in cap[p]
  /\ cap.depth.minimum <= qos.depth

QosSupported(qos, cap) ==
  /\ \A p \in {"reliability", "durability", "history"} : qos[p] \in cap[p]
  /\ qos.depth \in cap.depth.minimum..cap.depth.maximum

GraphSupported(graph, cap) ==
  /\ graph.outbound => cap.outbound
  /\ graph.inbound => cap.inbound
  /\ Range(graph.api) \subseteq cap.api

CapabilityChecks(d, cap, backend) ==
  << Check(backend \notin Range(d.rmw), "E_BACKEND_NOT_SELECTED"),
     Check(cap.schema_version # 1 \/ cap.backend # backend,
           "E_CAPABILITY_SCHEMA"),
     Check(d.message_profile \notin cap.message_profiles,
           "E_MESSAGE_PROFILE_UNSUPPORTED"),
     Check("qos" \in cap.malformed, "E_SCHEMA"),
     Check(\/ cap.qos.depth.minimum < 1
           \/ cap.qos.depth.maximum < cap.qos.depth.minimum,
           "E_CAPABILITY_SCHEMA"),
     Check(\E i \in DOMAIN d.endpoints :
             ~QosSupported(d.endpoints[i].qos, cap.qos),
           "E_QOS_UNSUPPORTED"),
     Check("graph" \in cap.malformed, "E_SCHEMA"),
     Check(~GraphSupported(d.graph, cap.graph), "E_GRAPH_UNSUPPORTED") >>

validate_capabilities(d, cap, backend) ==
  FirstError(CapabilityChecks(d, cap, backend))

\* What compile_deployment raises before it writes a file, or "OK".  The
\* report is the only reader of runtime_allocation.
compile_verdict(d, cap, backend) ==
  CASE validate_deployment(d) # "OK" -> validate_deployment(d)
    [] validate_capabilities(d, cap, backend) # "OK" ->
         validate_capabilities(d, cap, backend)
    [] "runtime_allocation" \in cap.malformed -> "KeyError"
    [] OTHER -> "OK"

-----------------------------------------------------------------------------
(***************************************************************************)
(* The generated files.                                                    *)
(***************************************************************************)

\* The positions of the subscriptions.
Subscriptions(d) ==
  {i \in DOMAIN d.endpoints : d.endpoints[i].kind = "subscription"}

\* <kind>_<id>
EndpointField(e) == <<e.kind>> \o e.id

\* The objects of struct ros2z_deployment_context: 0 is the node, then the
\* endpoints, and behind them the executor.
ObjectField(d, k) ==
  IF k = 0 THEN <<"node">>
  ELSE IF k \in DOMAIN d.endpoints THEN EndpointField(d.endpoints[k])
  ELSE <<"executor">>

\* The names of its fields: every object and its flag, and the message that a
\* subscription takes into.
ContextFields(d) ==
  [f \in ((0..Len(d.endpoints) + 1) \X {"object", "initialized"})
         \cup (Subscriptions(d) \X {"message"}) |->
     IF f[2] = "object" THEN ObjectField(d, f[1])
     ELSE Append(ObjectField(d, f[1]), f[2])]

\* The rmw enumerators: the policy in capitals behind the prefix of its kind.
qos_initializer(e) ==
  [reliability |-> <<"RMW_QOS_POLICY_RELIABILITY", e.qos.reliability>>,
   durability |-> <<"RMW_QOS_POLICY_DURABILITY", e.qos.durability>>,
   history |-> <<"RMW_QOS_POLICY_HISTORY", e.qos.history>>,
   depth |-> e.qos.depth]

\* The calls of ros2z_deployment_init: the endpoints in order, each with its
\* QoS, and the number of handles of the executor, which exists only if there
\* is a subscription.
generate_source(d) ==
  [endpoints |-> [i \in DOMAIN d.endpoints |->
                    [field |-> EndpointField(d.endpoints[i]),
                     qos |-> qos_initializer(d.endpoints[i])]],
   handles |-> Cardinality(Subscriptions(d)),
   added |-> [i \in Subscriptions(d) |-> EndpointField(d.endpoints[i])]]

\* The settings that generated_ros2_zephyr.conf makes.
generate_config(d, backend) ==
  [backend |-> backend, domain_id |-> d.domain_id,
   tcp |-> backend = "rmw_zenoh_pico"]

\* The names of the generated files in the order they are written.
Output == <<"generated_ros_init.h", "generated_ros_init.c",
            "generated_ros2_zephyr.conf", "generated_features.cmake",
            "deployment-plan.json", "deployment-report.md">>

\* Two endpoints whose names differ by a suffix that generate_header adds.
SuffixClash(d) ==
  \E i, j \in DOMAIN d.endpoints :
    LET e == d.endpoints[i]
        f == d.endpoints[j] IN
    /\ e.kind = f.kind
    /\ \/ e.id = f.id \o <<"initialized">>
       \/ e.kind = "subscription" /\ e.id = f.id \o <<"message">>

=============================================================================
