-------------------------- MODULE BuildToolsProofs ---------------------------
(***************************************************************************)
(* What the tools of the build compute, for every description, .config and *)
(* image: the codes that compile_deployment.py, verify_resources.py and    *)
(* admit_esp32c6.py can end with, what an accepted description is and what *)
(* is generated from it, and what an admitted image has.                   *)
(***************************************************************************)
EXTENDS DeploymentCompiler, C6Admission, FiniteFacts, SequenceTheorems

-----------------------------------------------------------------------------
(***************************************************************************)
(* What compile_deployment.py raises.                                      *)
(***************************************************************************)

\* FirstError raises the code of a bad check, or there is none.
LEMMA FirstErrorIs ==
  ASSUME NEW n \in Nat, NEW checks, DOMAIN checks = 1..n
  PROVE  \/ /\ FirstError(checks) = "OK"
            /\ \A i \in 1..n : ~checks[i].bad
         \/ \E i \in 1..n : checks[i].bad /\ FirstError(checks) = checks[i].code
<1> DEFINE bad == {i \in 1..n : checks[i].bad}
<1>1. CASE bad = {}
  BY <1>1 DEF FirstError
<1>2. CASE bad # {}
  <2>1. Min(bad) \in bad
    <3>1. bad \subseteq Nat
      OBVIOUS
    <3> HIDE DEF bad
    <3> QED BY ZenonT(60), <1>2, <3>1, MinIsLeast
  <2>2. FirstError(checks) = checks[Min(bad)].code
    BY Zenon, <1>2 DEF FirstError
  <2> QED BY ZenonT(60), <2>1, <2>2
<1> QED BY <1>1, <1>2

\* The codes of compile_deployment.py.
CompileCodes ==
  {"E_SCHEMA", "E_SCHEMA_VERSION", "E_MESSAGE_PROFILE_UNSUPPORTED",
   "E_BACKEND_UNKNOWN", "E_DUPLICATE_ENDPOINT", "E_LIFETIME_UNSUPPORTED",
   "E_RESOURCE_ENDPOINT_CAPACITY", "E_BACKEND_NOT_SELECTED",
   "E_CAPABILITY_SCHEMA", "E_QOS_UNSUPPORTED", "E_GRAPH_UNSUPPORTED",
   "KeyError"}

LEMMA RootCodes ==
  ASSUME NEW d
  PROVE  /\ DOMAIN RootChecks(d) = 1..8
         /\ \A i \in 1..8 : RootChecks(d)[i].code \in CompileCodes
BY DEF RootChecks, Check, CompileCodes

LEMMA EndpointCodes ==
  ASSUME NEW endpoints, NEW i
  PROVE  /\ DOMAIN EndpointChecks(endpoints, i) = 1..6
         /\ \A j \in 1..6 : EndpointChecks(endpoints, i)[j].code \in CompileCodes
BY DEF EndpointChecks, Check, CompileCodes

LEMMA ResourceCodes ==
  ASSUME NEW d
  PROVE  /\ DOMAIN ResourceChecks(d) = 1..3
         /\ \A i \in 1..3 : ResourceChecks(d)[i].code \in CompileCodes
BY DEF ResourceChecks, Check, CompileCodes

LEMMA CapabilityCodes ==
  ASSUME NEW d, NEW cap, NEW backend
  PROVE  /\ DOMAIN CapabilityChecks(d, cap, backend) = 1..8
         /\ \A i \in 1..8 :
              CapabilityChecks(d, cap, backend)[i].code \in CompileCodes
BY DEF CapabilityChecks, Check, CompileCodes

\* An endpoint list raises the error of one of its endpoints, or none has one.
LEMMA EndpointsErrorIs ==
  ASSUME NEW S, NEW endpoints \in Seq(S)
  PROVE  \/ /\ EndpointsError(endpoints) = "OK"
            /\ \A i \in DOMAIN endpoints : \A j \in 1..6 :
                 ~EndpointChecks(endpoints, i)[j].bad
         \/ EndpointsError(endpoints) \in CompileCodes
<1> DEFINE Raised(i) == FirstError(EndpointChecks(endpoints, i))
           bad == {i \in DOMAIN endpoints : Raised(i) # "OK"}
<1>1. \A i : \/ Raised(i) = "OK" /\ \A j \in 1..6 :
                  ~EndpointChecks(endpoints, i)[j].bad
             \/ Raised(i) \in CompileCodes
  <2> TAKE i
  <2>1. DOMAIN EndpointChecks(endpoints, i) = 1..6
    BY Zenon, EndpointCodes
  <2>2. \A j \in 1..6 : EndpointChecks(endpoints, i)[j].code \in CompileCodes
    BY Zenon, EndpointCodes
  <2>3. 6 \in Nat
    OBVIOUS
  <2> QED BY Zenon, <2>1, <2>2, <2>3, FirstErrorIs
<1>2. CASE bad = {}
  <2>1. EndpointsError(endpoints) = "OK"
    BY Zenon, <1>2 DEF EndpointsError
  <2>2. \A i \in DOMAIN endpoints : Raised(i) = "OK"
    BY Zenon, <1>2
  <2>3. "OK" \notin CompileCodes
    BY DEF CompileCodes
  <2> HIDE DEF Raised
  <2> QED BY Zenon, <2>1, <2>2, <2>3, <1>1
<1>3. CASE bad # {}
  <2>1. bad \subseteq Nat
    OBVIOUS
  <2>2. Min(bad) \in bad
    <3> HIDE DEF bad
    <3> QED BY ZenonT(60), <2>1, <1>3, MinIsLeast
  <2>3. EndpointsError(endpoints) = Raised(Min(bad)) /\ Raised(Min(bad)) # "OK"
    BY Zenon, <1>3, <2>2 DEF EndpointsError
  <2> HIDE DEF bad, Raised
  <2> QED BY Zenon, <2>3, <1>1
<1> HIDE DEF bad
<1> QED BY <1>2, <1>3

\* What the compiler accepts has passed every check.
Accepted(d, cap, backend) ==
  /\ \A i \in 1..8 : ~RootChecks(d)[i].bad
  /\ \A i \in DOMAIN d.endpoints : \A j \in 1..6 :
       ~EndpointChecks(d.endpoints, i)[j].bad
  /\ \A i \in 1..3 : ~ResourceChecks(d)[i].bad
  /\ \A i \in 1..8 : ~CapabilityChecks(d, cap, backend)[i].bad

LEMMA VerdictIs ==
  ASSUME NEW d, NEW S, d.endpoints \in Seq(S), NEW cap, NEW backend
  PROVE  \/ /\ compile_verdict(d, cap, backend) = "OK"
            /\ Accepted(d, cap, backend)
         \/ compile_verdict(d, cap, backend) \in CompileCodes
<1>0. 8 \in Nat /\ 3 \in Nat /\ "OK" \notin CompileCodes
      /\ "KeyError" \in CompileCodes
  BY DEF CompileCodes
<1>1. \/ FirstError(RootChecks(d)) = "OK" /\ \A i \in 1..8 : ~RootChecks(d)[i].bad
      \/ FirstError(RootChecks(d)) \in CompileCodes
  BY ZenonT(60), <1>0, RootCodes, FirstErrorIs
<1>2. \/ /\ FirstError(ResourceChecks(d)) = "OK"
         /\ \A i \in 1..3 : ~ResourceChecks(d)[i].bad
      \/ FirstError(ResourceChecks(d)) \in CompileCodes
  BY ZenonT(60), <1>0, ResourceCodes, FirstErrorIs
<1>3. \/ /\ FirstError(CapabilityChecks(d, cap, backend)) = "OK"
         /\ \A i \in 1..8 : ~CapabilityChecks(d, cap, backend)[i].bad
      \/ FirstError(CapabilityChecks(d, cap, backend)) \in CompileCodes
  <2>1. DOMAIN CapabilityChecks(d, cap, backend) = 1..8
    BY Zenon, CapabilityCodes
  <2>2. \A i \in 1..8 : CapabilityChecks(d, cap, backend)[i].code \in CompileCodes
    BY Zenon, CapabilityCodes
  <2> QED BY Zenon, <1>0, <2>1, <2>2, FirstErrorIs
<1>4. \/ /\ EndpointsError(d.endpoints) = "OK"
         /\ \A i \in DOMAIN d.endpoints : \A j \in 1..6 :
              ~EndpointChecks(d.endpoints, i)[j].bad
      \/ EndpointsError(d.endpoints) \in CompileCodes
  BY Zenon, EndpointsErrorIs
<1>5. \/ /\ validate_deployment(d) = "OK"
         /\ FirstError(RootChecks(d)) = "OK"
         /\ EndpointsError(d.endpoints) = "OK"
         /\ FirstError(ResourceChecks(d)) = "OK"
      \/ validate_deployment(d) \in CompileCodes
  BY <1>0, <1>1, <1>2, <1>4 DEF validate_deployment
<1>6. \/ /\ compile_verdict(d, cap, backend) = "OK"
         /\ validate_deployment(d) = "OK"
         /\ FirstError(CapabilityChecks(d, cap, backend)) = "OK"
      \/ compile_verdict(d, cap, backend) \in CompileCodes
  BY <1>0, <1>3, <1>5 DEF compile_verdict, validate_capabilities
<1> QED BY Zenon, <1>0, <1>1, <1>2, <1>3, <1>4, <1>5, <1>6 DEF Accepted

-----------------------------------------------------------------------------
(***************************************************************************)
(* What the tools that run later report.                                   *)
(***************************************************************************)

RamCode == "E_RESOURCE_RAM_BUDGET"

LEMMA VerifyErrors ==
  ASSUME NEW p, NEW img
  PROVE  verify_error(p, img) \notin {"admitted", RamCode}
BY DEF verify_error, RamCode

LEMMA InventoryErrors ==
  ASSUME NEW img
  PROVE  inventory_error(img) \notin {"admitted", RamCode}
BY DEF inventory_error, RamCode

\* The codes of the checks, and a check with its outcome.
CheckCodes ==
  {"E_RESOURCE_ENDPOINT_CAPACITY", "E_RESOURCE_GRAPH_CAPACITY",
   "E_RESOURCE_WORKERS", RamCode, "E_RESOURCE_FLASH_BUDGET",
   "E_RESOURCE_TARGET_CAPACITY"}

Row == [code : CheckCodes, passed : BOOLEAN]

LEMMA CheckIs ==
  ASSUME NEW code, NEW required, NEW available, NEW row,
         row = make_check(code, required, available), code \in CheckCodes
  PROVE  /\ row \in Row /\ row.code = code
         /\ row.passed = Passed(required, available)
<1>1. Passed(required, available) \in BOOLEAN
  BY DEF Passed
<1> QED BY <1>1 DEF make_check, Row

LEMMA RemoteCheckIs ==
  ASSUME NEW required, NEW available
  PROVE  /\ RemoteCheck(required, available) \in Row
         /\ RemoteCheck(required, available).code = "E_RESOURCE_GRAPH_CAPACITY"
<1>1. "E_RESOURCE_GRAPH_CAPACITY" \in CheckCodes
  BY DEF CheckCodes
<1>2. CASE required = 0
  BY <1>1, <1>2 DEF RemoteCheck, Row
<1>3. CASE required # 0
  <2>1. RemoteCheck(required, available)
          = make_check("E_RESOURCE_GRAPH_CAPACITY", required, available)
    BY Zenon, <1>3 DEF RemoteCheck
  <2> QED BY <1>1, <2>1, CheckIs
<1> QED BY <1>2, <1>3

LEMMA NineIn ==
  ASSUME NEW S, NEW a \in S, NEW b \in S, NEW c \in S, NEW d \in S, NEW e \in S,
         NEW f \in S, NEW g \in S, NEW h \in S, NEW i \in S
  PROVE  <<a, b, c, d, e, f, g, h, i>> \in Seq(S)
OBVIOUS

LEMMA NineEach ==
  ASSUME NEW t, NEW a, NEW b, NEW c, NEW d, NEW e, NEW f, NEW g, NEW h, NEW i,
         t = <<a, b, c, d, e, f, g, h, i>>
  PROVE  /\ t = <<t[1], t[2], t[3], t[4], t[5], t[6], t[7], t[8], t[9]>>
         /\ DOMAIN t = 1..9
OBVIOUS

LEMMA PlanChecksAre ==
  ASSUME NEW dp, NEW config, NEW budget
  PROVE  /\ PlanChecks(dp, config, budget) \in Seq(Row)
         /\ DOMAIN PlanChecks(dp, config, budget) = 1..9
         /\ \A i \in 1..9 : PlanChecks(dp, config, budget)[i].code # "admitted"
         /\ \A i \in 1..8 : PlanChecks(dp, config, budget)[i].code # RamCode
         /\ PlanChecks(dp, config, budget)[9].passed
              = Passed(known_ram(dp, config), budget.ram_bytes)
         /\ PlanChecks(dp, config, budget)[7].passed
              = Passed(dp.capability.workers, configured_workers(dp, config))
<1> DEFINE c == PlanChecks(dp, config, budget)
           Graph == "E_RESOURCE_GRAPH_CAPACITY"
           Workers == "E_RESOURCE_WORKERS"
           resources == dp.deployment.resources
           workers == configured_workers(dp, config)
           option(key) == integer_config(config, key)
<1>1. /\ c = <<c[1], c[2], c[3], c[4], c[5], c[6], c[7], c[8], c[9]>>
      /\ DOMAIN c = 1..9
  BY Zenon, NineEach DEF PlanChecks
<1>2. /\ c[1] = make_check("E_RESOURCE_ENDPOINT_CAPACITY",
                  Len(dp.deployment.endpoints), resources.local_endpoints)
      /\ c[2] = make_check(Graph, 1, option("GRAPH_MAX_LOCAL_NODES"))
      /\ c[3] = make_check(Graph, Len(dp.deployment.endpoints),
                  option("GRAPH_MAX_ENDPOINTS_PER_NODE"))
  BY Zenon DEF PlanChecks
<1>3. /\ c[4] = RemoteCheck(resources.remote.participants,
                  option("GRAPH_CACHE_MAX_PARTICIPANTS"))
      /\ c[5] = RemoteCheck(resources.remote.nodes,
                  option("GRAPH_CACHE_MAX_NODES"))
      /\ c[6] = RemoteCheck(resources.remote.endpoints,
                  option("GRAPH_CACHE_MAX_ENDPOINTS"))
  BY DEF PlanChecks
<1>4. /\ c[7] = make_check(Workers, dp.capability.workers, workers)
      /\ c[8] = make_check(Workers,
                  IF workers = None THEN resources.workers + 1 ELSE workers,
                  resources.workers)
      /\ c[9] = make_check(RamCode, known_ram(dp, config), budget.ram_bytes)
  BY DEF PlanChecks, RamCode
<1>5. /\ "E_RESOURCE_ENDPOINT_CAPACITY" \in CheckCodes /\ Graph \in CheckCodes
      /\ Workers \in CheckCodes /\ RamCode \in CheckCodes
  BY DEF CheckCodes
<1> HIDE DEF c
<1>6. /\ c[1] \in Row /\ c[1].code = "E_RESOURCE_ENDPOINT_CAPACITY"
      /\ c[2] \in Row /\ c[2].code = Graph
      /\ c[3] \in Row /\ c[3].code = Graph
  <2>1. c[1] \in Row /\ c[1].code = "E_RESOURCE_ENDPOINT_CAPACITY"
    BY <1>2, <1>5, CheckIs
  <2>2. c[2] \in Row /\ c[2].code = Graph
    BY <1>2, <1>5, CheckIs
  <2>3. c[3] \in Row /\ c[3].code = Graph
    BY <1>2, <1>5, CheckIs
  <2> QED BY <2>1, <2>2, <2>3
<1>7. /\ c[4] \in Row /\ c[4].code = Graph
      /\ c[5] \in Row /\ c[5].code = Graph
      /\ c[6] \in Row /\ c[6].code = Graph
  BY ZenonT(60), <1>3, RemoteCheckIs
<1>8. /\ c[7] \in Row /\ c[7].code = Workers
      /\ c[7].passed = Passed(dp.capability.workers, workers)
      /\ c[8] \in Row /\ c[8].code = Workers
      /\ c[9] \in Row /\ c[9].code = RamCode
      /\ c[9].passed = Passed(known_ram(dp, config), budget.ram_bytes)
  <2>1. /\ c[7] \in Row /\ c[7].code = Workers
        /\ c[7].passed = Passed(dp.capability.workers, workers)
    BY <1>4, <1>5, CheckIs
  <2>2. c[8] \in Row /\ c[8].code = Workers
    BY <1>4, <1>5, CheckIs
  <2>3. /\ c[9] \in Row /\ c[9].code = RamCode
        /\ c[9].passed = Passed(known_ram(dp, config), budget.ram_bytes)
    BY <1>4, <1>5, CheckIs
  <2> QED BY <2>1, <2>2, <2>3
<1>9. c \in Seq(Row)
  <2>1. <<c[1], c[2], c[3], c[4], c[5], c[6], c[7], c[8], c[9]>> \in Seq(Row)
    BY <1>6, <1>7, <1>8, NineIn
  <2> QED BY Zenon, <1>1, <2>1
<1>10. /\ \A i \in 1..9 : c[i].code # "admitted"
       /\ \A i \in 1..8 : c[i].code # RamCode
  BY <1>6, <1>7, <1>8 DEF RamCode
<1> QED BY ZenonT(60), <1>1, <1>8, <1>9, <1>10 DEF c

\* A list of checks with a failed one reports the first one that failed.
LEMMA FirstFailedIs ==
  ASSUME NEW n \in Nat, NEW checks, DOMAIN checks = 1..n, Failed(checks) # {}
  PROVE  \E i \in 1..n : /\ ~checks[i].passed /\ first_failed(checks) = checks[i].code
                         /\ \A j \in 1..n : ~checks[j].passed => i <= j
<1>1. Failed(checks) \subseteq Nat
  BY DEF Failed
<1>2. Min(Failed(checks)) \in Failed(checks)
      /\ \A j \in Failed(checks) : Min(Failed(checks)) <= j
  BY <1>1, MinIsLeast
<1>3. first_failed(checks) = checks[Min(Failed(checks))].code
  BY Zenon DEF first_failed
<1> QED BY ZenonT(60), <1>2, <1>3 DEF Failed

\* The elements of a concatenation.
Joins(u, s, t) ==
  /\ Len(u) = Len(s) + Len(t) /\ Len(s) \in Nat /\ Len(t) \in Nat
  /\ \A i \in 1..Len(s) : u[i] = s[i]
  /\ \A i \in 1..Len(t) : u[Len(s) + i] = t[i]

LEMMA Joined ==
  ASSUME NEW S, NEW s \in Seq(S), NEW t \in Seq(S)
  PROVE  s \o t \in Seq(S) /\ Joins(s \o t, s, t)
<1>1. Len(s) \in Nat /\ Len(t) \in Nat
  BY LenProperties
<1>2. /\ s \o t \in Seq(S) /\ Len(s \o t) = Len(s) + Len(t)
      /\ \A i \in 1..Len(s) + Len(t) :
           (s \o t)[i] = IF i <= Len(s) THEN s[i] ELSE t[i - Len(s)]
  BY ConcatProperties
<1>3. ASSUME NEW i \in 1..Len(s) PROVE (s \o t)[i] = s[i]
  BY <1>1, <1>2
<1>4. ASSUME NEW i \in 1..Len(t) PROVE (s \o t)[Len(s) + i] = t[i]
  <2>1. Len(s) + i \in 1..Len(s) + Len(t) /\ ~(Len(s) + i <= Len(s))
        /\ (Len(s) + i) - Len(s) = i
    BY <1>1
  <2> QED BY <2>1, <1>2
<1> QED BY <1>1, <1>2, <1>3, <1>4 DEF Joins

\* The report has the two checks on RAM, if the image has a region of RAM.
LEMMA ReportChecksAre ==
  ASSUME NEW p, NEW img, p.checks \in Seq(Row)
  PROVE  LET checks == ReportChecks(p, img)
             region == RamRegion(img.regions) IN
         /\ checks \in Seq(Row)
         /\ \E i \in DOMAIN checks :
              checks[i].passed = Passed(LinkedRam(p, img), p.budget.ram_bytes)
         /\ region # None => \E i \in DOMAIN checks :
              checks[i].passed = Passed(p.budget.ram_bytes, region.length)
<1> DEFINE region == RamRegion(img.regions)
           flash == make_check("E_RESOURCE_FLASH_BUDGET", flash_bytes(img),
                               p.budget.flash_bytes)
           ram == make_check("E_RESOURCE_RAM_BUDGET", LinkedRam(p, img),
                             p.budget.ram_bytes)
           size == make_check("E_RESOURCE_TARGET_CAPACITY",
                              p.budget.flash_bytes, img.regions["FLASH"].length)
           room == make_check("E_RESOURCE_TARGET_CAPACITY",
                              p.budget.ram_bytes, region.length)
           a == p.checks
           b == <<flash, ram>>
           c == IF "FLASH" \in DOMAIN img.regions THEN <<size>> ELSE <<>>
           d == IF region # None THEN <<room>> ELSE <<>>
<1>1. /\ flash \in Row
      /\ ram \in Row /\ ram.passed = Passed(LinkedRam(p, img), p.budget.ram_bytes)
      /\ size \in Row
      /\ room \in Row /\ room.passed = Passed(p.budget.ram_bytes, region.length)
  <2>1. {"E_RESOURCE_FLASH_BUDGET", "E_RESOURCE_RAM_BUDGET",
         "E_RESOURCE_TARGET_CAPACITY"} \subseteq CheckCodes
    BY DEF CheckCodes, RamCode
  <2> HIDE DEF region
  <2> QED BY <2>1, CheckIs
<1>2. ReportChecks(p, img) = a \o b \o c \o d
  BY DEF ReportChecks
<1> HIDE DEF flash, ram, size, room, region
<1>3. a \in Seq(Row) /\ b \in Seq(Row) /\ c \in Seq(Row) /\ d \in Seq(Row)
  BY <1>1
<1>4. Len(b) = 2 /\ b[2] = ram /\ (region # None => Len(d) = 1 /\ d[1] = room)
  OBVIOUS
<1> HIDE DEF a, b, c, d
<1> DEFINE ab == a \o b
           abc == ab \o c
           abcd == abc \o d
<1>5. /\ ab \in Seq(Row) /\ Len(ab) = Len(a) + 2 /\ Len(a) \in Nat
      /\ ab[Len(a) + 2] = ram
  <2>1. a \o b \in Seq(Row) /\ Joins(a \o b, a, b)
    BY Zenon, <1>3, Joined
  <2> QED BY <2>1, <1>4 DEF Joins
<1> HIDE DEF ab
<1>6. /\ abc \in Seq(Row) /\ Len(abc) = Len(ab) + Len(c)
      /\ abc[Len(a) + 2] = ram /\ Len(c) \in Nat
  <2>1. ab \o c \in Seq(Row) /\ Joins(ab \o c, ab, c)
    BY Zenon, <1>3, <1>5, Joined
  <2>2. Len(a) + 2 \in 1..Len(ab)
    BY <1>5
  <2> QED BY <2>1, <2>2, <1>5 DEF Joins
<1> HIDE DEF abc
<1>7. /\ abcd \in Seq(Row) /\ Len(abcd) = Len(abc) + Len(d)
      /\ abcd[Len(a) + 2] = ram
      /\ region # None => abcd[Len(abc) + 1] = room
  <2>1. abc \o d \in Seq(Row) /\ Joins(abc \o d, abc, d)
    BY Zenon, <1>3, <1>6, Joined
  <2>2. Len(a) + 2 \in 1..Len(abc)
    BY <1>5, <1>6
  <2> QED BY <2>1, <2>2, <1>4, <1>6 DEF Joins
<1> HIDE DEF abcd
<1>8. /\ Len(a) + 2 \in DOMAIN abcd
      /\ region # None => Len(abc) + 1 \in DOMAIN abcd
  BY <1>3, <1>4, <1>5, <1>6, <1>7
<1>9. ReportChecks(p, img) = abcd
  BY Zenon, <1>2 DEF abcd, abc, ab
<1> QED BY Zenon, <1>1, <1>7, <1>8, <1>9 DEF region

\* What a list of failed checks reports is the code of a check.
LEMMA ReportedCode ==
  ASSUME NEW checks \in Seq(Row), Failed(checks) # {}
  PROVE  first_failed(checks) \in CheckCodes
<1>1. Len(checks) \in Nat /\ DOMAIN checks = 1..Len(checks)
  OBVIOUS
<1>2. PICK i \in 1..Len(checks) : first_failed(checks) = checks[i].code
  BY <1>1, FirstFailedIs
<1>3. checks[i] \in Row
  BY <1>1
<1> QED BY <1>2, <1>3 DEF Row

-----------------------------------------------------------------------------
(***************************************************************************)
(* What an accepted description is, and what is generated from it.         *)
(***************************************************************************)

LEMMA BadIs == ASSUME NEW bad, NEW code PROVE Check(bad, code).bad = bad
BY DEF Check

LEMMA AcceptedMeans ==
  ASSUME NEW d, NEW cap, NEW backend, Accepted(d, cap, backend)
  PROVE  /\ \A i \in DOMAIN d.endpoints :
              /\ d.endpoints[i].kind \in {"publisher", "subscription"}
              /\ ~DuplicateId(d.endpoints, i)
              /\ QosSupported(d.endpoints[i].qos, cap.qos)
         /\ GraphSupported(d.graph, cap.graph)
         /\ d.domain_id \in 0..232
<1>1. ASSUME NEW i \in DOMAIN d.endpoints
      PROVE  ~DuplicateId(d.endpoints, i)
  <2>1. ~EndpointChecks(d.endpoints, i)[2].bad
    BY DEF Accepted
  <2>2. EndpointChecks(d.endpoints, i)[2]
          = Check(DuplicateId(d.endpoints, i), "E_DUPLICATE_ENDPOINT")
    BY DEF EndpointChecks
  <2> QED BY Zenon, <2>1, <2>2, BadIs
<1>2. ASSUME NEW i \in DOMAIN d.endpoints
      PROVE  d.endpoints[i].kind \in {"publisher", "subscription"}
  <2> DEFINE e == d.endpoints[i]
             bad == \/ e.kind \notin {"publisher", "subscription"}
                    \/ "topic" \in e.malformed \/ "type" \in e.malformed
  <2>1. ~EndpointChecks(d.endpoints, i)[3].bad
    BY DEF Accepted
  <2>2. EndpointChecks(d.endpoints, i)[3] = Check(bad, "E_SCHEMA")
    BY DEF EndpointChecks
  <2>3. ~bad
    BY Zenon, <2>1, <2>2, BadIs
  <2> QED BY <2>3
<1>3. ASSUME NEW i \in DOMAIN d.endpoints
      PROVE  QosSupported(d.endpoints[i].qos, cap.qos)
  <2> DEFINE bad == \E j \in DOMAIN d.endpoints :
                      ~QosSupported(d.endpoints[j].qos, cap.qos)
  <2>1. ~CapabilityChecks(d, cap, backend)[6].bad
    BY DEF Accepted
  <2>2. CapabilityChecks(d, cap, backend)[6] = Check(bad, "E_QOS_UNSUPPORTED")
    BY DEF CapabilityChecks
  <2>3. ~bad
    BY Zenon, <2>1, <2>2, BadIs
  <2> QED BY Zenon, <2>3
<1>4. GraphSupported(d.graph, cap.graph)
  <2>1. ~CapabilityChecks(d, cap, backend)[8].bad
    BY DEF Accepted
  <2>2. CapabilityChecks(d, cap, backend)[8]
          = Check(~GraphSupported(d.graph, cap.graph), "E_GRAPH_UNSUPPORTED")
    BY DEF CapabilityChecks
  <2> QED BY Zenon, <2>1, <2>2, BadIs
<1>5. d.domain_id \in 0..232
  <2> DEFINE bad == "name" \in d.malformed \/ d.domain_id \notin 0..232
  <2>1. ~RootChecks(d)[3].bad
    BY DEF Accepted
  <2>2. RootChecks(d)[3] = Check(bad, "E_SCHEMA")
    BY DEF RootChecks
  <2>3. ~bad
    BY Zenon, <2>1, <2>2, BadIs
  <2> QED BY <2>3
<1> QED BY <1>1, <1>2, <1>3, <1>4, <1>5

-----------------------------------------------------------------------------
(***************************************************************************)
(* Names made of words.                                                    *)
(***************************************************************************)

\* A name determines its first word and the rest.
LEMMA FirstWord ==
  ASSUME NEW S, NEW k \in S, NEW l \in S, NEW s \in Seq(S), NEW t \in Seq(S),
         <<k>> \o s = <<l>> \o t
  PROVE  k = l /\ s = t
<1>0. /\ <<k>> \in Seq(S) /\ Len(<<k>>) = 1 /\ <<k>>[1] = k
      /\ <<l>> \in Seq(S) /\ Len(<<l>>) = 1 /\ <<l>>[1] = l
  OBVIOUS
<1>1. Joins(<<k>> \o s, <<k>>, s) /\ Joins(<<l>> \o t, <<l>>, t)
  BY Zenon, <1>0, Joined
<1>2. Len(s) \in Nat /\ Len(t) \in Nat /\ Len(s) = Len(t)
  BY <1>1 DEF Joins
<1>3. k = l
  <2>1. (<<k>> \o s)[1] = <<k>>[1] /\ (<<l>> \o t)[1] = <<l>>[1]
    BY <1>0, <1>1 DEF Joins
  <2> QED BY Zenon, <2>1, <1>0
<1>4. \A i \in 1..Len(s) : s[i] = t[i]
  BY <1>1, <1>2 DEF Joins
<1> QED BY <1>2, <1>3, <1>4, SeqEqual

\* A word behind a name is behind its rest.
LEMMA LastWord ==
  ASSUME NEW S, NEW k \in S, NEW s \in Seq(S), NEW w \in S
  PROVE  /\ Append(<<k>> \o s, w) = <<k>> \o Append(s, w)
         /\ Append(s, w) \in Seq(S)
OBVIOUS

LEMMA OneWord ==
  ASSUME NEW S, NEW w \in S
  PROVE  <<>> \in Seq(S) /\ <<w>> \in Seq(S) /\ <<w>> = <<w>> \o <<>>
OBVIOUS

LEMMA SameEnd ==
  ASSUME NEW S, NEW s \in Seq(S), NEW t \in Seq(S), NEW v \in S, NEW w \in S,
         Append(s, v) = Append(t, w)
  PROVE  s = t /\ v = w
<1>1. /\ Len(s) \in Nat /\ Len(t) \in Nat
      /\ Len(Append(s, v)) = Len(s) + 1 /\ Len(Append(t, w)) = Len(t) + 1
      /\ \A i \in 1..Len(s) : Append(s, v)[i] = s[i]
      /\ \A i \in 1..Len(t) : Append(t, w)[i] = t[i]
      /\ Append(s, v)[Len(s) + 1] = v /\ Append(t, w)[Len(t) + 1] = w
  BY AppendProperties
<1>2. Len(s) = Len(t)
  BY <1>1
<1>3. v = w /\ \A i \in 1..Len(s) : s[i] = t[i]
  BY <1>1, <1>2
<1> QED BY <1>2, <1>3, SeqEqual

\* The objects of the context: their first word, and the words behind it.
Word == STRING \cup {"node", "executor", "publisher", "subscription",
                     "initialized", "message"}

HeadOf(d, k) ==
  IF k = 0 THEN "node"
  ELSE IF k \in DOMAIN d.endpoints THEN d.endpoints[k].kind ELSE "executor"

RestOf(d, k) ==
  IF k \in DOMAIN d.endpoints THEN d.endpoints[k].id ELSE <<>>

\* A list of accepted endpoints.
Plain(d) ==
  /\ DOMAIN d.endpoints = 1..Len(d.endpoints) /\ Len(d.endpoints) \in Nat
  /\ \A i \in DOMAIN d.endpoints :
       /\ d.endpoints[i].id \in Seq(Word)
       /\ d.endpoints[i].kind \in {"publisher", "subscription"}
       /\ ~DuplicateId(d.endpoints, i)

Object(d) == 0..Len(d.endpoints) + 1

LEMMA ObjectWords ==
  ASSUME NEW d, Plain(d), NEW k \in Object(d)
  PROVE  /\ HeadOf(d, k) \in Word /\ RestOf(d, k) \in Seq(Word)
         /\ ObjectField(d, k) = <<HeadOf(d, k)>> \o RestOf(d, k)
         /\ ObjectField(d, k) \in Seq(Word)
         /\ HeadOf(d, k) = "node" => k = 0
         /\ HeadOf(d, k) = "executor" => k = Len(d.endpoints) + 1
<1>1. CASE k = 0
  <2>1. k \notin DOMAIN d.endpoints
    BY <1>1 DEF Plain
  <2>2. HeadOf(d, k) = "node" /\ RestOf(d, k) = <<>>
        /\ ObjectField(d, k) = <<"node">>
    BY <1>1, <2>1 DEF HeadOf, RestOf, ObjectField
  <2>3. "node" \in Word
    BY DEF Word
  <2>4. <<>> \in Seq(Word) /\ <<"node">> \in Seq(Word)
        /\ <<"node">> = <<"node">> \o <<>>
    BY <2>3, OneWord
  <2> QED BY ZenonT(60), <1>1, <2>2, <2>3, <2>4
<1>2. CASE k \in DOMAIN d.endpoints
  <2>0. k # 0
    BY <1>2 DEF Plain
  <2>1. HeadOf(d, k) = d.endpoints[k].kind /\ RestOf(d, k) = d.endpoints[k].id
    BY <1>2, <2>0 DEF HeadOf, RestOf
  <2>2. ObjectField(d, k) = <<d.endpoints[k].kind>> \o d.endpoints[k].id
    BY Zenon, <1>2, <2>0 DEF ObjectField, EndpointField
  <2>3. d.endpoints[k].kind \in {"publisher", "subscription"}
        /\ d.endpoints[k].id \in Seq(Word)
    BY <1>2 DEF Plain
  <2>4. d.endpoints[k].kind \in Word
    BY <2>3 DEF Word
  <2>5. <<d.endpoints[k].kind>> \o d.endpoints[k].id \in Seq(Word)
    BY <2>3, <2>4
  <2> QED BY Zenon, <2>1, <2>2, <2>3, <2>4, <2>5
<1>3. CASE k # 0 /\ k \notin DOMAIN d.endpoints
  <2>1. k = Len(d.endpoints) + 1
    BY <1>3 DEF Plain, Object
  <2>2. HeadOf(d, k) = "executor" /\ RestOf(d, k) = <<>>
        /\ ObjectField(d, k) = <<"executor">>
    BY <1>3 DEF HeadOf, RestOf, ObjectField
  <2>3. "executor" \in Word
    BY DEF Word
  <2>4. <<>> \in Seq(Word) /\ <<"executor">> \in Seq(Word)
        /\ <<"executor">> = <<"executor">> \o <<>>
    BY <2>3, OneWord
  <2> QED BY ZenonT(60), <1>3, <2>1, <2>2, <2>3, <2>4
<1> QED BY <1>1, <1>2, <1>3

\* Objects of one name are one object.
LEMMA OneObject ==
  ASSUME NEW d, Plain(d), NEW k \in Object(d), NEW l \in Object(d),
         ObjectField(d, k) = ObjectField(d, l)
  PROVE  k = l
<1>1. HeadOf(d, k) = HeadOf(d, l) /\ RestOf(d, k) = RestOf(d, l)
  <2>1. /\ HeadOf(d, k) \in Word /\ RestOf(d, k) \in Seq(Word)
        /\ ObjectField(d, k) = <<HeadOf(d, k)>> \o RestOf(d, k)
    BY Zenon, ObjectWords
  <2>2. /\ HeadOf(d, l) \in Word /\ RestOf(d, l) \in Seq(Word)
        /\ ObjectField(d, l) = <<HeadOf(d, l)>> \o RestOf(d, l)
    BY Zenon, ObjectWords
  <2>3. <<HeadOf(d, k)>> \o RestOf(d, k) = <<HeadOf(d, l)>> \o RestOf(d, l)
    BY Zenon, <2>1, <2>2
  <2>4. /\ HeadOf(d, k) \in Word /\ RestOf(d, k) \in Seq(Word)
        /\ HeadOf(d, l) \in Word /\ RestOf(d, l) \in Seq(Word)
    BY <2>1, <2>2
  <2> QED BY <2>3, <2>4, FirstWord
<1>2. CASE k \in DOMAIN d.endpoints /\ l \in DOMAIN d.endpoints
  <2>1. d.endpoints[k].id = d.endpoints[l].id
    BY <1>1, <1>2 DEF RestOf
  <2>2. ~(k < l) /\ ~(l < k)
    BY <2>1, <1>2 DEF Plain, DuplicateId
  <2> QED BY <2>2, <1>2 DEF Plain
<1>3. CASE k = 0 \/ l = 0
  <2>1. HeadOf(d, k) = "node" /\ HeadOf(d, l) = "node"
    BY <1>1, <1>3 DEF HeadOf
  <2> QED BY ZenonT(60), <2>1, ObjectWords
<1>4. CASE \/ k # 0 /\ k \notin DOMAIN d.endpoints
           \/ l # 0 /\ l \notin DOMAIN d.endpoints
  <2>1. HeadOf(d, k) = "executor" /\ HeadOf(d, l) = "executor"
    BY <1>1, <1>4 DEF HeadOf
  <2> QED BY ZenonT(60), <2>1, ObjectWords
<1> QED BY <1>2, <1>3, <1>4

\* An object named like the flag or the message of another one.
LEMMA Clashing ==
  ASSUME NEW d, Plain(d), NEW k \in Object(d), NEW l \in Object(d),
         NEW w \in {"initialized", "message"},
         ObjectField(d, k) = Append(ObjectField(d, l), w)
  PROVE  /\ k \in DOMAIN d.endpoints /\ l \in DOMAIN d.endpoints
         /\ d.endpoints[k].kind = d.endpoints[l].kind
         /\ d.endpoints[k].id = d.endpoints[l].id \o <<w>>
<1>0. w \in Word
  BY DEF Word
<1>1. /\ HeadOf(d, k) \in Word /\ RestOf(d, k) \in Seq(Word)
      /\ ObjectField(d, k) = <<HeadOf(d, k)>> \o RestOf(d, k)
  BY Zenon, ObjectWords
<1>2. /\ HeadOf(d, l) \in Word /\ RestOf(d, l) \in Seq(Word)
      /\ ObjectField(d, l) = <<HeadOf(d, l)>> \o RestOf(d, l)
  BY Zenon, ObjectWords
<1>3. /\ ObjectField(d, k) = <<HeadOf(d, l)>> \o Append(RestOf(d, l), w)
      /\ Append(RestOf(d, l), w) \in Seq(Word)
  <2>1. /\ Append(<<HeadOf(d, l)>> \o RestOf(d, l), w)
             = <<HeadOf(d, l)>> \o Append(RestOf(d, l), w)
        /\ Append(RestOf(d, l), w) \in Seq(Word)
    BY <1>0, <1>2, LastWord
  <2> QED BY Zenon, <2>1, <1>2
<1>4. HeadOf(d, k) = HeadOf(d, l) /\ RestOf(d, k) = Append(RestOf(d, l), w)
  BY Zenon, <1>1, <1>2, <1>3, FirstWord
<1>5. RestOf(d, k) # <<>>
  BY <1>0, <1>2, <1>4, AppendProperties
<1>6. k \in DOMAIN d.endpoints
  BY Zenon, <1>5 DEF RestOf
<1>7. HeadOf(d, k) = d.endpoints[k].kind
  BY <1>6 DEF Plain, HeadOf
<1>8. HeadOf(d, l) \notin {"node", "executor"}
  BY <1>4, <1>6, <1>7 DEF Plain
<1>9. l \in DOMAIN d.endpoints /\ HeadOf(d, l) = d.endpoints[l].kind
  BY <1>8 DEF HeadOf
<1>10. RestOf(d, l) = d.endpoints[l].id /\ RestOf(d, k) = d.endpoints[k].id
  BY <1>6, <1>9 DEF RestOf
<1> QED BY ZenonT(60), <1>0, <1>2, <1>4, <1>6, <1>7, <1>9, <1>10, AppendIsConcat

LEMMA DistinctFields ==
  ASSUME NEW d, Plain(d)
  PROVE  IsInjective(ContextFields(d)) <=> ~SuffixClash(d)
<1> DEFINE F == ContextFields(d)
           Flag == {"object", "initialized"}
           E == d.endpoints
<1>1. /\ \A k \in Object(d), w \in Flag : <<k, w>> \in DOMAIN F
      /\ \A k \in Subscriptions(d) : <<k, "message">> \in DOMAIN F
      /\ \A f \in DOMAIN F :
           /\ f = <<f[1], f[2]>> /\ f[1] \in Object(d)
           /\ f[2] \in {"object", "initialized", "message"}
           /\ f[2] = "message" => f[1] \in Subscriptions(d)
  BY DEF ContextFields, Object, Subscriptions, Plain
<1>2. \A f \in DOMAIN F :
        F[f] = IF f[2] = "object" THEN ObjectField(d, f[1])
               ELSE Append(ObjectField(d, f[1]), f[2])
  BY DEF ContextFields
<1> HIDE DEF F
<1>3. \A k \in Object(d) :
        /\ F[<<k, "object">>] = ObjectField(d, k)
        /\ F[<<k, "initialized">>] = Append(ObjectField(d, k), "initialized")
  BY <1>1, <1>2
<1>4. \A k \in Subscriptions(d) :
        F[<<k, "message">>] = Append(ObjectField(d, k), "message")
  BY <1>1, <1>2
<1>5. \A k \in DOMAIN E : k \in Object(d)
  BY DEF Plain, Object
<1>6. ASSUME SuffixClash(d) PROVE ~IsInjective(F)
  <2>1. PICK i \in DOMAIN E, j \in DOMAIN E, w \in {"initialized", "message"} :
          /\ E[i].kind = E[j].kind /\ E[i].id = E[j].id \o <<w>>
          /\ w = "message" => E[j].kind = "subscription"
    BY ZenonT(60), <1>6 DEF SuffixClash
  <2>2. ObjectField(d, i) = <<E[j].kind>> \o (E[j].id \o <<w>>)
        /\ ObjectField(d, j) = <<E[j].kind>> \o E[j].id
    <3>1. i # 0 /\ j # 0
      BY DEF Plain
    <3>2. /\ ObjectField(d, i) = <<E[i].kind>> \o E[i].id
          /\ ObjectField(d, j) = <<E[j].kind>> \o E[j].id
      BY Zenon, <3>1 DEF ObjectField, EndpointField
    <3> QED BY Zenon, <2>1, <3>2
  <2>3. E[j].kind \in Word /\ w \in Word /\ E[j].id \in Seq(Word)
    BY DEF Plain, Word
  <2>4. E[j].id \o <<w>> = Append(E[j].id, w)
    BY Zenon, <2>3, AppendIsConcat
  <2>5. <<E[j].kind>> \o Append(E[j].id, w) = Append(<<E[j].kind>> \o E[j].id, w)
    <3>1. ASSUME NEW k \in Word, NEW s \in Seq(Word), NEW v \in Word
          PROVE  <<k>> \o Append(s, v) = Append(<<k>> \o s, v)
      BY ONLY SMTT(30), <3>1, LastWord
    <3> QED BY Zenon, <2>3, <3>1
  <2>6. ObjectField(d, i) = Append(ObjectField(d, j), w)
    BY Zenon, <2>2, <2>4, <2>5
  <2>7. <<i, "object">> \in DOMAIN F /\ <<j, w>> \in DOMAIN F
        /\ F[<<i, "object">>] = F[<<j, w>>]
    <3>1. i \in Object(d) /\ j \in Object(d)
      BY <1>5
    <3>2. w = "message" => j \in Subscriptions(d)
      BY Zenon, <2>1 DEF Subscriptions
    <3>3. CASE w = "initialized"
      BY ZenonT(60), <1>1, <1>3, <2>6, <3>1, <3>3
    <3>4. CASE w = "message"
      <4>1. <<i, "object">> \in DOMAIN F /\ <<j, "message">> \in DOMAIN F
        BY ZenonT(60), <1>1, <3>1, <3>2, <3>4
      <4>2. /\ F[<<i, "object">>] = ObjectField(d, i)
            /\ F[<<j, "message">>] = Append(ObjectField(d, j), "message")
        BY Zenon, <1>3, <1>4, <3>1, <3>2, <3>4
      <4> QED BY Zenon, <4>1, <4>2, <2>6, <3>4
    <3> QED BY <3>3, <3>4
  <2>8. <<i, "object">> # <<j, w>>
    OBVIOUS
  <2> QED BY SMTT(30), <2>7, <2>8 DEF IsInjective
<1>7. ASSUME ~SuffixClash(d), NEW f \in DOMAIN F, NEW g \in DOMAIN F, F[f] = F[g]
      PROVE  f = g
  <2>1. CASE f[2] = "object" /\ g[2] = "object"
    <3>1. ObjectField(d, f[1]) = ObjectField(d, g[1])
      BY <2>1, <1>2, <1>7
    <3>2. f[1] = g[1]
      BY <1>1, <3>1, OneObject
    <3>3. f[2] = g[2]
      BY <2>1
    <3> QED BY Zenon, <1>1, <3>2, <3>3
  <2>2. CASE f[2] # "object" /\ g[2] # "object"
    <3>1. Append(ObjectField(d, f[1]), f[2]) = Append(ObjectField(d, g[1]), g[2])
      BY Zenon, <2>2, <1>2, <1>7
    <3>2. f[2] \in Word /\ g[2] \in Word
      BY <1>1, <2>2 DEF Word
    <3>3. ObjectField(d, f[1]) \in Seq(Word) /\ ObjectField(d, g[1]) \in Seq(Word)
      BY ZenonT(60), <1>1, ObjectWords
    <3>4. ObjectField(d, f[1]) = ObjectField(d, g[1]) /\ f[2] = g[2]
      BY <3>1, <3>2, <3>3, SameEnd
    <3>5. f[1] = g[1]
      BY <1>1, <3>4, OneObject
    <3> QED BY Zenon, <1>1, <3>4, <3>5
  <2>3. ASSUME NEW x \in DOMAIN F, NEW y \in DOMAIN F, F[x] = F[y],
               x[2] = "object", y[2] # "object"
        PROVE  FALSE
    <3>1. ObjectField(d, x[1]) = Append(ObjectField(d, y[1]), y[2])
      BY Zenon, <2>3, <1>2
    <3>2. /\ y[2] \in {"initialized", "message"}
          /\ x[1] \in Object(d) /\ y[1] \in Object(d)
          /\ y[2] = "message" => y[1] \in Subscriptions(d)
      BY SMTT(30), <1>1, <2>3
    <3>3. /\ x[1] \in DOMAIN E /\ y[1] \in DOMAIN E
          /\ E[x[1]].kind = E[y[1]].kind
          /\ E[x[1]].id = E[y[1]].id \o <<y[2]>>
      BY ZenonT(60), <3>1, <3>2, Clashing
    <3>4. y[2] = "message" => E[x[1]].kind = "subscription"
      BY ZenonT(60), <3>2, <3>3 DEF Subscriptions
    <3> QED BY ZenonT(60), <1>7, <3>2, <3>3, <3>4 DEF SuffixClash
  <2> QED BY <1>7, <2>1, <2>2, <2>3
<1> QED BY Zenon, <1>6, <1>7 DEF IsInjective, F

LEMMA WordsMore ==
  ASSUME NEW id \in Seq(STRING)
  PROVE  id \in Seq(Word)
<1>1. STRING \subseteq Word
  BY DEF Word
<1> QED BY ZenonT(60), <1>1, SeqMonotonic

-----------------------------------------------------------------------------
(***************************************************************************)
(* The RAM of an image.                                                    *)
(***************************************************************************)

\* No section of S ends behind its high-water mark.
LEMMA HighWaterIs ==
  ASSUME NEW S, IsFiniteSet(S), NEW region, region.origin \in Nat,
         \A s \in S : /\ s.address \in Nat /\ s.size \in Nat
                      /\ s.address >= region.origin
  PROVE  /\ HighWater(S, region) \in Nat
         /\ \A s \in S : s.address + s.size <= region.origin + HighWater(S, region)
<1> DEFINE f == [s \in S |-> s.address + s.size]
           ends == {s.address + s.size : s \in S}
           o == region.origin
<1>1. CASE S = {}
  BY <1>1 DEF HighWater
<1>2. CASE S # {}
  <2>1. ends # {}
    BY <1>2
  <2>2. f \in Surjection(S, ends)
    BY DEF Surjection
  <2>3. IsFiniteSet(ends)
    <3> HIDE DEF ends, f
    <3> QED BY <2>2, FS_Surjection
  <2>4. ends \subseteq Int /\ \A e \in ends : e >= o
    OBVIOUS
  <2>5. HighWater(S, region) = Max(ends) - o
    BY Zenon, <2>1 DEF HighWater
  <2>6. \A s \in S : s.address + s.size \in ends
    OBVIOUS
  <2> HIDE DEF ends, o
  <2>7. Max(ends) \in ends /\ \A e \in ends : e <= Max(ends)
    BY ZenonT(60), <2>1, <2>3, <2>4, MaxIsGreatest
  <2>8. o \in Int
    BY DEF o
  <2>9. Max(ends) - o \in Nat /\ o + (Max(ends) - o) = Max(ends)
    <3>1. Max(ends) \in Int /\ Max(ends) >= o
      BY ZenonT(60), <2>4, <2>7
    <3> QED BY <2>8, <3>1
  <2>10. \A s \in S : s.address + s.size <= o + (Max(ends) - o)
    BY <2>6, <2>7, <2>9
  <2> QED BY Zenon, <2>5, <2>9, <2>10 DEF o
<1> QED BY <1>1, <1>2

LEMMA MeasuresAre ==
  ASSUME NEW img, Measurable(img)
  PROVE  /\ IsFiniteSet(img.sections)
         /\ \A s \in img.sections : s.address \in Nat /\ s.size \in Nat
         /\ \A r \in DOMAIN img.regions :
              img.regions[r].origin \in Nat /\ img.regions[r].length \in Nat
BY Zenon DEF Measurable

LEMMA SpanIs ==
  ASSUME NEW img, Measurable(img), NEW r \in DOMAIN img.regions
  PROVE  /\ physical_span(img.sections, img.regions[r]) \in Nat
         /\ region_usage(img.sections, img.regions[r]) \in Nat
         /\ \A s \in img.sections :
              s.alloc /\ StartsIn(s, img.regions[r]) =>
                /\ s.address + s.size
                     <= img.regions[r].origin
                        + physical_span(img.sections, img.regions[r])
                /\ ~Crosses(s, img.regions[r]) =>
                     s.address + s.size
                       <= img.regions[r].origin
                          + region_usage(img.sections, img.regions[r])
<1> DEFINE region == img.regions[r]
           S == {s \in img.sections : s.alloc /\ StartsIn(s, region)}
           T == {s \in img.sections :
                   /\ s.alloc /\ StartsIn(s, region)
                   /\ s.address + s.size <= region.origin + region.length}
<1>1. region.origin \in Nat /\ region.length \in Nat
  BY MeasuresAre
<1>2. IsFiniteSet(S) /\ IsFiniteSet(T)
  BY MeasuresAre, FS_Subset
<1>3. \A s \in S : s.address \in Nat /\ s.size \in Nat /\ s.address >= region.origin
  BY MeasuresAre DEF StartsIn
<1>4. \A s \in T : s.address \in Nat /\ s.size \in Nat /\ s.address >= region.origin
  BY MeasuresAre DEF StartsIn
<1>5. physical_span(img.sections, region) = HighWater(S, region)
  BY DEF physical_span
<1>6. region_usage(img.sections, region) = HighWater(T, region)
  BY DEF region_usage
<1>7. \A s \in img.sections : s.alloc /\ StartsIn(s, region) =>
        s \in S /\ (~Crosses(s, region) => s \in T)
  BY <1>1, MeasuresAre DEF Crosses
<1> HIDE DEF S, T, region
<1>8. /\ HighWater(S, region) \in Nat
      /\ \A s \in S : s.address + s.size <= region.origin + HighWater(S, region)
  BY <1>1, <1>2, <1>3, HighWaterIs
<1>9. /\ HighWater(T, region) \in Nat
      /\ \A s \in T : s.address + s.size <= region.origin + HighWater(T, region)
  BY <1>1, <1>2, <1>4, HighWaterIs
<1> QED BY Zenon, <1>5, <1>6, <1>7, <1>8, <1>9 DEF region

LEMMA StaticRam ==
  ASSUME NEW img, Measurable(img)
  PROVE  static_ram_bytes(img) \in Nat
<1> DEFINE S == {s \in img.sections : occupies_ram(s)}
           f == [s \in S |-> s.size]
<1>1. SumSizes(S) \in Nat
  <2>1. IsFiniteSet(S)
    BY MeasuresAre, FS_Subset
  <2>2. DOMAIN f = S /\ f \in [DOMAIN f -> Nat]
    BY MeasuresAre
  <2>3. SumSizes(S) = SumFunction(f)
    BY DEF SumSizes
  <2> HIDE DEF f, S
  <2> QED BY <2>1, <2>2, <2>3, SumNat
<1> HIDE DEF S
<1>2. \A r \in DOMAIN img.regions :
        /\ physical_span(img.sections, img.regions[r]) \in Nat
        /\ region_usage(img.sections, img.regions[r]) \in Nat
  BY Zenon, SpanIs
<1> QED BY <1>1, <1>2 DEF static_ram_bytes, S

-----------------------------------------------------------------------------
(***************************************************************************)
(* Admitted images.                                                        *)
(***************************************************************************)

LEMMA NoFailure ==
  ASSUME NEW img, NEW p, Failures(img, p) = {}
  PROVE  /\ img.vendor_known
         /\ img.a_profile => img.wrapped
         /\ ~PoolMismatch(img)
         /\ UnknownStacks(img) = {}
         /\ \A row \in StackRows(img) : stack_budget(img, row[2], row[3], row[4])
<1>1. "vendor" \notin Failures(img, p) /\ "wrapper" \notin Failures(img, p)
      /\ "pool" \notin Failures(img, p) /\ "stacks" \notin Failures(img, p)
      /\ "budget" \notin Failures(img, p)
  OBVIOUS
<1>2. img.vendor_known
  BY <1>1 DEF Failures
<1>3. img.a_profile => img.wrapped
  BY <1>1, <1>2 DEF Failures
<1>4. ~PoolMismatch(img)
  BY <1>1 DEF Failures
<1>5. UnknownStacks(img) = {}
  BY <1>1 DEF Failures
<1>6. \A row \in StackRows(img) : stack_budget(img, row[2], row[3], row[4])
  BY <1>1 DEF Failures
<1> QED BY <1>2, <1>3, <1>4, <1>5, <1>6

LEMMA RamCommitted ==
  ASSUME NEW img, NEW p, Failures(img, p) = {}
  PROVE  ~(ram_committed_bytes(img) + 16384 > 450000)
<1>1. "ram" \notin Failures(img, p)
  OBVIOUS
<1> QED BY <1>1 DEF Failures

LEMMA RoundsUp ==
  ASSUME NEW n \in Int
  PROVE  /\ RoundUp16(n) \in Int /\ RoundUp16(n) >= n
         /\ RoundUp16(n) <= n + 15
         /\ \A size \in VENDOR_STACKS : RoundUp16(size + n) = size + RoundUp16(n)
BY DEF RoundUp16, VENDOR_STACKS

LEMMA Times ==
  ASSUME NEW i \in Nat, NEW n \in Nat, NEW each \in Nat, i <= n
  PROVE  i * each <= n * each
OBVIOUS

LEMMA C6Regions ==
  ASSUME NEW img, inventory_error(img) = "OK"
  PROVE  "sram0_0_seg" \in DOMAIN img.regions /\ "lp_ram_seg" \in DOMAIN img.regions
BY DEF inventory_error, C6_REGIONS

LEMMA StacksKept ==
  ASSUME NEW img, Measurable(img), NEW p, Failures(img, p) = {}
  PROVE  StacksFit(img)
<1>1. /\ img.esf \in Nat /\ img.tls_size \in Nat /\ img.tls_align \in Nat
      /\ img.tls_align = 0 => img.tls_size = 0
      /\ \A n \in DOMAIN img.stacks : img.stacks[n] \in Nat
      /\ img.cyclone_slots \in Nat /\ img.cyclone_each \in Nat
      /\ img.nros_slots \in Nat /\ img.nros_each \in Nat
  BY Zenon DEF Measurable
<1> DEFINE R == TlsReserve(img)
           O == Overhead(img)
           A == TlsAlign(img)
<1>2. O \in Nat /\ R \in Nat /\ A \in Nat /\ R = img.tls_size + A - 1
  BY <1>1 DEF Overhead, TlsReserve, TlsAlign
<1> HIDE DEF R, O, A
\* A budgeted stack holds what its thread never gets, and the budget.
<1>3. \A backing, execution \in Int : \A isr \in BOOLEAN :
        \A pad \in 0..TlsAlign(img) - 1 :
          stack_budget(img, backing, execution, isr) =>
            backing >= Taken(img, pad, isr) + execution
  <2> SUFFICES ASSUME NEW backing \in Int, NEW execution \in Int,
                      NEW isr \in BOOLEAN, NEW pad \in 0..TlsAlign(img) - 1,
                      stack_budget(img, backing, execution, isr)
               PROVE  backing >= Taken(img, pad, isr) + execution
    BY Zenon
  <2>1. backing >= (IF isr THEN 0 ELSE R) + O + execution + Margin
    BY Zenon DEF stack_budget, R, O
  <2>2. Taken(img, pad, isr) = (IF isr THEN 0 ELSE img.tls_size + pad) + O + Margin
    BY Zenon DEF Taken, O
  <2>3. Margin \in Int
    BY DEF Margin
  <2>4. CASE isr
    BY <1>2, <2>1, <2>2, <2>3, <2>4
  <2>5. CASE ~isr
    <3>1. backing >= R + O + execution + Margin
      BY <2>1, <2>5
    <3>2. Taken(img, pad, isr) = img.tls_size + pad + O + Margin
      BY <2>2, <2>5
    <3>3. img.tls_size + pad <= R
      <4>1. pad \in Int /\ pad <= A - 1
        BY <1>2 DEF A
      <4> QED BY <1>1, <1>2, <4>1
    <3>4. pad \in Int
      BY <1>2 DEF A
    <3> QED BY <1>1, <1>2, <2>3, <3>1, <3>2, <3>3, <3>4
  <2> QED BY <2>4, <2>5
<1>4. \A name, backing, execution, isr :
        <<name, backing, execution, isr>> \in StackRows(img) =>
          stack_budget(img, backing, execution, isr)
  <2> TAKE name, backing, execution, isr
  <2> DEFINE row == <<name, backing, execution, isr>>
  <2>1. row[2] = backing /\ row[3] = execution /\ row[4] = isr
    BY Zenon
  <2> HIDE DEF row
  <2>2. row \in StackRows(img) => stack_budget(img, backing, execution, isr)
    BY Zenon, <2>1, NoFailure
  <2> QED BY Zenon, <2>2 DEF row
<1>5. ASSUME NEW pad \in 0..TlsAlign(img) - 1
      PROVE  StaticStacksFit(img, pad)
  <2> SUFFICES ASSUME NEW n \in DOMAIN img.stacks \cap DOMAIN STATIC
               PROVE  img.stacks[n] >= Taken(img, pad, n = "z_interrupt_stacks")
                                       + StaticExecution(img, n)
    BY Zenon DEF StaticStacksFit
  <2>1. <<n, img.stacks[n], StaticExecution(img, n), n = "z_interrupt_stacks">>
          \in StackRows(img)
    BY Zenon DEF StackRows
  <2>2. stack_budget(img, img.stacks[n], StaticExecution(img, n),
                     n = "z_interrupt_stacks")
    BY Zenon, <1>4, <2>1
  <2>3. StaticExecution(img, n) \in Int /\ img.stacks[n] \in Int
    BY <1>1 DEF StaticExecution, STATIC
  <2> QED BY Zenon, <1>3, <2>2, <2>3
<1>6. StacksKnown(img)
  <2>1. \A n \in DOMAIN img.stacks :
          img.stacks[n] >= Margin => n \in AllowedStacks(img)
    BY NoFailure DEF UnknownStacks, Margin
  <2> QED BY <2>1 DEF AllowedStacks, StacksKnown
<1>7. ASSUME NEW pad \in 0..TlsAlign(img) - 1
      PROVE  CycloneSlotsFit(img, pad)
  <2> SUFFICES ASSUME img.a_profile, NEW i \in 1..img.cyclone_slots
               PROVE  /\ i * img.cyclone_each <= SizeOf(img, "zephyr_stacks")
                      /\ img.cyclone_each >= Taken(img, pad, FALSE) + CycloneExecution
    BY Zenon DEF CycloneSlotsFit
  <2>1. SizeOf(img, "zephyr_stacks") = img.cyclone_slots * img.cyclone_each
    BY Zenon, NoFailure DEF PoolMismatch
  <2>2. i * img.cyclone_each <= img.cyclone_slots * img.cyclone_each
    BY <1>1, Times
  <2>3. img.cyclone_slots > 0
    BY <1>1
  <2>4. <<"zephyr_stacks", img.cyclone_each, CycloneExecution, FALSE>> \in StackRows(img)
    BY Zenon, <2>3 DEF StackRows, PoolSlots
  <2>5. stack_budget(img, img.cyclone_each, CycloneExecution, FALSE)
    BY Zenon, <1>4, <2>4
  <2>6. CycloneExecution \in Int /\ img.cyclone_each \in Int
    BY <1>1 DEF CycloneExecution
  <2> QED BY Zenon, <1>3, <2>1, <2>2, <2>5, <2>6
<1>8. ASSUME NEW pad \in 0..TlsAlign(img) - 1
      PROVE  NrosSlotsFit(img, pad)
  <2> SUFFICES ASSUME img.c_profile, NEW i \in 1..img.nros_slots
               PROVE  /\ i * img.nros_each <= SizeOf(img, "nros_thread_stacks")
                      /\ img.nros_each >= Taken(img, pad, FALSE) + NrosExecution
    BY Zenon DEF NrosSlotsFit
  <2>1. SizeOf(img, "nros_thread_stacks") = img.nros_slots * img.nros_each
    BY Zenon, NoFailure DEF PoolMismatch
  <2>2. i * img.nros_each <= img.nros_slots * img.nros_each
    BY <1>1, Times
  <2>3. img.nros_slots > 0
    BY <1>1
  <2>4. <<"nros_thread_stacks", img.nros_each, NrosExecution, FALSE>> \in StackRows(img)
    BY Zenon, <2>3 DEF StackRows, PoolSlots
  <2>5. stack_budget(img, img.nros_each, NrosExecution, FALSE)
    BY Zenon, <1>4, <2>4
  <2>6. NrosExecution \in Int /\ img.nros_each \in Int
    BY <1>1 DEF NrosExecution
  <2> QED BY Zenon, <1>3, <2>1, <2>2, <2>5, <2>6
<1>9. ASSUME NEW pad \in 0..TlsAlign(img) - 1
      PROVE  WifiStackFits(img, pad)
  <2> DEFINE S == img.tls_size + img.tls_align - 1 + 355
             V == VendorBacking(img)
             E == VendorExecution(img)
             T == Taken(img, pad, FALSE)
  <2>1. V >= R + O + E + 256
    <3>1. <<"wifi", V, E, FALSE>> \in StackRows(img)
      BY Zenon, NoFailure DEF StackRows
    <3>2. stack_budget(img, V, E, FALSE)
      BY Zenon, <1>4, <3>1
    <3>3. V >= (IF FALSE THEN 0 ELSE R) + O + E + Margin
      BY Zenon, <3>2 DEF stack_budget, R, O
    <3> QED BY <3>3 DEF Margin
  <2>2. T \in Int /\ T <= R + O + 256
    <3>1. T = (IF FALSE THEN 0 ELSE img.tls_size + pad) + O + Margin
      BY Zenon DEF Taken, O
    <3>2. pad \in Int /\ pad <= A - 1
      BY <1>2 DEF A
    <3> HIDE DEF T
    <3> QED BY <1>1, <1>2, <3>1, <3>2 DEF Margin
  <2>3. S \in Int /\ S >= 354 /\ R + 355 \in Int
    BY <1>1, <1>2
  <2>4. ASSUME NEW size \in VENDOR_STACKS
        PROVE  /\ size \in Int /\ size >= 3072
               /\ wifi_task_stack_size(img, size)
                    = IF img.wrapped THEN size + RoundUp16(S) ELSE size
    <3>1. size \in Int /\ size >= 3072
      BY DEF VENDOR_STACKS
    <3>2. size + img.tls_size + img.tls_align - 1 + 99 + 256 = size + S
      BY <1>1, <3>1
    <3> HIDE DEF S
    <3>3. RoundUp16(size + S) = size + RoundUp16(S)
      BY <2>3, RoundsUp
    <3> QED BY <3>1, <3>2, <3>3 DEF wifi_task_stack_size
  <2>5. CASE img.a_profile
    <3>1. img.wrapped
      BY <2>5, NoFailure
    <3>2. V = 3072 + RoundUp16(R + 355)
      <4>1. V = RoundUp16(3072 + R + 99 + 256)
        BY <2>5, <3>1 DEF VendorBacking, R
      <4>2. 3072 + R + 99 + 256 = 3072 + (R + 355)
        BY <1>2
      <4>3. 3072 \in VENDOR_STACKS
        BY DEF VENDOR_STACKS
      <4> QED BY <2>3, <4>1, <4>2, <4>3, RoundsUp
    <3>3. RoundUp16(S) = RoundUp16(R + 355)
      <4>1. CASE img.tls_align = 0
        <5>1. S = 354 /\ R + 355 = 355
          BY <1>1, <1>2, <4>1 DEF A, TlsAlign
        <5>2. RoundUp16(354) = RoundUp16(355)
          BY DEF RoundUp16
        <5> HIDE DEF S
        <5> QED BY <5>1, <5>2
      <4>2. CASE img.tls_align # 0
        <5>1. S = R + 355
          BY <1>1, <1>2, <4>2 DEF A, TlsAlign
        <5> QED BY <5>1
      <4> QED BY <4>1, <4>2
    <3> HIDE DEF S, V
    <3>4. RoundUp16(R + 355) \in Int
      BY <2>3, RoundsUp
    <3>5. RoundUp16(R + 355) >= R + O + 256
      <4>1. E = 3072
        BY <2>5 DEF VendorExecution
      <4> HIDE DEF E
      <4> QED BY <1>2, <2>1, <3>2, <3>4, <4>1
    <3> QED
      <4> SUFFICES ASSUME NEW size \in VENDOR_STACKS
                   PROVE  wifi_task_stack_size(img, size) >= T + size
        BY Zenon, <2>5 DEF WifiStackFits
      <4> HIDE DEF T
      <4>1. wifi_task_stack_size(img, size) = size + RoundUp16(R + 355)
        BY <2>4, <3>1, <3>3
      <4> QED BY <1>2, <2>2, <2>4, <3>4, <3>5, <4>1
  <2>6. CASE ~img.a_profile
    <3>1. V = 3072 /\ E = 2048
      BY <2>6 DEF VendorBacking, VendorExecution
    <3> HIDE DEF V, E, S
    <3>2. RoundUp16(S) \in Int /\ RoundUp16(S) >= 0
      BY <2>3, RoundsUp
    <3> SUFFICES ASSUME NEW size \in VENDOR_STACKS
                 PROVE  wifi_task_stack_size(img, size) >= T + E
      BY Zenon, <2>6 DEF WifiStackFits, E
    <3> HIDE DEF T
    <3>3. wifi_task_stack_size(img, size) >= size
      BY <2>4, <3>2
    <3>4. wifi_task_stack_size(img, size) \in Int
      BY <2>4, <3>2
    <3> QED BY <1>2, <2>1, <2>2, <2>4, <3>1, <3>3, <3>4
  <2> QED BY <2>5, <2>6
<1> QED BY Zenon, <1>5, <1>6, <1>7, <1>8, <1>9 DEF StacksFit

\* What is committed of the RAM leaves 16384 of its 450000 bytes.
LEMMA ReserveLeft ==
  ASSUME NEW img, Measurable(img), NEW p, Failures(img, p) = {},
         inventory_error(img) = "OK"
  PROVE  ReserveFree(img)
<1> DEFINE region == img.regions["sram0_0_seg"]
           sram == RegionSections(img, "sram0_0_seg")
           span == linked_span_bytes(img, "sram0_0_seg")
           lp == linked_span_bytes(img, "lp_ram_seg")
           tail == dynamic_tail(img)
<1>1. \A r \in {"sram0_0_seg", "lp_ram_seg"} :
        /\ img.regions[r].origin \in Nat
        /\ linked_span_bytes(img, r) \in Nat
        /\ \A s \in RegionSections(img, r) :
             /\ s.address \in Nat /\ s.size \in Nat
             /\ s.address + s.size
                  <= img.regions[r].origin + linked_span_bytes(img, r)
  <2> TAKE r \in {"sram0_0_seg", "lp_ram_seg"}
  <2>1. r \in DOMAIN img.regions
    BY C6Regions
  <2>2. img.regions[r].origin \in Nat
    BY <2>1, MeasuresAre
  <2>3. IsFiniteSet(RegionSections(img, r))
    BY MeasuresAre, FS_Subset DEF RegionSections
  <2>4. \A s \in RegionSections(img, r) :
          /\ s.address \in Nat /\ s.size \in Nat
          /\ s.address >= img.regions[r].origin
    BY MeasuresAre DEF RegionSections, StartsIn
  <2> QED BY ZenonT(60), <2>2, <2>3, <2>4, HighWaterIs DEF linked_span_bytes
<1>2. /\ img.end \in Nat /\ img.heap_sentry \in Nat
      /\ img.arena \in Int
  BY Zenon DEF Measurable
<1>3. /\ tail \in Nat
      /\ img.arena = -1 => img.heap_sentry <= img.end + tail
  BY <1>2 DEF dynamic_tail
<1>4. ~(ram_committed_bytes(img) + 16384 > 450000)
  BY RamCommitted
<1>5. ram_committed_bytes(img) = span + lp + tail
  BY DEF ram_committed_bytes
<1> HIDE DEF span, lp, tail, region, sram
<1>6. /\ region.origin \in Nat /\ span \in Nat /\ lp \in Nat
      /\ \A s \in sram : /\ s.address \in Nat /\ s.size \in Nat
                         /\ s.address + s.size <= region.origin + span
  BY Zenon, <1>1 DEF region, span, lp, sram
<1>7. span + lp + tail + 16384 <= 450000
  BY <1>3, <1>4, <1>5, <1>6
<1>8. \A s \in sram : s.address + s.size <= region.origin + 450000 - 16384
  BY <1>3, <1>6, <1>7
<1>9. ASSUME img.arena = -1, NEW s \in sram, s.address + s.size >= img.end
      PROVE  img.heap_sentry <= region.origin + 450000 - 16384
  BY <1>2, <1>3, <1>6, <1>7, <1>9
<1> QED BY <1>8, <1>9 DEF ReserveFree, region, sram

=============================================================================
