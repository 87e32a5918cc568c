--------------------------- MODULE BuildPipeline ----------------------------
(***************************************************************************)
(* One build directory over time: scripts/build_c6_app.sh with the steps   *)
(* of cmake/deployment.cmake and cmake/runtime.cmake.  A build compiles    *)
(* the deployment, lets Kconfig write .config, makes the resource plan,    *)
(* links, verifies the image and admits it; the first step that fails ends *)
(* it.  Files stay where they are until a later build overwrites them, a   *)
(* build may be interrupted between any two writes, and the developer may  *)
(* edit the project at any time.                                           *)
(***************************************************************************)
EXTENDS DeploymentCompiler, C6Admission

CONSTANTS
  Project,   \* a function from names to projects: deployment, backend,
             \*   capability, config, and images, the names of the images
             \*   that the linker can make of it
  Image,     \* a function from names (of contents) to images
  Layout,    \* images to which the tools are put in the properties
  Target,    \* CONFIG_BOARD_TARGET
  MaxEdits   \* how often the developer saves another project

ASSUME PipelineAssumption ==
  /\ None \notin DOMAIN Project
  /\ \A name \in DOMAIN Project : Project[name].images \subseteq DOMAIN Image
  /\ MaxEdits \in Nat

Dotconfig == [user : DOMAIN Project, generated : DOMAIN Project]

MadeFrom == [deployment : DOMAIN Project, config : Dotconfig]

Linking == [elf : DOMAIN Image, from : DOMAIN Project, config : Dotconfig]

\* None is no number, and is told from every content of a file.
ASSUME NoneAssumption ==
  /\ None \notin Int /\ None \notin Dotconfig
  /\ None \notin MadeFrom /\ None \notin Linking

EndpointRecord ==
  [malformed : SUBSET STRING, id : Seq(STRING), kind : STRING,
   lifetime : STRING, callback : BOOLEAN,
   qos : [reliability : STRING, durability : STRING, history : STRING,
          depth : Int]]

\* The numbers of a description, of a capability record and of .config are
\* numbers, and its endpoints a list.
ASSUME ProjectAssumption ==
  \A name \in DOMAIN Project :
    LET d == Project[name].deployment
        capability == Project[name].capability
        config == Project[name].config IN
    /\ d.endpoints \in Seq(EndpointRecord)
    /\ d.resources.application \in Int
    /\ \A t \in DOMAIN d.resources.targets :
         d.resources.targets[t].ram_bytes \in Int
    /\ capability.workers \in Nat
    /\ \A key \in DOMAIN config : config[key] \in Int \cup {None}

ASSUME LayoutAssumption == \A img \in Layout : Measurable(img)

VARIABLES
  source,    \* the project as the developer last saved it
  dirty,     \* it was saved after the last complete configuration
  outputs,   \* the project each generated file was written for
  dotconfig, \* .config: the project it is from and the generated part in it
  plan,      \* resource-plan.json: what it was made from
  image,     \* zephyr.elf: contents, and the generated sources in it
  report,    \* resource-report.json
  admission, \* admission.json
  pc,        \* the step of the build
  building,  \* the description that the compiler has read
  at,        \* the output to be written next
  error,     \* why the last build ended
  edits      \* how often the project was saved

vars == <<source, dirty, outputs, dotconfig, plan, image, report, admission,
          pc, building, at, error, edits>>

Step == {"compile", "write", "kconfig", "plan", "link", "verify", "admit"}

TypeOK ==
  LET name == DOMAIN Project IN
  /\ source \in name /\ building \in name
  /\ dirty \in BOOLEAN
  /\ outputs \in [DOMAIN Output -> name \cup {None}]
  /\ dotconfig \in Dotconfig \cup {None}
  /\ plan \in MadeFrom \cup {None}
  /\ image \in Linking \cup {None}
  /\ report = None \/ report.passed \in BOOLEAN
  /\ admission = None \/ admission.admitted \in BOOLEAN
  /\ pc \in Step \cup {"idle"}
  /\ at \in DOMAIN Output
  /\ edits \in 0..MaxEdits

-----------------------------------------------------------------------------
\* deployment-plan.json as it is in the build directory.
DeploymentPlan(name) ==
  [deployment |-> Project[name].deployment, backend |-> Project[name].backend,
   capability |-> Project[name].capability]

\* The contents of resource-plan.json.
PlanOf(p) == build_prelink_plan(DeploymentPlan(p.deployment),
                                Project[p.config.user].config, Target)

Plan == IF plan = None THEN None ELSE PlanOf(plan)

Elf == IF image = None THEN None ELSE Image[image.elf]

Ends(why) == pc' = "idle" /\ error' = why

\* cmake starts the compiler; after an edit ninja starts cmake again.
Start ==
  /\ pc = "idle"
  /\ pc' = "compile" /\ error' = "OK"
  /\ UNCHANGED <<source, dirty, outputs, dotconfig, plan, image, report,
                 admission, building, at, edits>>

\* The compiler reads and validates.  A rejection writes nothing.
Compile ==
  /\ pc = "compile"
  /\ LET verdict == compile_verdict(Project[source].deployment,
                                    Project[source].capability,
                                    Project[source].backend)
     IN IF verdict = "OK"
        THEN pc' = "write" /\ building' = source /\ at' = 1
             /\ UNCHANGED error
        ELSE Ends(verdict) /\ UNCHANGED <<building, at>>
  /\ UNCHANGED <<source, dirty, outputs, dotconfig, plan, image, report,
                 admission, edits>>

\* Mutant of LastOutput: the last file is not written.
LastOutputMissed == Len(Output) - 1

\* Mutant of LastOutput: one too many.
LastOutputBeyond == Len(Output) + 1

LastOutput == Len(Output)

\* One file is written.
WriteOutput ==
  /\ pc = "write"
  /\ outputs' = [outputs EXCEPT ![at] = building]
  /\ IF at = LastOutput THEN pc' = "kconfig" /\ UNCHANGED at
     ELSE at' = at + 1 /\ UNCHANGED pc
  /\ UNCHANGED <<source, dirty, dotconfig, plan, image, report, admission,
                 building, error, edits>>

\* Zephyr's Kconfig: the project's settings with the generated ones on top.
Kconfig ==
  /\ pc = "kconfig"
  /\ dotconfig' = [user |-> source, generated |-> outputs[3]]
  /\ pc' = "plan"
  /\ UNCHANGED <<source, dirty, outputs, plan, image, report, admission,
                 building, at, error, edits>>

\* verify_resources.py plan.  An exception leaves the old plan on disk; a
\* failed check stops the configuration after the plan is written.
MakePlan ==
  /\ pc = "plan"
  /\ LET new == [deployment |-> outputs[5], config |-> dotconfig]
         targets == Project[outputs[5]].deployment.resources.targets IN
     IF PlanTarget(targets, Target) = None
     THEN Ends("E_RESOURCE_TARGET") /\ UNCHANGED <<plan, dirty>>
     ELSE /\ plan' = new
          /\ IF PlanOf(new).passed
             THEN pc' = "link" /\ dirty' = FALSE /\ UNCHANGED error
             ELSE Ends(first_failed(PlanOf(new).checks)) /\ UNCHANGED dirty
  /\ UNCHANGED <<source, outputs, dotconfig, image, report, admission,
                 building, at, edits>>

\* ninja configures again if the description was saved since; the linker
\* makes an image or fails, and then the old one may be gone.
Link ==
  /\ pc = "link"
  /\ \/ dirty /\ pc' = "compile" /\ UNCHANGED <<image, error>>
     \/ /\ ~dirty
        /\ \E elf \in Project[outputs[2]].images :
             image' = [elf |-> elf, from |-> outputs[2], config |-> dotconfig]
        /\ pc' = "verify"
        /\ UNCHANGED error
     \/ ~dirty /\ image' \in {image, None} /\ Ends("link")
  /\ UNCHANGED <<source, dirty, outputs, dotconfig, plan, report, admission,
                 building, at, edits>>

\* Mutant of VerifyEnds: only an exception fails the build.
VerifyEndsLate(failed) == FALSE

\* The exit status of verify_resources.py.
VerifyEnds(failed) == failed

\* verify_resources.py verify.  An exception leaves the old report.
Verify ==
  /\ pc = "verify"
  /\ IF verify_error(Plan, Elf) # "OK"
     THEN Ends(verify_error(Plan, Elf)) /\ UNCHANGED report
     ELSE LET failed == Failed(ReportChecks(Plan, Elf)) # {} IN
          /\ report' = [plan |-> plan, image |-> image, passed |-> ~failed]
          /\ IF VerifyEnds(failed)
             THEN Ends(first_failed(ReportChecks(Plan, Elf)))
             ELSE pc' = "admit" /\ UNCHANGED error
  /\ UNCHANGED <<source, dirty, outputs, dotconfig, plan, image, admission,
                 building, at, edits>>

\* admit_esp32c6.py.  An exception leaves the old record.
Admit ==
  /\ pc = "admit"
  /\ IF inventory_error(Elf) # "OK"
     THEN Ends(inventory_error(Elf)) /\ UNCHANGED admission
     ELSE LET failures == Failures(Elf, Plan) IN
          /\ admission' = [elf |-> image.elf, admitted |-> failures = {}]
          /\ Ends(IF failures = {} THEN "admitted" ELSE "not admitted")
  /\ UNCHANGED <<source, dirty, outputs, dotconfig, plan, image, report,
                 building, at, edits>>

\* The build is interrupted.
Interrupt ==
  /\ pc \in Step
  /\ Ends("interrupted")
  /\ UNCHANGED <<source, dirty, outputs, dotconfig, plan, image, report,
                 admission, building, at, edits>>

Edit ==
  /\ edits < MaxEdits /\ edits' = edits + 1
  /\ \E name \in DOMAIN Project \ {source} : source' = name
  /\ dirty' = TRUE
  /\ UNCHANGED <<outputs, dotconfig, plan, image, report, admission, pc,
                 building, at, error>>

Next ==
  \/ Start \/ Compile \/ WriteOutput \/ Kconfig \/ MakePlan \/ Link \/ Verify
  \/ Admit \/ Interrupt \/ Edit

Init ==
  /\ source \in DOMAIN Project
  /\ dirty = TRUE
  /\ outputs = [i \in DOMAIN Output |-> None]
  /\ dotconfig = None /\ plan = None /\ image = None
  /\ report = None /\ admission = None
  /\ pc = "idle" /\ error = "OK"
  /\ building = source /\ at = 1 /\ edits = 0

Spec == Init /\ [][Next]_vars

-----------------------------------------------------------------------------
(***************************************************************************)
(* Properties.                                                             *)
(***************************************************************************)

\* From the passed plan to the admission, all generated files, .config, the
\* plan and the image belong to one compilation, whatever earlier and
\* interrupted builds left in the directory and whenever the project was
\* edited.
ConsistentBuild ==
  pc \in {"link", "verify", "admit"} =>
    /\ \A i \in DOMAIN Output : outputs[i] = building
    /\ dotconfig.generated = building
    /\ plan = [deployment |-> building, config |-> dotconfig] /\ Plan.passed
    /\ pc # "link" => image.from = building /\ image.config = dotconfig

\* When build_c6_app.sh succeeds, the report and the admission on disk are
\* about the image and the plan on disk, and both tools accept them.
AdmittedBuild ==
  error = "admitted" =>
    /\ report = [plan |-> plan, image |-> image, passed |-> TRUE]
    /\ admission = [elf |-> image.elf, admitted |-> TRUE]
    /\ Failed(ReportChecks(Plan, Elf)) = {} /\ Failures(Elf, Plan) = {}

\* generate_header gives the fields of the context distinct names, except
\* when an accepted description has an endpoint x and an endpoint of the same
\* kind x_initialized, or subscriptions x and x_message.
ContextFieldsDistinct ==
  pc = "kconfig" =>
    LET d == Project[building].deployment
    IN IsInjective(ContextFields(d)) <=> ~SuffixClash(d)

\* The range of ROS2_ZEPHYR_DOMAIN_ID.
DomainIds == 0..232

\* The compiler never weakens QoS or graph requirements: what was accepted is
\* supported by the backend, and the generated calls ask for it unchanged,
\* with one handle in the executor for each subscription.  Kconfig takes the
\* generated domain.
NeverWeakens ==
  pc = "kconfig" =>
    LET p == Project[building]
        d == p.deployment
        code == generate_source(d) IN
    /\ Len(code.endpoints) = Len(d.endpoints)
    /\ \A i \in DOMAIN d.endpoints :
         LET asked == d.endpoints[i].qos
             given == code.endpoints[i].qos IN
         /\ given.depth = asked.depth
         /\ asked.depth <= p.capability.qos.depth.maximum
         /\ \A policy \in {"reliability", "durability", "history"} :
              /\ given[policy][2] = asked[policy]
              /\ asked[policy] \in p.capability.qos[policy]
    /\ d.graph.inbound => p.capability.graph.inbound
    /\ d.graph.outbound => p.capability.graph.outbound
    /\ Range(d.graph.api) \subseteq p.capability.graph.api
    /\ generate_config(d, p.backend).domain_id \in DomainIds
    /\ code.handles = Cardinality(DOMAIN code.added)
    /\ \A i \in DOMAIN d.endpoints :
         d.endpoints[i].kind = "subscription" <=>
           /\ i \in DOMAIN code.added
           /\ code.added[i] = code.endpoints[i].field

\* An image is linked, verified and admitted against the budget and the reserve
\* of the description that was compiled into it, whatever earlier builds left in
\* deployment-plan.json and resource-plan.json.
BudgetKept ==
  pc \in {"link", "verify", "admit"} =>
    LET resources == Project[building].deployment.resources IN
    /\ Plan.budget = resources.targets[Target]
    /\ Plan.reserve = resources.application

\* What is built is what was described: the fields of the context have names of
\* their own exactly if no id is another one with a suffix of generate_header,
\* no QoS or graph requirement is weakened and no subscription lost, and the
\* RAM and flash budget and the application's reserve are the description's.
GeneratedAsDescribed == ContextFieldsDistinct /\ NeverWeakens /\ BudgetKept

\* The linker places no section across the end of a region, and the region
\* sram0_0_seg exists on the ESP32-C6 only.
Linked(img) ==
  /\ img.readable
  /\ img.hpcore <=> "sram0_0_seg" \in DOMAIN img.regions
  /\ \A r \in DOMAIN img.regions : \A s \in img.sections :
       s.alloc /\ StartsIn(s, img.regions[r]) => ~Crosses(s, img.regions[r])

\* An image that verify_resources.py passes leaves the application's reserve
\* free at the end of the RAM: no section reaches into the last reserve bytes
\* of the region, whatever holes the linker left and wherever code is in RAM.
ReserveFits ==
  pc = "link" =>
    \A img \in Layout :
      LET region == RamRegion(img.regions) IN
      /\ Linked(img) /\ region # None
      /\ verify_error(Plan, img) = "OK"
      /\ Failed(ReportChecks(Plan, img)) = {}
      => \A s \in img.sections :
           s.alloc /\ StartsIn(s, region) =>
             s.address + s.size + Plan.reserve
               <= region.origin + region.length

\* What Zephyr will place in RAM for the configuration.
Placed(p) ==
  LET dp == DeploymentPlan(p.deployment)
      config == Project[p.config.user].config IN
  configured_reservations(config, dp.backend,
                          OrZero(configured_workers(dp, config)))

\* A plan that is rejected for its RAM rejects no build that could have
\* passed: every image with the configured stacks and heaps in its RAM would
\* fail the check of the linked RAM too.
RamRejectionIsFinal ==
  pc = "idle" /\ error = "E_RESOURCE_RAM_BUDGET" /\ ~Plan.passed =>
    \A img \in Layout :
      static_ram_bytes(img) >= Placed(plan) =>
        ~Passed(LinkedRam(Plan, img), Plan.budget.ram_bytes)

\* The verdicts on RAM are right: a passed image leaves the application its
\* reserve, and a plan rejected for its RAM had no image that could pass.
RamVerdictsRight == ReserveFits /\ RamRejectionIsFinal

\* An admitted image gives every thread its execution budget and the margin,
\* after its TLS copy at any alignment, an interrupt frame and the sentinel.
AdmittedStacksFit ==
  pc = "link" =>
    \A img \in Layout :
      inventory_error(img) = "OK" /\ Failures(img, Plan) = {} =>
        StacksFit(img)

\* An admitted image leaves 16384 bytes of the 450000 to the application.
AdmittedReserveFree ==
  pc = "link" =>
    \A img \in Layout :
      inventory_error(img) = "OK" /\ Failures(img, Plan) = {} =>
        ReserveFree(img)

\* An admitted image fits: every thread has its stack, and the application its
\* reserve of RAM.
AdmittedImageFits == AdmittedStacksFit /\ AdmittedReserveFree

=============================================================================
