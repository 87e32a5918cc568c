------------------------- MODULE BuildPipelineProofs -------------------------
(***************************************************************************)
(* The files of one build directory belong together when they have to, and *)
(* the verdicts of the tools mean what they say, for every collection of   *)
(* projects and images and however often builds are interrupted.           *)
(***************************************************************************)
EXTENDS BuildPipeline, BuildToolsProofs

-----------------------------------------------------------------------------
(***************************************************************************)
(* One build directory.                                                    *)
(***************************************************************************)

\* The inductive invariant: at every step, the files written before it in the
\* same build are from the description being built, and the outcome of the
\* last build is about the files on disk.
Compiled(name) ==
  compile_verdict(Project[name].deployment, Project[name].capability,
                  Project[name].backend) = "OK"

Files ==
  /\ pc # "idle" => error = "OK"
  /\ pc = "write" => \A i \in 1..at - 1 : outputs[i] = building
  /\ pc \in {"write", "kconfig"} => Compiled(building)
  /\ pc \in {"kconfig", "plan", "link", "verify", "admit"} =>
       \A i \in 1..6 : outputs[i] = building
  /\ pc \in {"plan", "link", "verify", "admit"} =>
       dotconfig \in Dotconfig /\ dotconfig.generated = building
  /\ plan # None =>
       Target \in DOMAIN Project[plan.deployment].deployment.resources.targets
  /\ pc \in {"link", "verify", "admit"} =>
       plan = [deployment |-> building, config |-> dotconfig] /\ Plan.passed
  /\ pc \in {"verify", "admit"} =>
       image \in Linking /\ image.from = building /\ image.config = dotconfig
  /\ pc = "admit" =>
       /\ report = [plan |-> plan, image |-> image, passed |-> TRUE]
       /\ Failed(ReportChecks(Plan, Elf)) = {}
  /\ AdmittedBuild
  /\ error = RamCode =>
       plan # None /\ (Plan.passed \/ first_failed(Plan.checks) = RamCode)

LEMMA SixOutputs == DOMAIN Output = 1..6 /\ LastOutput = 6
BY DEF Output, LastOutput

LEMMA Typed == TypeOK /\ Files /\ [Next]_vars => TypeOK'
<1> SUFFICES ASSUME TypeOK, Files, [Next]_vars PROVE TypeOK'
  OBVIOUS
<1>1. CASE Start
  BY <1>1 DEF Start, TypeOK, Step
<1>2. CASE Compile
  BY SixOutputs, <1>2 DEF Compile, Ends, TypeOK, Step
<1>3. CASE WriteOutput
  BY SixOutputs, <1>3 DEF WriteOutput, TypeOK, Step
<1>4. CASE Kconfig
  <2>1. outputs[3] \in DOMAIN Project /\ source \in DOMAIN Project
    BY SixOutputs, <1>4 DEF Kconfig, Files, TypeOK
  <2>2. dotconfig' \in Dotconfig
    BY <2>1, <1>4 DEF Kconfig, Dotconfig
  <2> QED BY <2>2, <1>4 DEF Kconfig, TypeOK, Step
<1>5. CASE MakePlan
  <2>1. outputs[5] \in DOMAIN Project /\ dotconfig \in Dotconfig
    BY SixOutputs, <1>5 DEF MakePlan, Files, TypeOK
  <2>2. [deployment |-> outputs[5], config |-> dotconfig] \in MadeFrom
    BY <2>1 DEF MadeFrom
  <2> QED BY ZenonT(60), <2>2, <1>5 DEF MakePlan, Ends, TypeOK, Step
<1>6. CASE Link
  <2>1. outputs[2] \in DOMAIN Project /\ dotconfig \in Dotconfig
    BY SixOutputs, <1>6 DEF Link, Files, TypeOK
  <2>2. \A elf \in Project[outputs[2]].images :
          [elf |-> elf, from |-> outputs[2], config |-> dotconfig] \in Linking
    BY <2>1, PipelineAssumption DEF Linking
  <2>3. image' \in Linking \cup {None}
    BY <2>2, <1>6 DEF Link, TypeOK
  <2> QED BY <2>3, <1>6 DEF Link, Ends, TypeOK, Step
<1>7. CASE Verify
  <2>1. \/ report' = report
        \/ \E b \in BOOLEAN :
             report' = [plan |-> plan, image |-> image, passed |-> b]
    BY Zenon, <1>7 DEF Verify
  <2>2. report' = report \/ report'.passed \in BOOLEAN
    BY <2>1
  <2> QED BY <2>2, <1>7 DEF Verify, Ends, TypeOK, Step
<1>8. CASE Admit
  <2>1. \/ admission' = admission
        \/ \E b \in BOOLEAN : admission' = [elf |-> image.elf, admitted |-> b]
    BY Zenon, <1>8 DEF Admit
  <2>2. admission' = admission \/ admission'.admitted \in BOOLEAN
    BY <2>1
  <2> QED BY <2>2, <1>8 DEF Admit, Ends, TypeOK, Step
<1>9. CASE Interrupt
  BY <1>9 DEF Interrupt, Ends, TypeOK, Step
<1>10. CASE Edit
  BY <1>10, PipelineAssumption DEF Edit, TypeOK, Step
<1>11. CASE UNCHANGED vars
  BY <1>11 DEF vars, TypeOK
<1> QED BY <1>1, <1>2, <1>3, <1>4, <1>5, <1>6, <1>7, <1>8, <1>9, <1>10, <1>11
           DEF Next

LEMMA NoCodeIsAdmitted ==
  /\ "admitted" \notin CheckCodes
  /\ CompileCodes \cap {"admitted", RamCode} = {}
  /\ \A e \in {"OK", "link", "interrupted", "E_RESOURCE_TARGET", "not admitted"} :
       e \notin {"admitted", RamCode}
BY DEF CheckCodes, CompileCodes, RamCode

\* A step that ends the build for another reason than RAM or admission, and
\* leaves the plan alone.
LEMMA EndsPlainly ==
  ASSUME TypeOK, Files, NEW why, why \notin {"admitted", RamCode}, Ends(why),
         UNCHANGED plan
  PROVE  Files'
BY Zenon DEF Files, Ends, AdmittedBuild, RamCode

\* A step that leaves the build and its directory alone.
LEMMA FilesUntouched ==
  ASSUME Files,
         UNCHANGED <<outputs, dotconfig, plan, image, report, admission, pc,
                     building, at, error>>
  PROVE  Files'
<1>1. Plan' = Plan /\ Elf' = Elf
  BY DEF Plan, Elf
<1>2. AdmittedBuild => AdmittedBuild'
  BY <1>1 DEF AdmittedBuild
<1> QED BY Zenon, <1>1, <1>2 DEF Files

\* The plan of the deployment and .config that are on disk.
LEMMA PlanHas ==
  ASSUME NEW p
  PROVE  /\ PlanOf(p).checks \in Seq(Row)
         /\ PlanOf(p).passed = (Failed(PlanOf(p).checks) = {})
         /\ PlanOf(p).checks
              = PlanChecks(DeploymentPlan(p.deployment),
                           Project[p.config.user].config, PlanOf(p).budget)
         /\ PlanOf(p).budget
              = Project[p.deployment].deployment.resources.targets[Target]
         /\ PlanOf(p).reserve
              = Project[p.deployment].deployment.resources.application
<1> DEFINE dp == DeploymentPlan(p.deployment)
           config == Project[p.config.user].config
           budget == dp.deployment.resources.targets[Target]
<1>1. PlanOf(p) = [passed |-> Failed(PlanChecks(dp, config, budget)) = {},
                   checks |-> PlanChecks(dp, config, budget),
                   budget |-> budget,
                   reserve |-> dp.deployment.resources.application]
  BY Zenon DEF PlanOf, build_prelink_plan
<1>2. dp.deployment = Project[p.deployment].deployment
  BY DEF DeploymentPlan
<1>3. PlanChecks(dp, config, budget) \in Seq(Row)
  BY PlanChecksAre
<1> HIDE DEF dp, config, budget
<1>4. /\ PlanOf(p).checks = PlanChecks(dp, config, budget)
      /\ PlanOf(p).passed = (Failed(PlanChecks(dp, config, budget)) = {})
      /\ PlanOf(p).budget = budget
      /\ PlanOf(p).reserve = dp.deployment.resources.application
  <2>1. PlanOf(p).checks = PlanChecks(dp, config, budget)
    BY <1>1
  <2>2. PlanOf(p).passed = (Failed(PlanChecks(dp, config, budget)) = {})
    <3> DEFINE ok == Failed(PlanChecks(dp, config, budget)) = {}
    <3>1. PlanOf(p) = [passed |-> ok, checks |-> PlanChecks(dp, config, budget),
                       budget |-> budget,
                       reserve |-> dp.deployment.resources.application]
      BY Zenon, <1>1
    <3> HIDE DEF ok
    <3>2. PlanOf(p).passed = ok
      BY <3>1
    <3> QED BY Zenon, <3>2 DEF ok
  <2>3. PlanOf(p).budget = budget
    BY <1>1
  <2>4. PlanOf(p).reserve = dp.deployment.resources.application
    BY <1>1
  <2> QED BY <2>1, <2>2, <2>3, <2>4
<1> QED BY Zenon, <1>2, <1>3, <1>4 DEF dp, config, budget

LEMMA FilesStep == TypeOK /\ Files /\ [Next]_vars => Files'
<1> SUFFICES ASSUME TypeOK, Files, [Next]_vars PROVE Files'
  OBVIOUS
<1>0. /\ pc \in {"kconfig", "plan", "link", "verify", "admit"} =>
           outputs[2] = building /\ outputs[3] = building /\ outputs[5] = building
      /\ building \in DOMAIN Project /\ source \in DOMAIN Project
  BY DEF Files, TypeOK
<1>1. CASE Start
  BY Zenon, <1>1 DEF Start, Files, AdmittedBuild, RamCode
<1>2. CASE Compile
  <2> DEFINE verdict == compile_verdict(Project[source].deployment,
                                        Project[source].capability,
                                        Project[source].backend)
  <2>1. CASE verdict = "OK"
    <3>1. /\ pc = "compile" /\ pc' = "write" /\ building' = source /\ at' = 1
          /\ UNCHANGED <<error, plan, source>>
      BY Zenon, <2>1, <1>2 DEF Compile
    <3>2. error' = "OK" /\ error' # "admitted" /\ error' # RamCode
      BY <3>1 DEF Files, RamCode
    <3>3. (1..at - 1)' = {}
      BY ONLY <3>1
    <3>4. Compiled(building)'
      BY Zenon, <2>1, <3>1 DEF Compiled
    <3>5. plan' # None =>
            Target \in DOMAIN Project[plan'.deployment].deployment.resources.targets
      BY Zenon, <3>1 DEF Files
    <3> QED BY Zenon, <3>1, <3>2, <3>3, <3>4, <3>5 DEF Files, AdmittedBuild
  <2>2. CASE verdict # "OK"
    <3>1. verdict \in CompileCodes
      <4>1. source \in DOMAIN Project
        BY DEF TypeOK
      <4> QED BY Zenon, <4>1, <2>2, VerdictIs, ProjectAssumption
    <3>2. verdict \notin {"admitted", RamCode}
      BY <3>1, NoCodeIsAdmitted
    <3>3. Ends(verdict) /\ UNCHANGED plan
      BY ZenonT(60), <2>2, <1>2 DEF Compile
    <3> HIDE DEF verdict
    <3> QED BY <3>2, <3>3, EndsPlainly
  <2> QED BY <2>1, <2>2
<1>3. CASE WriteOutput
  <2>1. /\ pc = "write" /\ outputs' = [outputs EXCEPT ![at] = building]
        /\ UNCHANGED <<plan, building, error>>
        /\ \/ at = 6 /\ pc' = "kconfig" /\ at' = at
           \/ at # 6 /\ pc' = "write" /\ at' = at + 1
    BY Zenon, <1>3, SixOutputs DEF WriteOutput
  <2>2. /\ error' = "OK" /\ error' # "admitted" /\ error' # RamCode
        /\ Compiled(building)'
    BY <2>1 DEF Files, RamCode, Compiled
  <2>3. \A i \in 1..at : outputs'[i] = building'
    <3>1. \A i \in 1..at - 1 : outputs[i] = building
      BY Zenon, <2>1 DEF Files
    <3>2. at \in 1..6 /\ DOMAIN outputs = 1..6
      BY SixOutputs DEF TypeOK
    <3> QED BY ONLY <2>1, <3>1, <3>2
  <2>4. at \in Int
    BY SixOutputs DEF TypeOK
  <2>5. /\ pc' = "write" => \A i \in (1..at - 1)' : outputs'[i] = building'
        /\ pc' = "kconfig" => \A i \in 1..6 : outputs'[i] = building'
    BY ONLY <2>1, <2>3, <2>4
  <2>6. plan' # None =>
          Target \in DOMAIN Project[plan'.deployment].deployment.resources.targets
    BY Zenon, <2>1 DEF Files
  <2>7. pc' \in {"write", "kconfig"}
    BY Zenon, <2>1
  <2> QED BY Zenon, <2>2, <2>5, <2>6, <2>7 DEF Files, AdmittedBuild
<1>4. CASE Kconfig
  <2>1. dotconfig' \in Dotconfig /\ dotconfig'.generated = building
    BY <1>0, <1>4 DEF Kconfig, Dotconfig
  <2> QED BY Zenon, <2>1, <1>4 DEF Kconfig, Files, AdmittedBuild, RamCode
<1>5. CASE MakePlan
  <2> DEFINE new == [deployment |-> building, config |-> dotconfig]
             targets == Project[building].deployment.resources.targets
  <2>0. /\ pc = "plan" /\ outputs[5] = building /\ error = "OK"
        /\ dotconfig \in Dotconfig
    BY Zenon, <1>0, <1>5 DEF MakePlan, Files
  <2>1. new \in MadeFrom /\ new # None /\ new.deployment = building
    BY <1>0, <2>0, NoneAssumption DEF MadeFrom
  <2>2. CASE PlanTarget(targets, Target) = None
    <3>1. Ends("E_RESOURCE_TARGET") /\ UNCHANGED plan
      BY <2>0, <2>2, <1>5 DEF MakePlan
    <3> QED BY <3>1, EndsPlainly, NoCodeIsAdmitted
  <2>3. CASE PlanTarget(targets, Target) # None
    <3>1. Target \in DOMAIN targets
      BY <2>3 DEF PlanTarget
    <3>2. plan' = new /\ Plan' = PlanOf(new)
          /\ UNCHANGED <<outputs, dotconfig, building>>
      BY Zenon, <2>0, <2>1, <2>3, <1>5 DEF MakePlan, Plan
    <3>3. CASE PlanOf(new).passed
      <4>1. pc' = "link" /\ UNCHANGED error
        BY Zenon, <2>0, <2>3, <3>3, <1>5 DEF MakePlan
      <4> HIDE DEF new
      <4> QED BY Zenon, <2>0, <2>1, <3>1, <3>2, <3>3, <4>1
              DEF Files, AdmittedBuild, RamCode, new
    <3>4. CASE ~PlanOf(new).passed
      <4>1. Ends(first_failed(PlanOf(new).checks))
        BY Zenon, <2>0, <2>3, <3>4, <1>5 DEF MakePlan
      <4>2. first_failed(PlanOf(new).checks) \in CheckCodes
        BY Zenon, <3>4, PlanHas, ReportedCode
      <4>3. pc' = "idle" /\ error' # "admitted"
            /\ (error' = RamCode => first_failed(Plan'.checks) = RamCode)
        BY <4>1, <4>2, <3>2, NoCodeIsAdmitted DEF Ends
      <4> HIDE DEF new
      <4> QED BY Zenon, <2>1, <3>1, <3>2, <4>3 DEF Files, AdmittedBuild
    <3> QED BY <3>3, <3>4
  <2> QED BY <2>2, <2>3
<1>6. CASE Link
  <2>0. /\ pc = "link" /\ outputs[2] = building /\ error = "OK"
        /\ UNCHANGED <<outputs, dotconfig, plan, building>> /\ Plan' = Plan
    BY Zenon, <1>0, <1>6 DEF Link, Files, Plan
  <2>1. CASE pc' = "compile" /\ UNCHANGED <<image, error>>
    BY Zenon, <2>0, <2>1 DEF Files, AdmittedBuild, RamCode
  <2>2. ASSUME NEW elf \in Project[outputs[2]].images,
               image' = [elf |-> elf, from |-> outputs[2], config |-> dotconfig],
               pc' = "verify", UNCHANGED error
        PROVE  Files'
    <3>1. image' \in Linking /\ image'.from = building
          /\ image'.config = dotconfig
      BY Zenon, <1>0, <2>0, <2>2, PipelineAssumption DEF Linking, Files
    <3> QED BY Zenon, <2>0, <2>2, <3>1 DEF Files, AdmittedBuild, RamCode
  <2>3. CASE Ends("link")
    BY <2>0, <2>3, EndsPlainly, NoCodeIsAdmitted
  <2> QED BY ZenonT(60), <1>6, <2>1, <2>2, <2>3 DEF Link
<1>7. CASE Verify
  <2> DEFINE checks == ReportChecks(Plan, Elf)
  <2>0. /\ pc = "verify" /\ error = "OK" /\ plan # None /\ Plan = PlanOf(plan)
        /\ UNCHANGED <<outputs, dotconfig, plan, image, building>>
        /\ Plan' = Plan /\ Elf' = Elf
    <3>1. /\ pc = "verify"
          /\ UNCHANGED <<outputs, dotconfig, plan, image, building>>
      BY Zenon, <1>7 DEF Verify
    <3>2. plan = [deployment |-> building, config |-> dotconfig]
          /\ dotconfig \in Dotconfig /\ error = "OK"
      BY Zenon, <3>1 DEF Files
    <3>3. plan \in MadeFrom
      BY ONLY <1>0, <3>2 DEF MadeFrom
    <3>4. plan # None
      BY Zenon, <3>3, NoneAssumption
    <3> QED BY Zenon, <3>1, <3>2, <3>4 DEF Plan, Elf
  <2>1. CASE verify_error(Plan, Elf) # "OK"
    <3>1. Ends(verify_error(Plan, Elf))
      BY SMTT(30), <2>1, <1>7 DEF Verify
    <3> QED BY ZenonT(60), <2>0, <3>1, EndsPlainly, VerifyErrors
  <2>2. CASE verify_error(Plan, Elf) = "OK" /\ Failed(checks) # {}
    <3>1. Ends(first_failed(checks))
      BY Zenon, <2>2, <1>7 DEF Verify, VerifyEnds
    <3>2. first_failed(checks) \in CheckCodes
      <4>1. Plan.checks \in Seq(Row)
        BY Zenon, <2>0, PlanHas
      <4>2. checks \in Seq(Row)
        BY Zenon, <4>1, ReportChecksAre
      <4> QED BY Zenon, <2>2, <4>2, ReportedCode
    <3>3. pc' = "idle" /\ error' # "admitted"
      BY <3>1, <3>2, NoCodeIsAdmitted DEF Ends
    <3>4. Plan.passed
      BY Zenon, <2>0 DEF Files
    <3> QED BY Zenon, <2>0, <3>3, <3>4 DEF Files, AdmittedBuild
  <2>3. CASE verify_error(Plan, Elf) = "OK" /\ Failed(checks) = {}
    <3>1. /\ pc' = "admit" /\ UNCHANGED error
          /\ report' = [plan |-> plan, image |-> image,
                        passed |-> ~(Failed(checks) # {})]
      BY Zenon, <2>3, <1>7 DEF Verify, VerifyEnds
    <3>2. report' = [plan |-> plan, image |-> image, passed |-> TRUE]
      BY ZenonT(60), <3>1, <2>3
    <3>3. Failed(ReportChecks(Plan, Elf)')= {}
      BY <2>0, <2>3
    <3> QED BY ZenonT(60), <2>0, <3>1, <3>2, <3>3 DEF Files, AdmittedBuild, RamCode
  <2> QED BY ZenonT(60), <2>1, <2>2, <2>3
<1>8. CASE Admit
  <2>0. /\ pc = "admit" /\ error = "OK"
        /\ UNCHANGED <<outputs, dotconfig, plan, image, report, building>>
        /\ Plan' = Plan /\ Elf' = Elf
    BY Zenon, <1>8 DEF Admit, Files, Plan, Elf
  <2>1. CASE inventory_error(Elf) # "OK"
    <3>1. Ends(inventory_error(Elf))
      BY <2>1, <1>8 DEF Admit
    <3> QED BY Zenon, <2>0, <3>1, EndsPlainly, InventoryErrors
  <2>2. CASE inventory_error(Elf) = "OK" /\ Failures(Elf, Plan) # {}
    <3>1. Ends("not admitted")
      BY ZenonT(60), <2>2, <1>8 DEF Admit
    <3> QED BY <2>0, <3>1, EndsPlainly, NoCodeIsAdmitted
  <2>3. CASE inventory_error(Elf) = "OK" /\ Failures(Elf, Plan) = {}
    <3>1. /\ Ends("admitted")
          /\ admission' = [elf |-> image.elf, admitted |-> Failures(Elf, Plan) = {}]
      BY Zenon, <2>3, <1>8 DEF Admit
    <3>2. admission' = [elf |-> image.elf, admitted |-> TRUE]
      BY ZenonT(60), <3>1, <2>3
    <3> QED BY ZenonT(60), <2>0, <2>3, <3>1, <3>2 DEF Files, AdmittedBuild, Ends, RamCode
  <2> QED BY ZenonT(60), <2>1, <2>2, <2>3
<1>9. CASE Interrupt
  BY <1>9, EndsPlainly, NoCodeIsAdmitted DEF Interrupt
<1>10. CASE Edit
  <2>1. UNCHANGED <<outputs, dotconfig, plan, image, report, admission, pc,
                    building, at, error>>
    BY Zenon, <1>10 DEF Edit
  <2> QED BY Zenon, <2>1, FilesUntouched
<1>11. CASE UNCHANGED vars
  <2>1. UNCHANGED <<outputs, dotconfig, plan, image, report, admission, pc,
                    building, at, error>>
    BY Zenon, <1>11 DEF vars
  <2> QED BY Zenon, <2>1, FilesUntouched
<1> QED BY SMTT(30), <1>1, <1>2, <1>3, <1>4, <1>5, <1>6, <1>7, <1>8, <1>9, <1>10, <1>11
           DEF Next

LEMMA AlwaysFiles == Spec => [](TypeOK /\ Files)
<1>1. Init => TypeOK /\ Files
  <2> SUFFICES ASSUME Init PROVE TypeOK /\ Files
    OBVIOUS
  <2>1. TypeOK
    BY SixOutputs, PipelineAssumption DEF Init, TypeOK, Step
  <2>2. Files
    BY Zenon DEF Init, Files, AdmittedBuild, RamCode
  <2> QED BY <2>1, <2>2
<1>2. TypeOK /\ Files /\ [Next]_vars => (TypeOK /\ Files)'
  BY Typed, FilesStep
<1> QED BY <1>1, <1>2, PTL DEF Spec

\* Every variable has its type: every file on disk is absent or was made
\* from projects and an image that exist.  A generated file is never missing
\* when a later step of the build reads it.
THEOREM TypeCorrect == Spec => []TypeOK
BY AlwaysFiles, PTL

\* From the passed plan to the admission, the six generated files, .config,
\* the plan and the image belong to one compilation, whatever earlier and
\* interrupted builds left behind and however often the project is edited.
THEOREM OneCompilation == Spec => []ConsistentBuild
<1>1. TypeOK /\ Files => ConsistentBuild
  BY ZenonT(60), SixOutputs DEF Files, ConsistentBuild
<1> QED BY <1>1, AlwaysFiles, PTL

\* When build_c6_app.sh succeeds, the report and the admission on disk are
\* about the image and the plan on disk, and both tools accept them.
THEOREM AdmissionIsReal == Spec => []AdmittedBuild
<1>1. Files => AdmittedBuild
  BY ZenonT(60) DEF Files
<1> QED BY <1>1, AlwaysFiles, PTL

LEMMA CompiledIsAccepted ==
  ASSUME NEW name \in DOMAIN Project, Compiled(name)
  PROVE  LET d == Project[name].deployment IN
         /\ Accepted(d, Project[name].capability, Project[name].backend)
         /\ DOMAIN d.endpoints = 1..Len(d.endpoints) /\ Len(d.endpoints) \in Nat
<1> DEFINE d == Project[name].deployment
<1>1. "OK" \notin CompileCodes
  BY DEF CompileCodes
<1>2. PICK S : d.endpoints \in Seq(S)
  BY Zenon, ProjectAssumption
<1>3. Accepted(d, Project[name].capability, Project[name].backend)
  BY Zenon, <1>1, <1>2, VerdictIs DEF Compiled
<1> QED BY <1>2, <1>3

LEMMA AcceptedIsPlain ==
  ASSUME NEW name \in DOMAIN Project, Compiled(name)
  PROVE  Plain(Project[name].deployment)
<1> DEFINE d == Project[name].deployment
<1>1. \A i \in DOMAIN d.endpoints : d.endpoints[i].id \in Seq(STRING)
  <2>1. d.endpoints \in Seq(EndpointRecord)
    BY Zenon, ProjectAssumption
  <2>2. \A i \in DOMAIN d.endpoints : d.endpoints[i] \in EndpointRecord
    BY <2>1
  <2>3. \A e \in EndpointRecord : e.id \in Seq(STRING)
    BY DEF EndpointRecord
  <2> QED BY Zenon, <2>2, <2>3
<1>2. \A i \in DOMAIN d.endpoints : d.endpoints[i].id \in Seq(Word)
  BY Zenon, <1>1, WordsMore
<1>3. \A i \in DOMAIN d.endpoints :
        /\ d.endpoints[i].kind \in {"publisher", "subscription"}
        /\ ~DuplicateId(d.endpoints, i)
  BY Zenon, CompiledIsAccepted, AcceptedMeans
<1> QED BY Zenon, <1>2, <1>3, CompiledIsAccepted DEF Plain

\* The generated calls ask for what was accepted.
LEMMA Unweakened ==
  ASSUME TypeOK, Files
  PROVE  NeverWeakens
<1> SUFFICES ASSUME pc = "kconfig" PROVE NeverWeakens
  BY ZenonT(60) DEF NeverWeakens
<1> DEFINE p == Project[building]
           d == p.deployment
           code == generate_source(d)
<1>1. building \in DOMAIN Project /\ Compiled(building)
  BY ZenonT(60) DEF Files, TypeOK
<1>2. /\ \A i \in DOMAIN d.endpoints :
           QosSupported(d.endpoints[i].qos, p.capability.qos)
      /\ GraphSupported(d.graph, p.capability.graph)
      /\ d.domain_id \in 0..232
      /\ DOMAIN d.endpoints = 1..Len(d.endpoints) /\ Len(d.endpoints) \in Nat
  BY ZenonT(60), <1>1, CompiledIsAccepted, AcceptedMeans
<1> HIDE DEF d, p
<1>3. Len(code.endpoints) = Len(d.endpoints)
  <2> DEFINE es == code.endpoints
  <2>1. /\ DOMAIN es = DOMAIN d.endpoints
        /\ es = [i \in DOMAIN es |-> es[i]]
    BY Zenon DEF generate_source
  <2> HIDE DEF es
  <2>2. ASSUME NEW n \in Nat, DOMAIN es = 1..n PROVE Len(es) = n
    BY ONLY <2>1, <2>2
  <2>3. Len(es) = Len(d.endpoints)
    BY Zenon, <1>2, <2>1, <2>2
  <2> QED BY Zenon, <2>3 DEF es
<1>4. ASSUME NEW i \in DOMAIN d.endpoints
      PROVE  LET asked == d.endpoints[i].qos
                 given == code.endpoints[i].qos IN
             /\ given.depth = asked.depth
             /\ asked.depth <= p.capability.qos.depth.maximum
             /\ \A policy \in {"reliability", "durability", "history"} :
                  /\ given[policy][2] = asked[policy]
                  /\ asked[policy] \in p.capability.qos[policy]
  <2> DEFINE asked == d.endpoints[i].qos
             given == code.endpoints[i].qos
  <2>1. given = qos_initializer(d.endpoints[i])
    BY DEF generate_source
  <2>2. QosSupported(asked, p.capability.qos)
    BY <1>2
  <2> HIDE DEF given, code
  <2>3. /\ given.depth = asked.depth
        /\ \A policy \in {"reliability", "durability", "history"} :
             given[policy][2] = asked[policy]
    BY <2>1 DEF qos_initializer
  <2>4. /\ asked.depth <= p.capability.qos.depth.maximum
        /\ \A policy \in {"reliability", "durability", "history"} :
             asked[policy] \in p.capability.qos[policy]
    BY <2>2 DEF QosSupported
  <2> QED BY Zenon, <2>3, <2>4 DEF given
<1>5. /\ d.graph.inbound => p.capability.graph.inbound
      /\ d.graph.outbound => p.capability.graph.outbound
      /\ Range(d.graph.api) \subseteq p.capability.graph.api
  BY <1>2 DEF GraphSupported
<1>6. generate_config(d, p.backend).domain_id \in DomainIds
  BY Zenon, <1>2 DEF generate_config, DomainIds
<1>7. /\ code.handles = Cardinality(DOMAIN code.added)
      /\ \A i \in DOMAIN d.endpoints :
           d.endpoints[i].kind = "subscription" <=>
             /\ i \in DOMAIN code.added
             /\ code.added[i] = code.endpoints[i].field
  BY Zenon DEF generate_source, Subscriptions
<1> QED BY ZenonT(60), <1>3, <1>4, <1>5, <1>6, <1>7 DEF NeverWeakens, d, p

\* The plan that an image is judged by has the numbers of its description.
LEMMA Budgeted ==
  ASSUME TypeOK, Files
  PROVE  BudgetKept
<1> SUFFICES ASSUME pc \in {"link", "verify", "admit"} PROVE BudgetKept
  BY Zenon DEF BudgetKept
<1>1. plan = [deployment |-> building, config |-> dotconfig]
  BY Zenon DEF Files
<1>2. plan \in MadeFrom
  <2>1. dotconfig \in Dotconfig /\ building \in DOMAIN Project
    BY Zenon DEF Files, TypeOK
  <2> QED BY SMTT(30), <1>1, <2>1 DEF MadeFrom
<1>3. Plan = PlanOf(plan)
  BY <1>2, NoneAssumption DEF Plan
<1>4. plan.deployment = building
  BY <1>1
<1> QED BY ZenonT(60), <1>3, <1>4, PlanHas DEF BudgetKept

\* What is built is what was described.  For every description that
\* compile_deployment.py accepts, the fields of the context have distinct names
\* exactly if no endpoint's id is another one's with a suffix of
\* generate_header; no QoS, graph requirement or subscription is weakened or
\* lost; and the image is judged by the description's budget and reserve.
THEOREM NothingWeakened == Spec => []GeneratedAsDescribed
<1>1. TypeOK /\ Files => ContextFieldsDistinct
  BY Zenon, AcceptedIsPlain, DistinctFields DEF ContextFieldsDistinct, Files, TypeOK
<1>2. TypeOK /\ Files => GeneratedAsDescribed
  BY <1>1, Unweakened, Budgeted DEF GeneratedAsDescribed
<1> QED BY <1>2, AlwaysFiles, PTL

\* The plan on disk and the numbers in it.
LEMMA PlanNumbers ==
  ASSUME TypeOK, Files, plan # None
  PROVE  /\ plan \in MadeFrom /\ Plan = PlanOf(plan)
         /\ plan.deployment \in DOMAIN Project
         /\ plan.config.user \in DOMAIN Project
         /\ Plan.checks \in Seq(Row)
         /\ Plan.budget.ram_bytes \in Int /\ Plan.reserve \in Int
<1>1. plan \in MadeFrom /\ Plan = PlanOf(plan)
  BY DEF TypeOK, Plan
<1>2. plan.deployment \in DOMAIN Project /\ plan.config.user \in DOMAIN Project
  BY <1>1 DEF MadeFrom, Dotconfig
<1>3. /\ Plan.checks \in Seq(Row)
      /\ Plan.budget
           = Project[plan.deployment].deployment.resources.targets[Target]
      /\ Plan.reserve
           = Project[plan.deployment].deployment.resources.application
  BY ZenonT(60), <1>1, PlanHas
<1>4. Target \in DOMAIN Project[plan.deployment].deployment.resources.targets
  BY Zenon DEF Files
<1>5. /\ Project[plan.deployment].deployment.resources.application \in Int
      /\ Project[plan.deployment].deployment.resources.targets[Target].ram_bytes
           \in Int
  BY ZenonT(60), <1>2, <1>4, ProjectAssumption
<1> QED BY ZenonT(60), <1>1, <1>2, <1>3, <1>5

LEMMA ReserveKept == TypeOK /\ Files => ReserveFits
<1> SUFFICES ASSUME TypeOK, Files, pc = "link", NEW img \in Layout,
                    Linked(img), RamRegion(img.regions) # None,
                    Failed(ReportChecks(Plan, img)) = {},
                    NEW s \in img.sections,
                    s.alloc, StartsIn(s, RamRegion(img.regions))
             PROVE  s.address + s.size + Plan.reserve
                      <= RamRegion(img.regions).origin
                         + RamRegion(img.regions).length
  BY Zenon DEF ReserveFits
<1> Measurable(img)
  BY Zenon, LayoutAssumption
<1> DEFINE region == RamRegion(img.regions)
           bytes == Plan.budget.ram_bytes
<1>1. plan # None
  <2>1. plan \in MadeFrom
    <3>1. /\ plan = [deployment |-> building, config |-> dotconfig]
          /\ dotconfig \in Dotconfig /\ building \in DOMAIN Project
      BY Zenon DEF Files, TypeOK
    <3> QED BY SMTT(30), <3>1 DEF MadeFrom
  <2> QED BY <2>1, NoneAssumption
<1>2. /\ Plan.checks \in Seq(Row)
      /\ bytes \in Int /\ Plan.reserve \in Int
  BY Zenon, <1>1, PlanNumbers
<1>3. Passed(LinkedRam(Plan, img), bytes) /\ Passed(bytes, region.length)
  <2>1. \A i \in DOMAIN ReportChecks(Plan, img) : ReportChecks(Plan, img)[i].passed
    BY Zenon DEF Failed
  <2> QED BY ZenonT(60), <1>2, <2>1, ReportChecksAre
<1>4. static_ram_bytes(img) + Plan.reserve <= region.length
  <2>1. \E r \in DOMAIN img.regions : region = img.regions[r]
    BY SMTT(30) DEF RamRegion
  <2>2. region.length \in Nat
    BY SMTT(30), <2>1, MeasuresAre
  <2>3. static_ram_bytes(img) + Plan.reserve <= bytes /\ bytes <= region.length
    BY Zenon, <1>3 DEF Passed, LinkedRam
  <2>4. static_ram_bytes(img) \in Nat
    BY Zenon, StaticRam
  <2> HIDE DEF bytes, region
  <2> QED BY ONLY <1>2, <2>2, <2>3, <2>4
<1>5. s.address \in Nat /\ s.size \in Nat
  BY MeasuresAre
<1>6. CASE "sram0_0_seg" \in DOMAIN img.regions
  <2>1. region = img.regions["sram0_0_seg"]
    BY <1>6 DEF RamRegion
  <2>2. img.hpcore
    BY <1>6 DEF Linked
  <2>3. /\ region.origin \in Nat /\ region.length \in Nat
        /\ physical_span(img.sections, region) \in Nat
        /\ s.address + s.size
             <= region.origin + physical_span(img.sections, region)
    BY Zenon, <1>6, <2>1, MeasuresAre, SpanIs
  <2>4. "lp_ram_seg" \in DOMAIN img.regions =>
          physical_span(img.sections, img.regions["lp_ram_seg"]) \in Nat
    BY Zenon, SpanIs
  <2>5. static_ram_bytes(img)
          = physical_span(img.sections, region)
            + (IF "lp_ram_seg" \in DOMAIN img.regions
               THEN physical_span(img.sections, img.regions["lp_ram_seg"]) ELSE 0)
    BY ZenonT(60), <1>6, <2>1, <2>2 DEF static_ram_bytes
  <2> HIDE DEF region
  <2>6. static_ram_bytes(img) >= physical_span(img.sections, region)
    BY <2>3, <2>4, <2>5
  <2>7. s.address + s.size + Plan.reserve <= region.origin + region.length
    <3>1. static_ram_bytes(img) \in Nat
      BY Zenon, StaticRam
    <3> QED BY ONLY <1>2, <1>4, <1>5, <2>3, <2>6, <3>1
  <2> QED BY Zenon, <2>7 DEF region
<1>7. CASE "sram0_0_seg" \notin DOMAIN img.regions
  <2>1. "dram0_0_seg" \in DOMAIN img.regions
        /\ region = img.regions["dram0_0_seg"]
    BY <1>7 DEF RamRegion
  <2>2. ~Crosses(s, region)
    BY Zenon, <2>1 DEF Linked
  <2>3. /\ region.origin \in Nat /\ region.length \in Nat
        /\ s.address + s.size
             <= region.origin + region_usage(img.sections, region)
    BY Zenon, <2>1, <2>2, MeasuresAre, SpanIs
  <2>4. static_ram_bytes(img) = region_usage(img.sections, region)
    BY ZenonT(60), <1>7, <2>1 DEF static_ram_bytes
  <2> HIDE DEF region
  <2>5. s.address + s.size + Plan.reserve <= region.origin + region.length
    <3>1. static_ram_bytes(img) \in Nat
      BY Zenon, StaticRam
    <3> QED BY ONLY <1>2, <1>4, <1>5, <2>3, <2>4, <3>1
  <2> QED BY Zenon, <2>5 DEF region
<1> QED BY Zenon, <1>6, <1>7

\* What .config places in RAM is a number.
LEMMA ReservationsType ==
  ASSUME NEW name \in DOMAIN Project, NEW backend, NEW workers \in Int
  PROVE  configured_reservations(Project[name].config, backend, workers) \in Int
<1> DEFINE config == Project[name].config
<1>1. \A key : integer_config(config, key) \in Int \cup {None}
  BY ProjectAssumption DEF integer_config
<1>2. \A n \in Int \cup {None} : OrZero(n) \in Int /\ NonNegative(n) \in Int
  BY NoneAssumption DEF OrZero, NonNegative
<1> DEFINE value(key) == OrZero(integer_config(config, key))
           arena == NonNegative(integer_config(config,
                                  "COMMON_LIBC_MALLOC_ARENA_SIZE"))
           pool == IF backend = "rmw_cyclonedds_c"
                   THEN workers * value("CYCLONEDDS_THREAD_STACK_SIZE") ELSE 0
<1>3. (\A key : value(key) \in Int) /\ arena \in Int
  BY Zenon, <1>1, <1>2
<1>4. configured_reservations(config, backend, workers)
        = value("MAIN_STACK_SIZE") + value("IDLE_STACK_SIZE")
          + value("SYSTEM_WORKQUEUE_STACK_SIZE") + pool
          + value("HEAP_MEM_POOL_SIZE") + arena
  BY DEF configured_reservations
<1> HIDE DEF value, arena, config
<1>5. pool \in Int
  BY <1>3
<1> HIDE DEF pool
<1>6. configured_reservations(config, backend, workers) \in Int
  BY <1>3, <1>4, <1>5
<1> QED BY Zenon, <1>6 DEF config

LEMMA RejectionKept == TypeOK /\ Files => RamRejectionIsFinal
<1> SUFFICES ASSUME TypeOK, Files, error = RamCode, ~Plan.passed,
                    NEW img \in Layout,
                    static_ram_bytes(img) >= Placed(plan),
                    Passed(LinkedRam(Plan, img), Plan.budget.ram_bytes)
             PROVE  FALSE
  BY Zenon DEF RamRejectionIsFinal, RamCode
<1> Measurable(img)
  BY ZenonT(60), LayoutAssumption
<1> DEFINE dp == DeploymentPlan(plan.deployment)
           config == Project[plan.config.user].config
           workers == configured_workers(dp, config)
           checks == PlanChecks(dp, config, Plan.budget)
<1>1. plan # None /\ first_failed(Plan.checks) = RamCode
  BY Zenon DEF Files
<1>2. /\ plan.deployment \in DOMAIN Project /\ plan.config.user \in DOMAIN Project
      /\ Plan.budget.ram_bytes \in Int /\ Plan.reserve \in Int
      /\ Plan = PlanOf(plan)
  BY Zenon, <1>1, PlanNumbers
<1>3. /\ Plan.checks = checks /\ Failed(checks) # {}
      /\ Plan.reserve = dp.deployment.resources.application
  BY Zenon, <1>2, PlanHas DEF DeploymentPlan
<1>4. PICK i \in 1..9 : /\ ~checks[i].passed /\ checks[i].code = RamCode
                        /\ \A j \in 1..9 : ~checks[j].passed => i <= j
  <2>1. DOMAIN checks = 1..9 /\ 9 \in Nat
    <3> HIDE DEF dp, config
    <3> QED BY ONLY PlanChecksAre
  <2> QED BY ZenonT(60), <1>1, <1>3, <2>1, FirstFailedIs
<1>5. \A j \in 1..8 : checks[j].code # RamCode
  <2> HIDE DEF dp, config
  <2> QED BY ONLY PlanChecksAre
<1>6. i = 9 /\ checks[7].passed
  <2> HIDE DEF checks
  <2>1. i = 9
    BY <1>4, <1>5
  <2>2. 7 \in 1..9 /\ ~(i <= 7)
    BY <2>1
  <2> QED BY Zenon, <1>4, <2>1, <2>2
<1>7. ~Passed(known_ram(dp, config), Plan.budget.ram_bytes)
      /\ Passed(dp.capability.workers, workers)
  BY ZenonT(60), <1>4, <1>6, PlanChecksAre
<1>8. dp.capability.workers \in Nat
  BY Zenon, <1>2, ProjectAssumption DEF DeploymentPlan
<1>9. workers \in Int /\ workers # None /\ dp.capability.workers <= workers
  <2>1. \A key : integer_config(config, key) \in Int \cup {None}
    BY Zenon, <1>2, ProjectAssumption DEF integer_config
  <2>2. workers \in Int \cup {None}
    BY SMTT(30), <1>8, <2>1 DEF configured_workers
  <2> QED BY Zenon, <1>7, <2>2 DEF Passed
<1>10. PlannedWorkers(dp, config) = OrZero(workers) /\ OrZero(workers) = workers
  BY SMTT(30), <1>8, <1>9 DEF PlannedWorkers, OrZero
<1> DEFINE R == configured_reservations(config, dp.backend, workers)
<1>11. R \in Int
  BY Zenon, <1>2, <1>9, ReservationsType
<1>12. Placed(plan) = R
       /\ known_ram(dp, config) = R + Plan.reserve
  BY ZenonT(60), <1>3, <1>10 DEF Placed, known_ram
<1> HIDE DEF R, dp, config
<1>13. ~(R + Plan.reserve <= Plan.budget.ram_bytes)
  BY Zenon, <1>2, <1>7, <1>12, NoneAssumption DEF Passed
<1>14. static_ram_bytes(img) + Plan.reserve <= Plan.budget.ram_bytes
  BY DEF Passed, LinkedRam
<1>15. static_ram_bytes(img) \in Int /\ static_ram_bytes(img) >= R
  BY <1>12, StaticRam
<1> QED BY <1>2, <1>11, <1>13, <1>14, <1>15

\* The verdicts on RAM are right, for every image: one that passes leaves the
\* application's reserve free at the end of the region, and a plan rejected
\* for its RAM had no image that could pass.
THEOREM RamVerdicts == Spec => []RamVerdictsRight
<1>1. TypeOK /\ Files => RamVerdictsRight
  BY ReserveKept, RejectionKept DEF RamVerdictsRight
<1> QED BY <1>1, AlwaysFiles, PTL

\* An admitted image fits, for every image: each thread has its execution
\* budget and the margin wherever the copy of its TLS image starts, and the
\* application has its reserve of RAM behind the sections and the heap.
THEOREM AdmittedFits == Spec => []AdmittedImageFits
<1>1. \A img \in Layout : Measurable(img)
  BY Zenon, LayoutAssumption
<1>2. AdmittedStacksFit
  BY Zenon, <1>1, StacksKept DEF AdmittedStacksFit
<1>3. AdmittedReserveFree
  BY Zenon, <1>1, ReserveLeft DEF AdmittedReserveFree
<1>4. AdmittedImageFits
  BY Zenon, <1>2, <1>3 DEF AdmittedImageFits
<1> QED BY <1>4, PTL

=============================================================================
