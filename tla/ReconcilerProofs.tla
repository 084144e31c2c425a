--------------------------- MODULE ReconcilerProofs --------------------------
(***************************************************************************)
(* Proofs about Reconciler for every set of VirtualDatabases, every set of *)
(* user specs and every value of the bounds.                               *)
(***************************************************************************)
EXTENDS Reconciler, SequenceTheorems, TLAPS

(* Types of what the handlers and the life cycle compute.                   *)

\* the digest of a source is a digest
LEMMA DigestType ==
    ASSUME NEW s \in VdbSpec
    PROVE  ComputeForVirtualDatabase(s) \in Digest
<1>1. s.ddl \in Seq(Nat) /\ s.maven \in Seq(Nat) /\ s.openapi \in Seq(Nat)
  BY VdbAssumption DEF VdbSpec
<1>2. OperatorVersion \in Seq(Nat)
  BY DEF OperatorVersion
<1>. QED
  BY <1>1, <1>2 DEF ComputeForVirtualDatabase, Digest

\* the parts of a resource
LEMMA VdbParts ==
    ASSUME NEW t \in Vdb
    PROVE  /\ t.spec \in VdbSpec
           /\ t.status \in VdbStatus
           /\ t.status.version \in Version
           /\ t.status.failure \in Failures
           /\ t.status.cacheStore \in BOOLEAN
           /\ t.status.route \in BOOLEAN
BY DEF Vdb, VdbStatus

\* a resource as its user creates it
LEMMA NewVdbType ==
    ASSUME NEW s \in VdbSpec
    PROVE  NewVdb(s) \in Vdb
<1>1. Initial \in Phases /\ "" \in Failures
  BY DEF Phases, Failures
<1>2. <<>> \in Digest
  BY DEF Digest
<1>3. NoVersion \in Version
  BY DEF Version, NoVersion
<1>. QED
  BY <1>1, <1>2, <1>3, VdbAssumption DEF NewVdb, Vdb, VdbStatus

\* replacing the spec or the status of a resource
LEMMA WithPart ==
    ASSUME NEW t \in Vdb
    PROVE  /\ \A u \in VdbStatus : [t EXCEPT !.status = u] \in Vdb
           /\ \A s \in VdbSpec : [t EXCEPT !.spec = s] \in Vdb
BY DEF Vdb

\* moving a resource to another phase
LEMMA InPhaseType ==
    ASSUME NEW t \in Vdb, NEW p \in Phases
    PROVE  InPhase(t, p) \in Vdb
BY DEF InPhase, Vdb, VdbStatus

\* recording a failure
LEMMA FailureType ==
    ASSUME NEW t \in Vdb, NEW f \in Failures
    PROVE  [t EXCEPT !.status.failure = f] \in Vdb
BY DEF Vdb, VdbStatus

\* recording the digest of the configuration
LEMMA ConfigDigestType ==
    ASSUME NEW t \in Vdb, NEW c \in ConfigDigests
    PROVE  [t EXCEPT !.status.configDigest = c] \in Vdb
BY DEF Vdb, VdbStatus

\* recording the cache store
LEMMA CacheStoreType ==
    ASSUME NEW t \in Vdb, NEW c \in BOOLEAN
    PROVE  [t EXCEPT !.status.cacheStore = c] \in Vdb
BY DEF Vdb, VdbStatus

\* recording the route
LEMMA RouteType ==
    ASSUME NEW t \in Vdb
    PROVE  [t EXCEPT !.status.route = TRUE] \in Vdb
BY DEF Vdb, VdbStatus

\* redeploying a resource
LEMMA RedeployType ==
    ASSUME NEW t \in Vdb
    PROVE  RedeployVdb(t) \in Vdb
<1>1. ComputeForVirtualDatabase(t.spec) \in Digest
  BY DigestType, VdbParts
<1>2. Initial \in Phases
  BY DEF Phases
<1>. DEFINE w == IF ImplicitVersion(t) /\ IsNumeral(t.status.version)
                 THEN t.status.version + 1 ELSE t.status.version
            u == [t.status EXCEPT !.phase = Initial,
                                  !.digest = ComputeForVirtualDatabase(t.spec),
                                  !.version = w]
<1>3. w \in Version
  BY VdbParts DEF Version, IsNumeral
<1>. HIDE DEF w
<1>4. u \in VdbStatus
  BY <1>1, <1>2, <1>3 DEF Vdb, VdbStatus
<1>5. RedeployVdb(t) = [t EXCEPT !.status = u]
  BY DEF RedeployVdb, Vdb, VdbStatus, w
<1>. QED
  BY <1>4, <1>5, WithPart

\* initializing a resource
LEMMA InitializedType ==
    ASSUME NEW t \in Vdb, NEW c \in ConfigDigests
    PROVE  Initialized(t, c) \in Vdb
<1>1. ComputeForVirtualDatabase(t.spec) \in Digest
  BY DigestType, VdbParts
<1>2. CreateCacheStore \in Phases /\ "" \in Failures
  BY DEF Phases, Failures
<1>. DEFINE implicit == IF ImplicitVersion(t) /\ t.status.version = NoVersion
                        THEN 1 ELSE t.status.version
            w == IF t.spec.maven # <<>> /\ GavVersion[t.spec.maven] # NoVersion
                 THEN GavVersion[t.spec.maven] ELSE implicit
            n == IF t.spec.replicas = NoReplicas THEN 1 ELSE t.spec.replicas
            s == [t.spec EXCEPT !.replicas = n]
            u == [t.status EXCEPT !.version = w]
            x == [u EXCEPT !.failure = "", !.phase = CreateCacheStore,
                           !.digest = ComputeForVirtualDatabase(t.spec),
                           !.configDigest = c]
<1>3. t.spec.maven \in Text
  BY VdbParts DEF VdbSpec
<1>4. w \in Version
  BY <1>3, VdbAssumption, VdbParts DEF Version
<1>5. n \in {NoReplicas} \cup Nat
  BY VdbParts DEF VdbSpec
<1>6. InitVdb(t) = [t EXCEPT !.spec = s, !.status = u]
  BY DEF InitVdb, Vdb, VdbSpec, VdbStatus
<1>. HIDE DEF w, n
<1>7. s \in VdbSpec
  BY <1>5, VdbParts DEF VdbSpec
<1>8. u \in VdbStatus
  BY <1>4, VdbParts DEF VdbStatus
<1>. HIDE DEF s, u
<1>9. x \in VdbStatus
  BY <1>1, <1>2, <1>8 DEF VdbStatus
<1>10. Initialized(t, c) = [InitVdb(t) EXCEPT !.status = x]
  BY <1>6, <1>8 DEF Initialized, Vdb, VdbStatus
<1>11. InitVdb(t) \in Vdb
  BY <1>6, <1>7, <1>8 DEF Vdb
<1>. QED
  BY <1>9, <1>10, <1>11, WithPart

-----------------------------------------------------------------------------
(* What every handler returns is a resource and an error.                   *)

\* the result of a handler is its target and whether it failed
LEMMA ReturnType ==
    ASSUME NEW t \in Vdb
    PROVE  Return(t) \in Outcome /\ Fail(t) \in Outcome
BY DEF Return, Fail, Outcome

\* the results of initializeAction.Handle are resources
LEMMA InitializeType ==
    ASSUME NEW t \in Vdb
    PROVE  InitializeOutcomes(t) \subseteq Outcome
<1>1. \A f \in Failures : /\ Return([t EXCEPT !.status.failure = f]) \in Outcome
                          /\ Fail([t EXCEPT !.status.failure = f]) \in Outcome
  BY FailureType, ReturnType
<1>2. \A c \in ConfigDigests :
         [target |-> Initialized(t, c), err |-> c = NoConfigDigest] \in Outcome
  BY InitializedType DEF Outcome
<1>3. "env" \in Failures /\ "config" \in Failures
  BY DEF Failures
<1>. QED
  BY <1>1, <1>2, <1>3 DEF InitializeOutcomes, ConfigMissing, ConfigRead

\* the results of cacheStoreAction.Handle are resources
LEMMA CacheStoreOutcomesType ==
    ASSUME NEW t \in Vdb
    PROVE  CacheStoreOutcomes(t) \subseteq Outcome
<1>1. S2IReady \in Phases
  BY DEF Phases
<1>2. \A c \in BOOLEAN :
         Return(InPhase([t EXCEPT !.status.cacheStore = c], S2IReady)) \in Outcome
  BY <1>1, CacheStoreType, InPhaseType, ReturnType
<1>3. {t.status.cacheStore, t.status.cacheStore \/ "infinispan" \in Conditions}
         \subseteq BOOLEAN
  BY VdbParts
<1>. QED
  BY <1>2, <1>3 DEF CacheStoreOutcomes

\* the results of s2iBuilderImageAction.Handle are resources
LEMMA S2IBuilderImageType ==
    ASSUME NEW t \in Vdb
    PROVE  S2IBuilderImageOutcomes(t) \subseteq Outcome
<1>1. {BuilderImage, BuilderImageFinished, BuilderImageFailed} \subseteq Phases
  BY DEF Phases
<1>. QED
  BY <1>1, InPhaseType, ReturnType DEF S2IBuilderImageOutcomes

\* the results of serviceImageAction.Handle are resources
LEMMA ServiceImageType ==
    ASSUME NEW t \in Vdb
    PROVE  ServiceImageOutcomes(t) \subseteq Outcome
<1>1. {ServiceImage, ServiceImageFinished, ServiceImageFailed, Error} \subseteq Phases
  BY DEF Phases
<1>2. [t EXCEPT !.status.failure = "build"] \in Vdb
  BY FailureType DEF Failures
<1>. QED
  BY <1>1, <1>2, InPhaseType, ReturnType DEF ServiceImageOutcomes

\* the results of createServiceAction.Handle are resources
LEMMA CreateServiceType ==
    ASSUME NEW t \in Vdb
    PROVE  CreateServiceOutcomes(t) \subseteq Outcome
<1>. DEFINE tried == {t} \cup {[t EXCEPT !.status.failure = f] :
                                  f \in IF "expose fails" \in Conditions
                                        THEN {"expose"} ELSE {}}
            routed == {[u EXCEPT !.status.route = TRUE] : u \in tried}
<1>1. ServiceCreated \in Phases /\ "expose" \in Failures
  BY DEF Phases, Failures
<1>2. tried \subseteq Vdb
  BY <1>1, FailureType
<1>. HIDE DEF tried
<1>3. routed \subseteq Vdb
  BY <1>2, RouteType
<1>. HIDE DEF routed
<1>4. \A u \in tried \cup routed : Return(InPhase(u, ServiceCreated)) \in Outcome
  BY <1>1, <1>2, <1>3, InPhaseType, ReturnType
<1>. QED
  BY <1>4 DEF CreateServiceOutcomes, Exposed, tried, routed

\* the results of createCertificateAction.Handle are resources
LEMMA CreateCertificateType ==
    ASSUME NEW t \in Vdb
    PROVE  CreateCertificateOutcomes(t) \subseteq Outcome
<1>1. KeystoreCreated \in Phases
  BY DEF Phases
<1>. QED
  BY <1>1, InPhaseType, ReturnType DEF CreateCertificateOutcomes

\* the results of deploymentAction.Handle are resources
LEMMA DeploymentType ==
    ASSUME NEW t \in Vdb,
           CanHandle("Deployment", t.status.phase)
    PROVE  DeploymentOutcomes(t) \subseteq Outcome
<1>1. {Deploying, Running, Error} \subseteq Phases
  BY DEF Phases
<1>2. Redigested(t) \subseteq Vdb
  BY ConfigDigestType DEF Redigested
<1>3. t.status.phase \in {KeystoreCreated, Deploying, Running}
  BY DEF CanHandle
<1>4. CASE t.status.phase = KeystoreCreated
  <2>1. DeploymentOutcomes(t) = {Return(InPhase(t, Deploying)), Fail(t)}
    BY <1>4 DEF DeploymentOutcomes, KeystoreCreated, Deploying, Running
  <2>. QED
    BY <1>1, <2>1, InPhaseType, ReturnType
<1>5. CASE t.status.phase = Deploying
  <2>1. DeploymentOutcomes(t) =
           {Return(InPhase(t, p)) : p \in {Deploying, Running, Error}}
    BY <1>5 DEF DeploymentOutcomes, KeystoreCreated, Deploying, Running
  <2>. QED
    BY <1>1, <2>1, InPhaseType, ReturnType
<1>6. CASE t.status.phase = Running
  <2>1. DeploymentOutcomes(t) = {Return(u) : u \in Redigested(t)} \cup
                                {Fail(u) : u \in Redigested(t)}
    BY <1>6 DEF DeploymentOutcomes, KeystoreCreated, Deploying, Running
  <2>. QED
    BY <1>2, <2>1, ReturnType
<1>. QED
  BY <1>3, <1>4, <1>5, <1>6

\* the results of prometheusMonitorAction.Handle are resources
LEMMA PrometheusMonitorType ==
    ASSUME NEW t \in Vdb
    PROVE  PrometheusMonitorOutcomes(t) \subseteq Outcome
BY ReturnType DEF PrometheusMonitorOutcomes

-----------------------------------------------------------------------------
(* Type correctness.                                                        *)

\* the handler about to run is one that can handle the phase
HandlesPhase ==
    worker.pc = "handle" =>
        CanHandle(BuildSteps[worker.step], worker.inst.obj.status.phase)

TypeInv == TypeOK /\ HandlesPhase

\* the loop tries the actions in order: First picks one that can handle
LEMMA FirstStep ==
    ASSUME NEW i \in Nat, NEW phase, StepsFrom(i, phase) # {}
    PROVE  /\ First(StepsFrom(i, phase)) \in 1..Len(BuildSteps)
           /\ CanHandle(BuildSteps[First(StepsFrom(i, phase))], phase)
<1>. DEFINE S == StepsFrom(i, phase)
<1>1. Len(BuildSteps) = 8
  BY DEF BuildSteps
<1>2. S \subseteq 1..8 /\ S # {}
  BY <1>1 DEF StepsFrom
<1>. HIDE DEF S
<1>3. \E m \in S : \A j \in S : m <= j
  <2>1. PICK x \in S : x \in 1..8
    BY <1>2
  <2>2. \/ 1 \in S \/ 2 \in S \/ 3 \in S \/ 4 \in S
        \/ 5 \in S \/ 6 \in S \/ 7 \in S \/ 8 \in S
    BY <2>1
  <2>. QED
    BY <1>2, <2>2, Z3T(60)
<1>4. First(S) \in S
  BY <1>3 DEF First
<1>. QED
  BY <1>4 DEF S, StepsFrom

\* a worker that is not idle holds a name, a copy and a target
LEMMA WorkerBusy ==
    ASSUME TypeOK, worker.pc # "idle"
    PROVE  /\ worker \in Busy
           /\ worker.key \in VDBs
           /\ worker.inst \in Stored
           /\ worker.inst.obj \in Vdb
           /\ worker.target \in Vdb
BY DEF TypeOK, Busy, Idle, Stored

\* spending a bound keeps the counters counters
LEMMA SpendType ==
    ASSUME TypeOK, NEW b \in DOMAIN Limits, Spend(b)
    PROVE  spent' \in [DOMAIN Limits -> Nat]
<1>. DEFINE D == DOMAIN Limits
<1>1. spent \in [D -> Nat] /\ b \in D
  BY DEF TypeOK
<1>2. spent' = [spent EXCEPT ![b] = @ + 1]
  BY DEF Spend
<1>. HIDE DEF D
<1>3. spent' \in [D -> Nat]
  BY <1>1, <1>2
<1>. QED
  BY <1>3 DEF D

\* the variables a write changes
KubeOK == /\ store \in [VDBs -> Stored \cup {NoVdb}]
          /\ rev \in [VDBs -> Nat]
          /\ watch \in [VDBs -> Seq(Stored \cup {NoVdb})]

\* a write of the API server stores, counts and announces a version
LEMMA WriteType ==
    ASSUME TypeOK, NEW v \in VDBs, NEW s \in Stored \cup {NoVdb}, Write(v, s)
    PROVE  KubeOK'
<1>1. watch[v] \in Seq(Stored \cup {NoVdb})
  BY DEF TypeOK
<1>2. Append(watch[v], s) \in Seq(Stored \cup {NoVdb})
  BY <1>1
<1>. QED
  BY <1>2 DEF TypeOK, Write, KubeOK

\* the next version of a stored object is a version
LEMMA NewVersionType ==
    ASSUME TypeOK, NEW v \in VDBs, store[v] # NoVdb, NEW x \in Vdb
    PROVE  NewVersion(v, x) \in Stored
BY DEF TypeOK, NewVersion, Stored

\* a user's edit of the spec keeps the API server's state well typed
LEMMA EditToType ==
    ASSUME TypeOK, NEW v \in VDBs, NEW s \in VdbSpec, UserEditTo(v, s)
    PROVE  KubeOK'
<1>1. store[v] # NoVdb /\ store[v] \in Stored
  BY DEF TypeOK, UserEditTo
<1>2. [store[v].obj EXCEPT !.spec = s] \in Vdb
  BY <1>1, WithPart DEF Stored
<1>. QED
  BY <1>1, <1>2, NewVersionType, WriteType DEF UserEditTo

\* an event leaves the cache and the work queue well typed
LEMMA SeeType ==
    ASSUME TypeOK, NEW v \in VDBs, NEW s \in Stored \cup {NoVdb}, See(v, s)
    PROVE  cache' \in [VDBs -> Stored \cup {NoVdb}] /\ queue' \subseteq VDBs
BY DEF TypeOK, See

\* a copy of a Busy record in another state of the worker
LEMMA HandledType ==
    ASSUME TypeInv, worker.pc = "handle", NEW o \in Outcome, Handled(o)
    PROVE  /\ worker' \in Busy \cup {Idle}
           /\ HandlesPhase'
           /\ delayed' \subseteq VDBs
<1>. USE DEF TypeInv
<1>. DEFINE S == StepsFrom(worker.step + 1, worker.inst.obj.status.phase)
<1>1. worker \in Busy /\ worker.key \in VDBs
  BY WorkerBusy
<1>2. o.target \in Vdb /\ o.err \in BOOLEAN
  BY DEF Outcome
<1>3. CASE o.target # worker.inst.obj
  <2>1. worker' = [worker EXCEPT !.pc = "update", !.target = o.target, !.err = o.err]
    BY <1>3 DEF Handled
  <2>2. worker' \in Busy /\ worker'.pc = "update"
    BY <1>1, <1>2, <2>1 DEF Busy
  <2>. QED
    BY <1>3, <2>2 DEF HandlesPhase, Handled, TypeOK
<1>4. CASE o.target = worker.inst.obj /\ S # {}
  <2>1. worker' = [worker EXCEPT !.step = First(S)]
    BY <1>4 DEF Handled
  <2>2. worker.step + 1 \in Nat
    BY <1>1 DEF Busy
  <2>3. First(S) \in 1..Len(BuildSteps)
        /\ CanHandle(BuildSteps[First(S)], worker.inst.obj.status.phase)
    BY <1>4, <2>2, FirstStep
  <2>. HIDE DEF S
  <2>4. worker' \in Busy /\ worker'.step = First(S) /\ worker'.inst = worker.inst
    BY <1>1, <2>1, <2>3 DEF Busy
  <2>5. HandlesPhase'
    BY <2>3, <2>4 DEF HandlesPhase
  <2>. QED
    BY <1>4, <2>4, <2>5 DEF Handled, TypeOK, S
<1>5. CASE o.target = worker.inst.obj /\ S = {}
  BY <1>1, <1>5 DEF Handled, HandlesPhase, Idle, TypeOK
<1>. QED
  BY <1>3, <1>4, <1>5

\* the operator starts in a well-typed state
LEMMA TypeInit == Init => TypeInv
<1>1. <<>> \in Seq(Stored \cup {NoVdb})
  OBVIOUS
<1>. QED
  BY <1>1 DEF Init, TypeInv, TypeOK, HandlesPhase, Idle

\* the names of the bounds
LEMMA LimitNames ==
    DOMAIN Limits = {"edits", "replaces", "faults", "crashes", "relists"}
BY DEF Limits

\* users' writes preserve the type invariant
LEMMA TypeUser ==
    ASSUME TypeInv, NEW v \in VDBs, User(v)
    PROVE  TypeInv'
<1>. USE DEF TypeInv
<1>1. /\ spent' \in [DOMAIN Limits -> Nat]
      /\ UNCHANGED <<loopVars, consoleLinks>>
  BY SpendType, LimitNames DEF User, UserCreate, UserEdit, UserEditTo, UserReplace,
     UserDelete
<1>2. KubeOK'
  <2>1. ASSUME NEW s \in UserSpecs, UserCreate(v, s)
        PROVE  KubeOK'
    <3>1. [uid |-> rev[v] + 1, rv |-> rev[v] + 1, gen |-> 1, obj |-> NewVdb(s)]
             \in Stored
      BY NewVdbType, ReconcilerAssumption DEF Stored, TypeOK
    <3>. QED
      BY <2>1, <3>1, WriteType DEF UserCreate
  <2>2. ASSUME NEW s \in UserSpecs, UserEdit(v, s)
        PROVE  KubeOK'
    <3>1. s \in VdbSpec
      BY ReconcilerAssumption
    <3>2. store[v].obj.spec.replicas \in {NoReplicas} \cup Nat
      BY <2>2 DEF UserEdit, TypeOK, Stored, Vdb, VdbSpec
    <3>3. [s EXCEPT !.replicas = store[v].obj.spec.replicas] \in VdbSpec
      BY <3>1, <3>2 DEF VdbSpec
    <3>. QED
      BY <2>2, <3>3, EditToType DEF UserEdit
  <2>3. ASSUME NEW s \in UserSpecs, UserReplace(v, s)
        PROVE  KubeOK'
    BY <2>3, EditToType, ReconcilerAssumption DEF UserReplace
  <2>4. ASSUME UserDelete(v)
        PROVE  KubeOK'
    BY <2>4, WriteType DEF UserDelete
  <2>. QED
    BY <2>1, <2>2, <2>3, <2>4 DEF User
<1>. QED
  BY <1>1, <1>2 DEF TypeOK, HandlesPhase, loopVars, KubeOK

\* events, relists and timers preserve the type invariant
LEMMA TypeWatch ==
    ASSUME TypeInv, NEW v \in VDBs,
           Deliver(v) \/ Relist(v) \/ OwnedEvent(v) \/ DelayOver(v)
    PROVE  TypeInv'
<1>. USE DEF TypeInv
<1>1. CASE Deliver(v)
  <2>1. watch[v] \in Seq(Stored \cup {NoVdb}) /\ watch[v] # <<>>
    BY <1>1 DEF Deliver, TypeOK
  <2>2. /\ Head(watch[v]) \in Stored \cup {NoVdb}
        /\ Tail(watch[v]) \in Seq(Stored \cup {NoVdb})
    BY <2>1
  <2>3. watch' \in [VDBs -> Seq(Stored \cup {NoVdb})]
    BY <1>1, <2>2 DEF Deliver, TypeOK
  <2>. QED
    BY <1>1, <2>2, <2>3, SeeType DEF Deliver, See, TypeOK, HandlesPhase
<1>2. CASE Relist(v)
  <2>1. <<>> \in Seq(Stored \cup {NoVdb})
    OBVIOUS
  <2>2. watch' \in [VDBs -> Seq(Stored \cup {NoVdb})]
    BY <1>2, <2>1 DEF Relist, TypeOK
  <2>3. spent' \in [DOMAIN Limits -> Nat]
    BY <1>2, SpendType, LimitNames DEF Relist
  <2>4. store[v] \in Stored \cup {NoVdb}
    BY DEF TypeOK
  <2>. QED
    BY <1>2, <2>2, <2>3, <2>4, SeeType DEF Relist, See, TypeOK, HandlesPhase
<1>3. CASE OwnedEvent(v)
  BY <1>3 DEF OwnedEvent, TypeOK, HandlesPhase, kubeVars
<1>4. CASE DelayOver(v)
  BY <1>4 DEF DelayOver, TypeOK, HandlesPhase, kubeVars
<1>. QED
  BY <1>1, <1>2, <1>3, <1>4

\* taking a name off the work queue preserves the type invariant
LEMMA TypeReconcile ==
    ASSUME TypeInv, NEW v \in VDBs, Reconcile(v) \/ ReconcileReadFails(v)
    PROVE  TypeInv'
<1>. USE DEF TypeInv
<1>1. /\ queue' \subseteq VDBs
      /\ UNCHANGED <<kubeVars, cache>>
  BY DEF Reconcile, ReconcileDeleted, ReconcileUpdated, ReconcileActions,
     ReconcileReadFails, Take, TypeOK
<1>2. spent' \in [DOMAIN Limits -> Nat]
  BY SpendType, LimitNames DEF Reconcile, ReconcileDeleted, ReconcileUpdated,
     ReconcileActions, ReconcileReadFails, TypeOK
<1>3. consoleLinks' \subseteq VDBs
  BY DEF Unlinked, Reconcile, ReconcileDeleted, ReconcileUpdated, ReconcileActions,
     ReconcileReadFails, TypeOK
<1>4. worker' \in Busy \cup {Idle} /\ HandlesPhase' /\ delayed' \subseteq VDBs
  <2>1. CASE ReconcileDeleted(v)
    BY <2>1 DEF ReconcileDeleted, TypeOK, HandlesPhase
  <2>2. CASE ReconcileReadFails(v)
    BY <2>2 DEF ReconcileReadFails, TypeOK, HandlesPhase
  <2>3. CASE ReconcileUpdated(v)
    <3>1. cache[v] \in Stored /\ cache[v].obj \in Vdb
      BY <2>3 DEF ReconcileUpdated, TypeOK, Stored
    <3>2. RedeployVdb(cache[v].obj) \in Vdb
      BY <3>1, RedeployType
    <3>3. 1 \in 1..Len(BuildSteps)
      BY DEF BuildSteps
    <3>4. worker' \in Busy /\ worker'.pc = "update"
      BY <2>3, <3>1, <3>2, <3>3 DEF ReconcileUpdated, Busy
    <3>. QED
      BY <2>3, <3>4 DEF ReconcileUpdated, HandlesPhase, TypeOK
  <2>4. CASE ReconcileActions(v)
    <3>. DEFINE S == StepsFrom(1, cache[v].obj.status.phase)
    <3>1. cache[v] \in Stored /\ cache[v].obj \in Vdb
      BY <2>4 DEF ReconcileActions, TypeOK, Stored
    <3>2. CASE S = {}
      BY <2>4, <3>2 DEF ReconcileActions, TypeOK, HandlesPhase
    <3>3. CASE S # {}
      <4>1. /\ First(S) \in 1..Len(BuildSteps)
            /\ CanHandle(BuildSteps[First(S)], cache[v].obj.status.phase)
        BY <3>3, FirstStep
      <4>2. worker' = [pc |-> "handle", key |-> v, inst |-> cache[v],
                       target |-> cache[v].obj, step |-> First(S), err |-> FALSE]
            /\ UNCHANGED delayed
        BY <2>4, <3>3 DEF ReconcileActions
      <4>. HIDE DEF S
      <4>3. worker' \in Busy
        BY <3>1, <4>1, <4>2 DEF Busy
      <4>. QED
        BY <4>1, <4>2, <4>3 DEF HandlesPhase, TypeOK
    <3>. QED
      BY <3>2, <3>3
  <2>. QED
    BY <2>1, <2>2, <2>3, <2>4 DEF Reconcile
<1>. QED
  BY <1>1, <1>2, <1>3, <1>4 DEF TypeOK, kubeVars

\* every handler preserves the type invariant
LEMMA TypeHandle ==
    ASSUME TypeInv, Handle
    PROVE  TypeInv'
<1>. USE DEF TypeInv
<1>. DEFINE t == worker.inst.obj
<1>1. worker.pc = "handle" /\ t \in Vdb /\ worker.key \in VDBs
  BY WorkerBusy DEF Handle, HandleInitialize, HandleCacheStore, AtStep,
     HandleS2IBuilderImage, HandleServiceImage, HandleCreateService,
     HandleCreateCertificate, HandleDeployment, HandlePrometheusMonitor
<1>2. \E o \in Outcome : Handled(o)
  <2>1. CASE HandleInitialize
    BY <1>1, <2>1, InitializeType DEF HandleInitialize
  <2>2. CASE HandleCacheStore
    BY <1>1, <2>2, CacheStoreOutcomesType DEF HandleCacheStore
  <2>3. CASE HandleS2IBuilderImage
    BY <1>1, <2>3, S2IBuilderImageType DEF HandleS2IBuilderImage
  <2>4. CASE HandleServiceImage
    BY <1>1, <2>4, ServiceImageType DEF HandleServiceImage
  <2>5. CASE HandleCreateService
    BY <1>1, <2>5, CreateServiceType DEF HandleCreateService
  <2>6. CASE HandleCreateCertificate
    BY <1>1, <2>6, CreateCertificateType DEF HandleCreateCertificate
  <2>7. CASE HandleDeployment
    <3>1. CanHandle("Deployment", t.status.phase)
      BY <1>1, <2>7 DEF HandleDeployment, AtStep, HandlesPhase
    <3>. QED
      BY <1>1, <2>7, <3>1, DeploymentType DEF HandleDeployment
  <2>8. CASE HandlePrometheusMonitor
    BY <1>1, <2>8, PrometheusMonitorType DEF HandlePrometheusMonitor
  <2>. QED
    BY <2>1, <2>2, <2>3, <2>4, <2>5, <2>6, <2>7, <2>8 DEF Handle
<1>3. consoleLinks' \subseteq VDBs
  BY <1>1 DEF Linked, TypeOK, Handle, HandleInitialize, HandleCacheStore,
     HandleS2IBuilderImage, HandleServiceImage, HandleCreateService,
     HandleCreateCertificate, HandleDeployment, HandlePrometheusMonitor
<1>4. worker' \in Busy \cup {Idle} /\ HandlesPhase' /\ delayed' \subseteq VDBs
  BY <1>1, <1>2, HandledType
<1>5. UNCHANGED <<kubeVars, cache, queue, spent>>
  BY <1>2 DEF Handled
<1>. QED
  BY <1>3, <1>4, <1>5 DEF TypeOK, kubeVars

\* the worker's write, however it ends, preserves the type invariant
LEMMA TypeUpdate ==
    ASSUME TypeInv, Update
    PROVE  TypeInv'
<1>. USE DEF TypeInv
<1>1. worker.pc = "update" /\ worker.key \in VDBs /\ worker.target \in Vdb
  BY WorkerBusy DEF Update, UpdateSucceeds, UpdateRejected, UpdateTimesOut
<1>2. KubeOK'
  <2>1. CASE UpdateSucceeds \/ UpdateTimesOut
    <3>1. NewVersion(worker.key, worker.target) \in Stored
      BY <1>1, <2>1, NewVersionType DEF UpdateSucceeds, UpdateTimesOut, NoConflict
    <3>. QED
      BY <1>1, <2>1, <3>1, WriteType DEF UpdateSucceeds, UpdateTimesOut
  <2>2. CASE UpdateRejected
    BY <2>2 DEF UpdateRejected, TypeOK, kubeVars, KubeOK
  <2>. QED
    BY <2>1, <2>2 DEF Update
<1>3. spent' \in [DOMAIN Limits -> Nat]
  BY SpendType, LimitNames DEF Update, UpdateSucceeds, UpdateRejected,
     UpdateTimesOut, TypeOK
<1>4. worker' = Idle /\ delayed' \subseteq VDBs
  BY <1>1 DEF Update, UpdateSucceeds, UpdateRejected, UpdateTimesOut, TypeOK
<1>5. UNCHANGED <<cache, queue, consoleLinks>>
  BY DEF Update, UpdateSucceeds, UpdateRejected, UpdateTimesOut
<1>. QED
  BY <1>2, <1>3, <1>4, <1>5 DEF TypeOK, HandlesPhase, Idle, KubeOK

\* a restart or a panic preserves the type invariant
LEMMA TypeRestart ==
    ASSUME TypeInv, Crash \/ HandlerPanics
    PROVE  TypeInv'
<1>. USE DEF TypeInv
<1>1. spent' \in [DOMAIN Limits -> Nat]
  BY SpendType, LimitNames DEF Crash, HandlerPanics, TypeOK
<1>2. Restart
  BY DEF Crash, HandlerPanics
<1>3. <<>> \in Seq(Stored \cup {NoVdb})
  OBVIOUS
<1>4. watch' \in [VDBs -> Seq(Stored \cup {NoVdb})]
  BY <1>2, <1>3 DEF Restart
<1>. QED
  BY <1>1, <1>2, <1>4 DEF Restart, TypeOK, HandlesPhase, Idle

\* every step of the loop keeps the types
LEMMA TypeStep == TypeInv /\ [Next]_vars => TypeInv'
<1>. SUFFICES ASSUME TypeInv, [Next]_vars PROVE TypeInv'
  OBVIOUS
<1>1. CASE UNCHANGED vars
  BY <1>1 DEF TypeInv, TypeOK, HandlesPhase, vars
<1>2. CASE Next
  BY <1>2, TypeUser, TypeWatch, TypeReconcile, TypeHandle, TypeUpdate, TypeRestart
     DEF Next, Loop
<1>. QED
  BY <1>1, <1>2

\* Every variable keeps its type: in particular no handler ever returns a
\* resource with a field outside its range, and the loop never runs a handler
\* on a phase that is not its own.
THEOREM TypeCorrect == Spec => []TypeInv
BY TypeInit, TypeStep, PTL DEF Spec

\* The same of the type invariant TLC checks: the store, the caches and the
\* worker always hold what Go's types let them hold.
THEOREM TypesHold == Spec => []TypeOK
<1>1. TypeInv => TypeOK
  BY DEF TypeInv
<1>. QED
  BY <1>1, TypeCorrect, PTL

-----------------------------------------------------------------------------
(* No wakeup is lost while the watch holds.                                 *)

\* the newest version the operator has seen or will see is the stored one
Newest(v) == IF watch[v] = <<>> THEN cache[v] ELSE watch[v][Len(watch[v])]
WatchInSync == \A v \in VDBs : Newest(v) = store[v]

\* every event under way passes the filter
EventsPass == \A v \in VDBs : \A i \in 1..Len(watch[v]) : WillEnqueue(v, i)

Attended == \A v \in VDBs : store[v] # NoVdb =>
                \/ v \in queue \cup delayed
                \/ WorkingOn(v)
                \/ watch[v] # <<>>

WakeupInv == TypeInv /\ WatchInSync /\ EventsPass /\ Attended

\* a write whose event passes the filter with respect to what it overwrites
LEMMA WritePasses ==
    ASSUME WakeupInv, NEW v \in VDBs, NEW s \in Stored \cup {NoVdb},
           Write(v, s), Enqueues(store[v], s), cache' = cache
    PROVE  WatchInSync' /\ EventsPass' /\ watch'[v] # <<>>
           /\ \A w \in VDBs \ {v} : store'[w] = store[w] /\ watch'[w] = watch[w]
<1>. DEFINE q == watch[v]
<1>1. /\ watch \in [VDBs -> Seq(Stored \cup {NoVdb})]
      /\ store \in [VDBs -> Stored \cup {NoVdb}]
  BY DEF WakeupInv, TypeInv, TypeOK
<1>2. q \in Seq(Stored \cup {NoVdb}) /\ Len(q) \in Nat
  BY <1>1
<1>3. /\ watch' = [watch EXCEPT ![v] = Append(q, s)]
      /\ store' = [store EXCEPT ![v] = s]
  BY DEF Write
<1>4. /\ watch'[v] = Append(q, s)
      /\ store'[v] = s
      /\ \A w \in VDBs \ {v} : store'[w] = store[w] /\ watch'[w] = watch[w]
  BY <1>1, <1>3
<1>5. /\ Len(watch'[v]) = Len(q) + 1
      /\ watch'[v][Len(q) + 1] = s
      /\ \A i \in 1..Len(q) : watch'[v][i] = q[i]
      /\ watch'[v] # <<>>
  BY <1>2, <1>4
<1>6. WatchInSync'
  BY <1>2, <1>4, <1>5 DEF WakeupInv, WatchInSync, Newest
<1>7. ASSUME NEW i \in 1..Len(watch'[v])
      PROVE  WillEnqueue(v, i)'
  <2>1. CASE i \in 1..Len(q)
    <3>1. WillEnqueue(v, i)
      BY <2>1 DEF WakeupInv, EventsPass
    <3>. QED
      BY <1>2, <1>5, <2>1, <3>1 DEF WillEnqueue
  <2>2. CASE i = Len(q) + 1
    <3>1. CASE q = <<>>
      <4>1. cache[v] = store[v] /\ i = 1
        BY <2>2, <3>1 DEF WakeupInv, WatchInSync, Newest
      <4>. QED
        BY <1>5, <2>2, <4>1 DEF WillEnqueue
    <3>2. CASE q # <<>>
      <4>1. q[Len(q)] = store[v] /\ Len(q) \in 1..Len(q)
        BY <1>2, <3>2 DEF WakeupInv, WatchInSync, Newest
      <4>. QED
        BY <1>2, <1>5, <2>2, <4>1 DEF WillEnqueue
    <3>. QED
      BY <3>1, <3>2
  <2>. QED
    BY <1>2, <1>5, <2>1, <2>2
<1>8. EventsPass'
  BY <1>4, <1>7 DEF WakeupInv, EventsPass, WillEnqueue
<1>. QED
  BY <1>4, <1>5, <1>6, <1>8

\* a new version of an object passes the filter: its generation is new
LEMMA NewVersionPasses ==
    ASSUME TypeOK, NEW v \in VDBs, store[v] # NoVdb, NEW x \in Vdb
    PROVE  NewVersion(v, x) \in Stored /\ Enqueues(store[v], NewVersion(v, x))
<1>1. NewVersion(v, x) \in Stored
  BY NewVersionType
<1>2. NewVersion(v, x) # NoVdb
  BY <1>1, ReconcilerAssumption DEF Stored
<1>3. store[v].gen \in Nat
  BY DEF TypeOK, Stored
<1>. QED
  BY <1>1, <1>2, <1>3 DEF Enqueues, NewVersion

\* a user's write announces itself with an event that enqueues
LEMMA WakeupUser ==
    ASSUME WakeupInv, NEW v \in VDBs, User(v)
    PROVE  WatchInSync' /\ EventsPass' /\ Attended'
<1>. USE DEF WakeupInv, TypeInv
<1>1. UNCHANGED <<cache, queue, delayed, worker>>
  BY DEF User, UserCreate, UserEdit, UserEditTo, UserReplace, UserDelete, loopVars
<1>. DEFINE Passes == \E s \in Stored \cup {NoVdb} :
                         Write(v, s) /\ Enqueues(store[v], s)
<1>2. ASSUME NEW s \in UserSpecs, UserCreate(v, s)
      PROVE  Passes
  <2>. DEFINE x == [uid |-> rev[v] + 1, rv |-> rev[v] + 1, gen |-> 1,
                    obj |-> NewVdb(s)]
  <2>1. x \in Stored
    BY NewVdbType, ReconcilerAssumption DEF Stored, TypeOK
  <2>2. x # NoVdb
    BY <2>1, ReconcilerAssumption DEF Stored
  <2>3. Write(v, x) /\ store[v] = NoVdb
    BY <1>2 DEF UserCreate
  <2>. QED
    BY <2>1, <2>2, <2>3 DEF Enqueues
<1>3. ASSUME NEW s \in VdbSpec, UserEditTo(v, s)
      PROVE  Passes
  <2>1. store[v] # NoVdb /\ store[v].obj \in Vdb
    BY <1>3 DEF UserEditTo, TypeOK, Stored
  <2>2. [store[v].obj EXCEPT !.spec = s] \in Vdb
    BY <2>1, WithPart
  <2>. QED
    BY <1>3, <2>1, <2>2, NewVersionPasses DEF UserEditTo
<1>4. ASSUME NEW s \in UserSpecs, UserEdit(v, s)
      PROVE  Passes
  <2>1. store[v].obj.spec.replicas \in {NoReplicas} \cup Nat
    BY <1>4 DEF UserEdit, TypeOK, Stored, Vdb, VdbSpec
  <2>2. [s EXCEPT !.replicas = store[v].obj.spec.replicas] \in VdbSpec
    BY <2>1, ReconcilerAssumption DEF VdbSpec
  <2>. QED
    BY <1>3, <1>4, <2>2 DEF UserEdit
<1>5. ASSUME NEW s \in UserSpecs, UserReplace(v, s)
      PROVE  Passes
  BY <1>3, <1>5, ReconcilerAssumption DEF UserReplace
<1>6. ASSUME UserDelete(v)
      PROVE  Passes
  BY <1>6 DEF UserDelete, Enqueues
<1>7. Passes
  BY <1>2, <1>4, <1>5, <1>6 DEF User
<1>8. /\ WatchInSync' /\ EventsPass' /\ watch'[v] # <<>>
      /\ \A w \in VDBs \ {v} : store'[w] = store[w] /\ watch'[w] = watch[w]
  BY <1>1, <1>7, WritePasses
<1>. QED
  BY <1>1, <1>8 DEF Attended, WorkingOn

\* the tail of a queue
LEMMA TailFacts ==
    ASSUME NEW S, NEW q \in Seq(S), q # <<>>
    PROVE  /\ Len(q) \in Nat
           /\ Len(q) > 0
           /\ Len(q) = 1 \/ Len(q) > 1
           /\ Head(q) = q[1]
           /\ Len(Tail(q)) = Len(q) - 1
           /\ \A i \in 1..(Len(q) - 1) : Tail(q)[i] = q[i + 1]
           /\ Len(q) = 1 => Tail(q) = <<>>
           /\ Len(q) > 1 => Tail(q) # <<>>
<1>1. Len(q) \in Nat /\ Len(q) # 0
  BY EmptySeq
<1>2. Len(q) > 0 /\ (Len(q) = 1 \/ Len(q) > 1)
  <2>1. \A n \in Nat : n # 0 => n > 0 /\ (n = 1 \/ n > 1)
    OBVIOUS
  <2>. QED
    BY <1>1, <2>1
<1>3. Tail(q) \in Seq(S) /\ Len(Tail(q)) = Len(q) - 1
  BY <1>1
<1>4. Head(q) = q[1] /\ \A i \in 1..(Len(q) - 1) : Tail(q)[i] = q[i + 1]
  BY <1>1
<1>5. ASSUME Len(q) = 1 PROVE Tail(q) = <<>>
  <2>1. Len(Tail(q)) = 0
    BY <1>3, <1>5
  <2>. QED
    BY <1>3, <2>1, EmptySeq
<1>6. ASSUME Len(q) > 1 PROVE Tail(q) # <<>>
  <2>1. Len(Tail(q)) # 0
    BY <1>1, <1>3, <1>6
  <2>. QED
    BY <1>3, <2>1, EmptySeq
<1>. QED
  BY <1>1, <1>2, <1>3, <1>4, <1>5, <1>6

\* an event that enqueues is not consumed without enqueueing
LEMMA WakeupWatch ==
    ASSUME WakeupInv, NEW v \in VDBs, MaxRelists = 0,
           Deliver(v) \/ Relist(v) \/ OwnedEvent(v) \/ DelayOver(v)
    PROVE  WatchInSync' /\ EventsPass' /\ Attended'
<1>. USE DEF WakeupInv, TypeInv
<1>1. CASE Deliver(v)
  <2>. DEFINE q == watch[v]
  <2>1. q \in Seq(Stored \cup {NoVdb}) /\ q # <<>>
    BY <1>1 DEF Deliver, TypeOK
  <2>2. /\ Len(q) \in Nat /\ Len(q) > 0
        /\ Head(q) = q[1]
        /\ Len(Tail(q)) = Len(q) - 1
        /\ \A i \in 1..(Len(q) - 1) : Tail(q)[i] = q[i + 1]
    BY <2>1, TailFacts
  <2>3. /\ watch'[v] = Tail(q) /\ cache'[v] = Head(q)
        /\ \A w \in VDBs \ {v} : watch'[w] = watch[w] /\ cache'[w] = cache[w]
        /\ store' = store /\ delayed' = delayed /\ worker' = worker
    BY <1>1 DEF Deliver, See, TypeOK
  <2>4. WillEnqueue(v, 1) /\ v \in queue' /\ queue \subseteq queue'
    BY <1>1, <2>2 DEF EventsPass, WillEnqueue, Deliver, See
  <2>5. Newest(v)' = Newest(v)
    <3>1. CASE Len(q) = 1
      BY <2>1, <2>2, <2>3, <3>1, TailFacts DEF Newest
    <3>2. CASE Len(q) > 1
      <4>1. Len(q) - 1 \in 1..(Len(q) - 1) /\ (Len(q) - 1) + 1 = Len(q)
        BY <2>2, <3>2
      <4>2. Tail(q)[Len(Tail(q))] = q[Len(q)]
        BY <2>2, <4>1
      <4>. QED
        BY <2>1, <2>3, <3>2, <4>2, TailFacts DEF Newest
    <3>. QED
      BY <2>1, <3>1, <3>2, TailFacts
  <2>6. WatchInSync'
    BY <2>3, <2>5 DEF WatchInSync, Newest
  <2>7. ASSUME NEW i \in 1..Len(watch'[v])
        PROVE  WillEnqueue(v, i)'
    <3>1. i + 1 \in 1..Len(q) /\ i \in 1..(Len(q) - 1)
      BY <2>2, <2>3
    <3>2. WillEnqueue(v, i + 1)
      BY <3>1 DEF EventsPass
    <3>3. Enqueues(q[i], q[i + 1])
      BY <3>1, <3>2 DEF WillEnqueue
    <3>4. watch'[v][i] = q[i + 1]
      BY <2>2, <2>3, <3>1
    <3>5. CASE i = 1
      BY <2>2, <2>3, <3>3, <3>4, <3>5 DEF WillEnqueue
    <3>6. CASE i # 1
      <4>1. i - 1 \in 1..(Len(q) - 1) /\ (i - 1) + 1 = i
        BY <2>2, <3>1, <3>6
      <4>2. watch'[v][i - 1] = q[i]
        BY <2>2, <2>3, <4>1
      <4>. QED
        BY <3>3, <3>4, <3>6, <4>2 DEF WillEnqueue
    <3>. QED
      BY <3>5, <3>6
  <2>8. EventsPass'
    BY <2>3, <2>7 DEF EventsPass, WillEnqueue
  <2>9. Attended'
    BY <2>3, <2>4 DEF Attended, WorkingOn
  <2>. QED
    BY <2>6, <2>8, <2>9
<1>2. CASE Relist(v)
  <2>1. spent.relists \in Nat
    BY LimitNames DEF TypeOK
  <2>. QED
    BY <1>2, <2>1 DEF Relist, Spend, Limits
<1>3. CASE OwnedEvent(v)
  BY <1>3 DEF OwnedEvent, kubeVars, WatchInSync, Newest, EventsPass, WillEnqueue,
     Attended, WorkingOn
<1>4. CASE DelayOver(v)
  BY <1>4 DEF DelayOver, kubeVars, WatchInSync, Newest, EventsPass, WillEnqueue,
     Attended, WorkingOn
<1>. QED
  BY <1>1, <1>2, <1>3, <1>4

\* steps that leave the API server, the watch and the cache alone
LEMMA WatchUnchanged ==
    ASSUME WakeupInv, UNCHANGED <<kubeVars, cache>>
    PROVE  WatchInSync' /\ EventsPass'
BY DEF WakeupInv, kubeVars, WatchInSync, Newest, EventsPass, WillEnqueue

\* a name leaves the work queue only to be worked on, or for a timer
LEMMA WakeupReconcile ==
    ASSUME WakeupInv, NEW v \in VDBs, Reconcile(v) \/ ReconcileReadFails(v)
    PROVE  WatchInSync' /\ EventsPass' /\ Attended'
<1>1. /\ queue' = queue \ {v}
      /\ UNCHANGED <<kubeVars, cache>>
      /\ worker = Idle
      /\ delayed \subseteq delayed'
  BY DEF Reconcile, ReconcileDeleted, ReconcileUpdated, ReconcileActions,
     ReconcileReadFails, Take
<1>2. store[v] # NoVdb => v \in delayed' \/ WorkingOn(v)' \/ watch[v] # <<>>
  <2>1. CASE ReconcileDeleted(v)
    BY <2>1 DEF ReconcileDeleted, WakeupInv, WatchInSync, Newest
  <2>2. CASE ReconcileReadFails(v)
    BY <2>2 DEF ReconcileReadFails
  <2>3. CASE ReconcileUpdated(v)
    BY <2>3 DEF ReconcileUpdated, WorkingOn
  <2>4. CASE ReconcileActions(v)
    <3>. DEFINE S == StepsFrom(1, cache[v].obj.status.phase)
    <3>1. CASE S = {}
      BY <2>4, <3>1 DEF ReconcileActions
    <3>2. CASE S # {}
      BY <2>4, <3>2 DEF ReconcileActions, WorkingOn
    <3>. QED
      BY <3>1, <3>2
  <2>. QED
    BY <2>1, <2>2, <2>3, <2>4 DEF Reconcile
<1>3. Attended'
  BY <1>1, <1>2 DEF WakeupInv, Attended, WorkingOn, Idle, kubeVars
<1>. QED
  BY <1>1, <1>3, WatchUnchanged

\* a handler that changes nothing leaves a timer behind
LEMMA WakeupHandle ==
    ASSUME WakeupInv, Handle
    PROVE  WatchInSync' /\ EventsPass' /\ Attended'
<1>1. PICK o : Handled(o)
  BY DEF Handle, HandleInitialize, HandleCacheStore,
     HandleS2IBuilderImage, HandleServiceImage, HandleCreateService,
     HandleCreateCertificate, HandleDeployment, HandlePrometheusMonitor
<1>2. worker.pc = "handle"
  BY DEF Handle, HandleInitialize, HandleCacheStore, AtStep,
     HandleS2IBuilderImage, HandleServiceImage, HandleCreateService,
     HandleCreateCertificate, HandleDeployment, HandlePrometheusMonitor
<1>3. UNCHANGED <<kubeVars, cache, queue>> /\ delayed \subseteq delayed'
  BY <1>1 DEF Handled
<1>4. worker \in Busy
  BY <1>2, WorkerBusy DEF WakeupInv, TypeInv
<1>5. worker.key \in delayed' \/ (worker'.pc # "idle" /\ worker'.key = worker.key)
  <2>. DEFINE S == StepsFrom(worker.step + 1, worker.inst.obj.status.phase)
  <2>1. CASE o.target # worker.inst.obj
    <3>1. worker' = [worker EXCEPT !.pc = "update", !.target = o.target, !.err = o.err]
      BY <1>1, <2>1 DEF Handled
    <3>. QED
      BY <1>4, <3>1 DEF Busy
  <2>2. CASE o.target = worker.inst.obj /\ S # {}
    <3>1. worker' = [worker EXCEPT !.step = First(S)]
      BY <1>1, <2>2 DEF Handled
    <3>. QED
      BY <1>2, <1>4, <3>1 DEF Busy
  <2>3. CASE o.target = worker.inst.obj /\ S = {}
    BY <1>1, <2>3 DEF Handled
  <2>. QED
    BY <2>1, <2>2, <2>3
<1>6. Attended'
  <2>. SUFFICES ASSUME NEW w \in VDBs, store[w] # NoVdb
                PROVE  \/ w \in queue \cup delayed'
                       \/ WorkingOn(w)'
                       \/ watch[w] # <<>>
    BY <1>3 DEF Attended, kubeVars
  <2>1. w \in queue \cup delayed \/ w = worker.key \/ watch[w] # <<>>
    BY DEF WakeupInv, Attended, WorkingOn
  <2>. QED
    BY <1>3, <1>5, <2>1 DEF WorkingOn
<1>. QED
  BY <1>3, <1>6, WatchUnchanged

\* a write leaves an event that enqueues, a rejected one a timer
LEMMA WakeupUpdate ==
    ASSUME WakeupInv, Update
    PROVE  WatchInSync' /\ EventsPass' /\ Attended'
<1>. USE DEF WakeupInv, TypeInv
<1>. DEFINE v == worker.key
<1>1. worker.pc = "update" /\ v \in VDBs /\ worker.target \in Vdb
  BY WorkerBusy DEF Update, UpdateSucceeds, UpdateRejected, UpdateTimesOut
<1>2. cache' = cache /\ queue' = queue /\ delayed \subseteq delayed'
  BY DEF Update, UpdateSucceeds, UpdateRejected, UpdateTimesOut
<1>3. CASE UpdateSucceeds \/ UpdateTimesOut
  <2>1. /\ store[v] # NoVdb
        /\ Write(v, NewVersion(v, worker.target))
    BY <1>3 DEF UpdateSucceeds, UpdateTimesOut, NoConflict
  <2>2. /\ NewVersion(v, worker.target) \in Stored
        /\ Enqueues(store[v], NewVersion(v, worker.target))
    BY <1>1, <2>1, NewVersionPasses
  <2>. HIDE DEF v
  <2>3. /\ WatchInSync' /\ EventsPass' /\ watch'[v] # <<>>
        /\ \A w \in VDBs \ {v} : store'[w] = store[w] /\ watch'[w] = watch[w]
    BY <1>1, <1>2, <2>1, <2>2, WritePasses
  <2>. QED
    BY <1>2, <2>3 DEF Attended, WorkingOn, v
<1>4. CASE UpdateRejected
  <2>1. v \in delayed' /\ UNCHANGED kubeVars
    BY <1>4 DEF UpdateRejected
  <2>2. Attended'
    BY <1>2, <2>1 DEF Attended, WorkingOn, kubeVars
  <2>. QED
    BY <1>2, <2>1, <2>2, WatchUnchanged
<1>. QED
  BY <1>3, <1>4 DEF Update

\* a restart queues every resource there is
LEMMA WakeupRestart ==
    ASSUME WakeupInv, Crash \/ HandlerPanics
    PROVE  WatchInSync' /\ EventsPass' /\ Attended'
<1>1. Restart
  BY DEF Crash, HandlerPanics
<1>2. \A v \in VDBs : watch'[v] = <<>> /\ cache'[v] = store'[v]
  BY <1>1 DEF Restart
<1>. QED
  BY <1>1, <1>2 DEF Restart, WatchInSync, Newest, EventsPass, Attended

\* As long as the operator's watch does not break, no wakeup is lost, for any
\* number of VirtualDatabases, edits, conflicts, faults, crashes and panics:
\* a VirtualDatabase that exists is always queued, waiting for a timer, being
\* reconciled, or about to be queued by an event that passes the filter.
THEOREM NoWakeupIsLost ==
    ASSUME MaxRelists = 0
    PROVE  Spec => []NoLostWakeup
<1>1. Init => WakeupInv
  <2>. SUFFICES ASSUME Init PROVE WakeupInv
    OBVIOUS
  <2>1. TypeInv
    BY TypeInit
  <2>2. \A v \in VDBs : watch[v] = <<>> /\ cache[v] = NoVdb /\ store[v] = NoVdb
    BY DEF Init
  <2>. QED
    BY <2>1, <2>2 DEF WakeupInv, WatchInSync, Newest, EventsPass, Attended
<1>2. WakeupInv /\ TypeInv' /\ [Next]_vars => WakeupInv'
  <2>. SUFFICES ASSUME WakeupInv, TypeInv', [Next]_vars PROVE WakeupInv'
    OBVIOUS
  <2>1. CASE UNCHANGED vars
    BY <2>1, WatchUnchanged DEF WakeupInv, Attended, WorkingOn, vars, kubeVars
  <2>2. CASE Next
    BY <2>2, WakeupUser, WakeupWatch, WakeupReconcile, WakeupHandle, WakeupUpdate,
       WakeupRestart DEF Next, Loop, WakeupInv
  <2>. QED
    BY <2>1, <2>2
<1>3. WakeupInv => NoLostWakeup
  <2>. SUFFICES ASSUME WakeupInv, NEW v \in VDBs, watch[v] # <<>>
                PROVE  \E i \in 1..Len(watch[v]) : WillEnqueue(v, i)
    BY DEF WakeupInv, Attended, NoLostWakeup
  <2>1. watch[v] \in Seq(Stored \cup {NoVdb})
    BY DEF WakeupInv, TypeInv, TypeOK
  <2>2. 1 \in 1..Len(watch[v])
    BY <2>1, TailFacts
  <2>. QED
    BY <2>2 DEF WakeupInv, EventsPass
<1>. QED
  BY <1>1, <1>2, <1>3, TypeCorrect, PTL DEF Spec
=============================================================================
