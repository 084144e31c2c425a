--------------------------- MODULE RefinementProofs --------------------------
(***************************************************************************)
(* Reconciler implements Lifecycle: although the worker computes on a copy *)
(* it read some steps ago, every write that takes effect is a step of the  *)
(* resource as it is at that moment.  The argument is the resourceVersion: *)
(* a copy with the version of the stored object is that object.            *)
(*                                                                         *)
(* What follows from it is used for the objects the actions create: who    *)
(* stores versions and with which fields, how old copies may be, and that  *)
(* those of a resource are in line, from the worker's to the stored one.   *)
(***************************************************************************)
EXTENDS ReconcilerProofs

(* The instance of Lifecycle has its own copy of every operator of          *)
(* VirtualDatabase; the copies agree.                                       *)

\* The operators of Lifecycle are those of Reconciler: a new resource,
LEMMA AbsNewVdb == \A s : Abs!NewVdb(s) = NewVdb(s)
BY DEF Abs!NewVdb, NewVdb, Abs!Initial, Initial, Abs!NoVersion, NoVersion

\* the digest of a source,
LEMMA AbsDigest ==
    \A s : Abs!ComputeForVirtualDatabase(s) = ComputeForVirtualDatabase(s)
BY DEF Abs!ComputeForVirtualDatabase, ComputeForVirtualDatabase,
   Abs!OperatorVersion, OperatorVersion

\* whether the source has changed,
LEMMA AbsIsVdbUpdated == \A t : Abs!IsVdbUpdated(t) = IsVdbUpdated(t)
BY AbsDigest DEF Abs!IsVdbUpdated, IsVdbUpdated

\* the redeployment,
LEMMA AbsRedeployVdb == \A t : Abs!RedeployVdb(t) = RedeployVdb(t)
BY DEF Abs!RedeployVdb, RedeployVdb, Abs!Initial, Initial,
   Abs!ComputeForVirtualDatabase, ComputeForVirtualDatabase,
   Abs!OperatorVersion, OperatorVersion, Abs!ImplicitVersion, ImplicitVersion,
   Abs!IsNumeral, IsNumeral, Abs!NoVersion, NoVersion

\* the results of initializeAction.Handle,
LEMMA AbsInitialize == \A t : Abs!InitializeOutcomes(t) = InitializeOutcomes(t)
BY DEF Abs!ConfigMissing, ConfigMissing, Abs!ConfigRead, ConfigRead,
   Abs!InitializeOutcomes, InitializeOutcomes, Abs!Fail, Fail, Abs!Return, Return,
   Abs!Initialized, Initialized, Abs!InitVdb, InitVdb,
   Abs!CreateCacheStore, CreateCacheStore,
   Abs!ComputeForVirtualDatabase, ComputeForVirtualDatabase,
   Abs!OperatorVersion, OperatorVersion, Abs!ImplicitVersion, ImplicitVersion,
   Abs!NoVersion, NoVersion, Abs!NoReplicas, NoReplicas

\* of cacheStoreAction.Handle,
LEMMA AbsCacheStore == \A t : Abs!CacheStoreOutcomes(t) = CacheStoreOutcomes(t)
BY DEF Abs!CacheStoreOutcomes, CacheStoreOutcomes, Abs!Return, Return,
   Abs!InPhase, InPhase, Abs!S2IReady, S2IReady

\* of s2iBuilderImageAction.Handle,
LEMMA AbsS2IBuilderImage ==
    \A t : Abs!S2IBuilderImageOutcomes(t) = S2IBuilderImageOutcomes(t)
BY DEF Abs!S2IBuilderImageOutcomes, S2IBuilderImageOutcomes, Abs!Return, Return,
   Abs!Fail, Fail, Abs!InPhase, InPhase, Abs!S2IReady, S2IReady,
   Abs!BuilderImage, BuilderImage, Abs!BuilderImageFinished, BuilderImageFinished,
   Abs!BuilderImageFailed, BuilderImageFailed

\* of serviceImageAction.Handle,
LEMMA AbsServiceImage ==
    \A t : Abs!ServiceImageOutcomes(t) = ServiceImageOutcomes(t)
BY DEF Abs!ServiceImageOutcomes, ServiceImageOutcomes, Abs!Return, Return,
   Abs!Fail, Fail, Abs!InPhase, InPhase,
   Abs!BuilderImageFinished, BuilderImageFinished, Abs!ServiceImage, ServiceImage,
   Abs!ServiceImageFinished, ServiceImageFinished,
   Abs!ServiceImageFailed, ServiceImageFailed, Abs!Error, Error

\* of createServiceAction.Handle,
LEMMA AbsCreateService ==
    \A t : Abs!CreateServiceOutcomes(t) = CreateServiceOutcomes(t)
BY DEF Abs!Exposed, Exposed, Abs!CreateServiceOutcomes, CreateServiceOutcomes, Abs!Return, Return,
   Abs!InPhase, InPhase, Abs!ServiceCreated, ServiceCreated

\* of createCertificateAction.Handle,
LEMMA AbsCreateCertificate ==
    \A t : Abs!CreateCertificateOutcomes(t) = CreateCertificateOutcomes(t)
BY DEF Abs!CreateCertificateOutcomes, CreateCertificateOutcomes, Abs!Return, Return,
   Abs!Fail, Fail, Abs!InPhase, InPhase, Abs!KeystoreCreated, KeystoreCreated

\* of deploymentAction.Handle,
LEMMA AbsDeployment == \A t : Abs!DeploymentOutcomes(t) = DeploymentOutcomes(t)
BY DEF Abs!DeploymentOutcomes, DeploymentOutcomes, Abs!Return, Return,
   Abs!Fail, Fail, Abs!InPhase, InPhase, Abs!KeystoreCreated, KeystoreCreated,
   Abs!Deploying, Deploying, Abs!Running, Running, Abs!Error, Error,
   Abs!Redigested, Redigested, Abs!NoReplicas, NoReplicas

\* of prometheusMonitorAction.Handle,
LEMMA AbsPrometheusMonitor ==
    \A t : Abs!PrometheusMonitorOutcomes(t) = PrometheusMonitorOutcomes(t)
BY DEF Abs!PrometheusMonitorOutcomes, PrometheusMonitorOutcomes, Abs!Return, Return,
   Abs!Fail, Fail

\* and so of every handler,
LEMMA AbsOutcomes == \A a, t : Abs!Outcomes(a, t) = Outcomes(a, t)
BY AbsInitialize, AbsCacheStore, AbsS2IBuilderImage, AbsServiceImage,
   AbsCreateService, AbsCreateCertificate, AbsDeployment, AbsPrometheusMonitor
   DEF Abs!Outcomes, Outcomes

\* the order of the actions,
LEMMA AbsBuildSteps == Abs!BuildSteps = BuildSteps
BY DEF Abs!BuildSteps, BuildSteps

\* and the phases each can handle.
LEMMA AbsCanHandle == \A a, p : Abs!CanHandle(a, p) = CanHandle(a, p)
BY DEF Abs!CanHandle, CanHandle, Abs!Initial, Initial,
   Abs!CreateCacheStore, CreateCacheStore, Abs!S2IReady, S2IReady,
   Abs!BuilderImage, BuilderImage, Abs!BuilderImageFinished, BuilderImageFinished,
   Abs!ServiceImage, ServiceImage, Abs!ServiceImageFinished, ServiceImageFinished,
   Abs!ServiceCreated, ServiceCreated, Abs!KeystoreCreated, KeystoreCreated,
   Abs!Deploying, Deploying, Abs!Running, Running

-----------------------------------------------------------------------------
(* The resources as Lifecycle sees them, and its steps in those terms.      *)

Obj(s) == IF s = NoVdb THEN NoVdb ELSE s.obj
Resource == [v \in VDBs |-> Obj(store[v])]

\* a write of the API server is a write of the abstract object
LEMMA ResourceWrite ==
    ASSUME TypeOK, NEW v \in VDBs, NEW s, store' = [store EXCEPT ![v] = s]
    PROVE  Resource' = [Resource EXCEPT ![v] = Obj(s)]
BY DEF TypeOK, Resource

\* a stored object is the resource, and never the absence of one
LEMMA StoredIsResource ==
    ASSUME NEW s \in Stored
    PROVE  s # NoVdb /\ s.obj \in Vdb /\ Obj(s) = s.obj
BY ReconcilerAssumption DEF Stored, Obj

\* the abstract object of a name is the content the API server stores
LEMMA ResourceAt ==
    ASSUME TypeOK, NEW v \in VDBs
    PROVE  /\ store[v] = NoVdb => Resource[v] = NoVdb
           /\ store[v] # NoVdb => /\ Resource[v] # NoVdb
                                  /\ Resource[v] = store[v].obj
                                  /\ Resource[v] \in Vdb
<1>1. CASE store[v] = NoVdb
  BY <1>1 DEF Resource, Obj
<1>2. CASE store[v] # NoVdb
  <2>1. store[v] \in Stored /\ store[v].obj \in Vdb
    BY <1>2 DEF TypeOK, Stored
  <2>2. store[v].obj # NoVdb
    BY <2>1, ReconcilerAssumption
  <2>. QED
    BY <1>2, <2>1, <2>2 DEF Resource, Obj
<1>. QED
  BY <1>1, <1>2

\* an abstract creation is a step of Lifecycle
LEMMA AbsCreate ==
    ASSUME NEW v \in VDBs, NEW s \in UserSpecs, Resource[v] = NoVdb,
           Resource' = [Resource EXCEPT ![v] = NewVdb(s)]
    PROVE  Abs!Create(v)
BY AbsNewVdb DEF Abs!Create, Resource, Obj

\* an abstract edit is a step of Lifecycle
LEMMA AbsEdit ==
    ASSUME NEW v \in VDBs, NEW s \in UserSpecs, Resource[v] # NoVdb,
           NEW n \in {s.replicas, Resource[v].spec.replicas},
           Resource' = [Resource EXCEPT ![v].spec = [s EXCEPT !.replicas = n]]
    PROVE  Abs!Edit(v)
BY DEF Abs!Edit, Resource, Obj

\* an abstract deletion is a step of Lifecycle
LEMMA AbsDelete ==
    ASSUME NEW v \in VDBs, Resource[v] # NoVdb,
           Resource' = [Resource EXCEPT ![v] = NoVdb]
    PROVE  Abs!Delete(v)
BY DEF Abs!Delete, Resource, Obj

\* an abstract redeployment is a step of Lifecycle
LEMMA AbsRedeploy ==
    ASSUME NEW v \in VDBs, Resource[v] # NoVdb, IsVdbUpdated(Resource[v]),
           Resource' = [Resource EXCEPT ![v] = RedeployVdb(Resource[v])]
    PROVE  Abs!Redeploy(v)
BY AbsIsVdbUpdated, AbsRedeployVdb DEF Abs!Redeploy, Resource, Obj

\* u is what a handler that can handle t may make of t
Advanced(t, u) ==
    \E i \in 1..Len(BuildSteps) :
        /\ CanHandle(BuildSteps[i], t.status.phase)
        /\ \E o \in Outcomes(BuildSteps[i], t) : u = o.target

\* a handler's result written to the object it was given is a step of Lifecycle
LEMMA AbsAdvance ==
    ASSUME NEW v \in VDBs, Resource[v] # NoVdb, ~IsVdbUpdated(Resource[v]),
           NEW u, Advanced(Resource[v], u),
           Resource' = [Resource EXCEPT ![v] = u]
    PROVE  Abs!Advance(v)
BY AbsIsVdbUpdated, AbsOutcomes, AbsCanHandle, AbsBuildSteps
   DEF Abs!Advance, Advanced, Resource, Obj

-----------------------------------------------------------------------------
(* The inductive invariant.                                                 *)

\* s is not from the future, and is the stored object if it has its version
Copy(s, stored, last) ==
    s # NoVdb => /\ s.rv <= last
                 /\ stored # NoVdb /\ s.rv = stored.rv => s = stored

CopiesOK ==
    /\ \A v \in VDBs :
          /\ Copy(store[v], store[v], rev[v])
          /\ Copy(cache[v], store[v], rev[v])
          /\ \A i \in 1..Len(watch[v]) : Copy(watch[v][i], store[v], rev[v])
    /\ worker.pc # "idle" =>
          Copy(worker.inst, store[worker.key], rev[worker.key])

\* what the worker is about to do follows from its copy
WorkerOK ==
    /\ worker.pc = "handle" => ~IsVdbUpdated(worker.inst.obj)
    /\ worker.pc = "update" =>
          \/ /\ IsVdbUpdated(worker.inst.obj)
             /\ worker.target = RedeployVdb(worker.inst.obj)
          \/ /\ ~IsVdbUpdated(worker.inst.obj)
             /\ Advanced(worker.inst.obj, worker.target)

RefInv == TypeInv /\ CopiesOK /\ WorkerOK

\* a write leaves every copy a copy: the version it gives out is new
LEMMA WriteCopies ==
    ASSUME RefInv, NEW v \in VDBs, NEW s \in Stored \cup {NoVdb},
           Write(v, s), s # NoVdb => s.rv = rev[v] + 1, cache' = cache,
           worker' = worker \/ worker' = Idle
    PROVE  CopiesOK'
<1>. USE DEF RefInv, TypeInv
<1>1. /\ store'[v] = s /\ rev'[v] = rev[v] + 1 /\ watch'[v] = Append(watch[v], s)
      /\ \A w \in VDBs \ {v} : /\ store'[w] = store[w] /\ rev'[w] = rev[w]
                               /\ watch'[w] = watch[w]
  BY DEF Write, TypeOK
<1>2. rev[v] \in Nat /\ watch[v] \in Seq(Stored \cup {NoVdb})
  BY DEF TypeOK
<1>3. ASSUME NEW x \in Stored \cup {NoVdb}, Copy(x, store[v], rev[v])
      PROVE  Copy(x, store'[v], rev'[v])
  <2>1. x # NoVdb => x.rv \in Nat
    BY DEF Stored
  <2>. QED
    BY <1>1, <1>2, <1>3, <2>1 DEF Copy
<1>4. Copy(s, store'[v], rev'[v])
  BY <1>1, <1>2 DEF Copy
<1>5. ASSUME NEW i \in 1..Len(watch'[v])
      PROVE  Copy(watch'[v][i], store'[v], rev'[v])
  <2>1. Len(watch[v]) \in Nat /\ Len(watch'[v]) = Len(watch[v]) + 1
    BY <1>1, <1>2
  <2>2. CASE i = Len(watch[v]) + 1
    <3>1. watch'[v][i] = s
      BY <1>1, <1>2, <2>2
    <3>. QED
      BY <1>4, <3>1
  <2>3. CASE i \in 1..Len(watch[v])
    <3>1. watch'[v][i] = watch[v][i] /\ watch[v][i] \in Stored \cup {NoVdb}
      BY <1>1, <1>2, <2>3
    <3>2. Copy(watch[v][i], store[v], rev[v])
      BY <2>3 DEF CopiesOK
    <3>. QED
      BY <1>3, <3>1, <3>2
  <2>. QED
    BY <2>1, <2>2, <2>3
<1>6. Copy(cache'[v], store'[v], rev'[v])
  <2>1. cache[v] \in Stored \cup {NoVdb}
    BY DEF TypeOK
  <2>. QED
    BY <1>3, <2>1 DEF CopiesOK
<1>7. worker'.pc # "idle" =>
         Copy(worker'.inst, store'[worker'.key], rev'[worker'.key])
  <2>. SUFFICES ASSUME worker' = worker, worker.pc # "idle"
                PROVE  Copy(worker.inst, store'[worker.key], rev'[worker.key])
    BY DEF Idle
  <2>1. worker.inst \in Stored \cup {NoVdb} /\ worker.key \in VDBs
    BY WorkerBusy
  <2>2. Copy(worker.inst, store[worker.key], rev[worker.key])
    BY DEF CopiesOK
  <2>3. CASE worker.key = v
    BY <1>3, <2>1, <2>2, <2>3
  <2>4. CASE worker.key # v
    BY <1>1, <2>1, <2>2, <2>4
  <2>. QED
    BY <2>3, <2>4
<1>8. ASSUME NEW w \in VDBs
      PROVE  /\ Copy(store'[w], store'[w], rev'[w])
             /\ Copy(cache'[w], store'[w], rev'[w])
             /\ \A i \in 1..Len(watch'[w]) : Copy(watch'[w][i], store'[w], rev'[w])
  <2>1. CASE w = v
    BY <1>1, <1>4, <1>5, <1>6, <2>1
  <2>2. CASE w # v
    BY <1>1, <2>2 DEF CopiesOK
  <2>. QED
    BY <2>1, <2>2
<1>. QED
  BY <1>7, <1>8 DEF CopiesOK

-----------------------------------------------------------------------------
(* The invariant is preserved, and every step is a step of Lifecycle.       *)

\* what each step has to establish
Refines == /\ CopiesOK' /\ WorkerOK'
           /\ Resource' = Resource \/ Abs!LNext

\* creating a resource implements Create
LEMMA RefineCreate ==
    ASSUME RefInv, NEW v \in VDBs, NEW s \in UserSpecs, UserCreate(v, s)
    PROVE  Refines
<1>. USE DEF RefInv, TypeInv
<1>. DEFINE x == [uid |-> rev[v] + 1, rv |-> rev[v] + 1, gen |-> 1, obj |-> NewVdb(s)]
<1>1. x \in Stored
  BY NewVdbType, ReconcilerAssumption DEF Stored, TypeOK
<1>2. Write(v, x) /\ store[v] = NoVdb /\ cache' = cache /\ worker' = worker
  BY DEF UserCreate, loopVars
<1>3. x.rv = rev[v] + 1 /\ x.obj = NewVdb(s)
  OBVIOUS
<1>. HIDE DEF x
<1>4. CopiesOK'
  BY <1>1, <1>2, <1>3, WriteCopies
<1>5. WorkerOK'
  BY <1>2 DEF WorkerOK
<1>6. Resource' = [Resource EXCEPT ![v] = NewVdb(s)]
  <2>1. store' = [store EXCEPT ![v] = x]
    BY <1>2 DEF Write
  <2>2. Obj(x) = NewVdb(s)
    BY <1>1, <1>3, StoredIsResource
  <2>3. Resource' = [Resource EXCEPT ![v] = Obj(x)]
    BY <2>1, ResourceWrite
  <2>. QED
    BY <2>2, <2>3
<1>7. Abs!Create(v)
  BY <1>2, <1>6, AbsCreate, ResourceAt
<1>. QED
  BY <1>4, <1>5, <1>7 DEF Refines, Abs!LNext

\* an edit replaces the spec, and takes its replicas from either spec
LEMMA RefineEditTo ==
    ASSUME RefInv, NEW v \in VDBs, NEW s \in UserSpecs,
           store[v] # NoVdb,
           NEW n \in {s.replicas, store[v].obj.spec.replicas},
           UserEditTo(v, [s EXCEPT !.replicas = n])
    PROVE  Refines
<1>. USE DEF RefInv, TypeInv
<1>. DEFINE s1 == [s EXCEPT !.replicas = n]
            y == [store[v].obj EXCEPT !.spec = s1]
            x == NewVersion(v, y)
<1>1. store[v].obj \in Vdb /\ store[v].obj.spec \in VdbSpec /\ s \in VdbSpec
  BY ReconcilerAssumption DEF TypeOK, Stored, Vdb
<1>2. s1 \in VdbSpec
  BY <1>1 DEF VdbSpec
<1>3. y \in Vdb
  BY <1>1, <1>2, WithPart
<1>4. Write(v, x) /\ cache' = cache /\ worker' = worker
  BY DEF UserEditTo, loopVars
<1>. HIDE DEF y, s1
<1>5. x \in Stored /\ x.rv = rev[v] + 1 /\ x.obj = y
  BY <1>3, NewVersionType DEF NewVersion
<1>. HIDE DEF x
<1>6. CopiesOK'
  BY <1>4, <1>5, WriteCopies
<1>7. WorkerOK'
  BY <1>4 DEF WorkerOK
<1>8. Resource' = [Resource EXCEPT ![v] = y]
  <2>1. store' = [store EXCEPT ![v] = x]
    BY <1>4 DEF Write
  <2>2. Obj(x) = y
    BY <1>5, StoredIsResource
  <2>3. Resource' = [Resource EXCEPT ![v] = Obj(x)]
    BY <2>1, ResourceWrite
  <2>. QED
    BY <2>2, <2>3
<1>9. Resource[v] # NoVdb /\ Resource[v] = store[v].obj
  BY ResourceAt
<1>10. Resource' = [Resource EXCEPT ![v].spec = s1]
  BY <1>8, <1>9 DEF y, Resource
<1>11. Abs!Edit(v)
  BY <1>9, <1>10, AbsEdit DEF s1
<1>. QED
  BY <1>6, <1>7, <1>11 DEF Refines, Abs!LNext

\* every write of a user implements Lifecycle's Create, Edit or Delete
LEMMA RefineUser ==
    ASSUME RefInv, NEW v \in VDBs, User(v)
    PROVE  Refines
<1>. USE DEF RefInv, TypeInv
<1>1. ASSUME NEW s \in UserSpecs, UserEdit(v, s)
      PROVE  Refines
  BY <1>1, RefineEditTo DEF UserEdit
<1>2. ASSUME NEW s \in UserSpecs, UserReplace(v, s)
      PROVE  Refines
  <2>1. [s EXCEPT !.replicas = s.replicas] = s
    BY ReconcilerAssumption DEF VdbSpec
  <2>2. UserEditTo(v, s) /\ store[v] # NoVdb
    BY <1>2 DEF UserReplace, UserEditTo
  <2>. QED
    BY <2>1, <2>2, RefineEditTo
<1>3. ASSUME UserDelete(v)
      PROVE  Refines
  <2>1. Write(v, NoVdb) /\ store[v] # NoVdb /\ cache' = cache /\ worker' = worker
    BY <1>3 DEF UserDelete, loopVars
  <2>2. CopiesOK'
    BY <2>1, WriteCopies
  <2>3. WorkerOK'
    BY <2>1 DEF WorkerOK
  <2>4. Resource' = [Resource EXCEPT ![v] = NoVdb]
    BY <2>1, ResourceWrite DEF Write, Obj
  <2>5. Abs!Delete(v)
    BY <2>1, <2>4, AbsDelete, ResourceAt
  <2>. QED
    BY <2>2, <2>3, <2>5 DEF Refines, Abs!LNext
<1>. QED
  BY <1>1, <1>2, <1>3, RefineCreate DEF User

\* steps that write nothing
LEMMA NothingWritten ==
    ASSUME store' = store
    PROVE  Resource' = Resource
BY DEF Resource

\* events, relists and timers write nothing and copy what is stored
LEMMA RefineWatch ==
    ASSUME RefInv, NEW v \in VDBs,
           Deliver(v) \/ Relist(v) \/ OwnedEvent(v) \/ DelayOver(v)
    PROVE  Refines
<1>. USE DEF RefInv, TypeInv
<1>1. store' = store /\ rev' = rev /\ worker' = worker
  BY DEF Deliver, Relist, See, OwnedEvent, DelayOver, kubeVars
<1>2. \A w \in VDBs : /\ Copy(cache'[w], store[w], rev[w])
                      /\ \A i \in 1..Len(watch'[w]) : Copy(watch'[w][i], store[w], rev[w])
  <2>1. CASE Deliver(v)
    <3>. DEFINE q == watch[v]
    <3>1. q \in Seq(Stored \cup {NoVdb}) /\ q # <<>>
      BY <2>1 DEF Deliver, TypeOK
    <3>2. /\ watch'[v] = Tail(q) /\ cache'[v] = Head(q)
          /\ \A w \in VDBs \ {v} : watch'[w] = watch[w] /\ cache'[w] = cache[w]
      BY <2>1 DEF Deliver, See, TypeOK
    <3>3. \A i \in 1..Len(q) : Copy(q[i], store[v], rev[v])
      BY DEF CopiesOK
    <3>4. Copy(cache'[v], store[v], rev[v])
      BY <3>1, <3>2, <3>3, TailFacts
    <3>5. ASSUME NEW i \in 1..Len(watch'[v])
          PROVE  Copy(watch'[v][i], store[v], rev[v])
      <4>1. i \in 1..(Len(q) - 1) /\ i + 1 \in 1..Len(q)
        BY <3>1, <3>2, TailFacts
      <4>2. watch'[v][i] = q[i + 1]
        BY <3>1, <3>2, <4>1, TailFacts
      <4>. QED
        BY <3>3, <4>1, <4>2
    <3>. QED
      BY <3>2, <3>4, <3>5 DEF CopiesOK
  <2>2. CASE Relist(v)
    <3>1. /\ watch'[v] = <<>> /\ cache'[v] = store[v]
          /\ \A w \in VDBs \ {v} : watch'[w] = watch[w] /\ cache'[w] = cache[w]
      BY <2>2 DEF Relist, See, TypeOK
    <3>2. Len(watch'[v]) = 0
      BY <3>1
    <3>. QED
      BY <3>1, <3>2 DEF CopiesOK
  <2>3. CASE OwnedEvent(v) \/ DelayOver(v)
    BY <2>3 DEF OwnedEvent, DelayOver, kubeVars, CopiesOK
  <2>. QED
    BY <2>1, <2>2, <2>3
<1>3. CopiesOK'
  BY <1>1, <1>2 DEF CopiesOK
<1>4. WorkerOK'
  BY <1>1 DEF WorkerOK
<1>. QED
  BY <1>1, <1>3, <1>4, NothingWritten DEF Refines

\* starting a reconcile writes nothing and works on a copy
LEMMA RefineReconcile ==
    ASSUME RefInv, NEW v \in VDBs, Reconcile(v) \/ ReconcileReadFails(v)
    PROVE  Refines
<1>1. UNCHANGED <<store, rev, watch, cache>>
  BY DEF Reconcile, ReconcileDeleted, ReconcileUpdated, ReconcileActions,
     ReconcileReadFails, Take, kubeVars
<1>2. \/ worker' = worker
      \/ /\ worker'.key = v /\ worker'.inst = cache[v]
         /\ \/ /\ worker'.pc = "update"
               /\ IsVdbUpdated(cache[v].obj)
               /\ worker'.target = RedeployVdb(cache[v].obj)
            \/ /\ worker'.pc = "handle"
               /\ ~IsVdbUpdated(cache[v].obj)
  BY DEF Reconcile, ReconcileDeleted, ReconcileUpdated, ReconcileActions,
     ReconcileReadFails
<1>3. CopiesOK'
  BY <1>1, <1>2 DEF RefInv, CopiesOK
<1>4. WorkerOK'
  BY <1>2 DEF RefInv, WorkerOK
<1>. QED
  BY <1>1, <1>3, <1>4, NothingWritten DEF Refines

\* the outcomes of the step the worker is at are the outcomes of its handler
LEMMA HandlerOutcome ==
    ASSUME RefInv, Handle
    PROVE  /\ worker.pc = "handle"
           /\ \E o \in Outcomes(BuildSteps[worker.step], worker.inst.obj) : Handled(o)
<1>1. CASE HandleInitialize
  BY <1>1 DEF HandleInitialize, AtStep, Outcomes
<1>2. CASE HandleCacheStore
  BY <1>2 DEF HandleCacheStore, AtStep, Outcomes
<1>3. CASE HandleS2IBuilderImage
  BY <1>3 DEF HandleS2IBuilderImage, AtStep, Outcomes
<1>4. CASE HandleServiceImage
  BY <1>4 DEF HandleServiceImage, AtStep, Outcomes
<1>5. CASE HandleCreateService
  BY <1>5 DEF HandleCreateService, AtStep, Outcomes
<1>6. CASE HandleCreateCertificate
  BY <1>6 DEF HandleCreateCertificate, AtStep, Outcomes
<1>7. CASE HandleDeployment
  BY <1>7 DEF HandleDeployment, AtStep, Outcomes
<1>8. CASE HandlePrometheusMonitor
  BY <1>8 DEF HandlePrometheusMonitor, AtStep, Outcomes
<1>. QED
  BY <1>1, <1>2, <1>3, <1>4, <1>5, <1>6, <1>7, <1>8 DEF Handle

\* a handler writes nothing and leaves its own result as the target
LEMMA RefineHandle ==
    ASSUME RefInv, Handle
    PROVE  Refines
<1>. USE DEF RefInv, TypeInv
<1>. DEFINE t == worker.inst.obj
            S == StepsFrom(worker.step + 1, t.status.phase)
<1>1. worker.pc = "handle" /\ worker \in Busy
  BY HandlerOutcome, WorkerBusy
<1>2. PICK o \in Outcomes(BuildSteps[worker.step], t) : Handled(o)
  BY HandlerOutcome
<1>3. UNCHANGED <<store, rev, watch, cache>>
  BY <1>2 DEF Handled, kubeVars
<1>4. \/ worker' = [worker EXCEPT !.pc = "update", !.target = o.target, !.err = o.err]
      \/ worker' = [worker EXCEPT !.step = First(S)]
      \/ worker' = Idle
  BY <1>2 DEF Handled
<1>. HIDE DEF S
<1>5. CASE worker' = [worker EXCEPT !.pc = "update", !.target = o.target, !.err = o.err]
  <2>1. /\ worker'.pc = "update" /\ worker'.target = o.target
        /\ worker'.key = worker.key /\ worker'.inst = worker.inst
    BY <1>1, <1>5 DEF Busy
  <2>2. CopiesOK'
    BY <1>1, <1>3, <2>1 DEF CopiesOK
  <2>3. ~IsVdbUpdated(t) /\ CanHandle(BuildSteps[worker.step], t.status.phase)
    BY <1>1 DEF WorkerOK, HandlesPhase
  <2>4. Advanced(t, o.target)
    BY <1>1, <1>2, <2>3 DEF Advanced, Busy
  <2>5. WorkerOK'
    BY <2>1, <2>3, <2>4 DEF WorkerOK
  <2>. QED
    BY <1>3, <2>2, <2>5, NothingWritten DEF Refines
<1>6. CASE worker' = [worker EXCEPT !.step = First(S)]
  <2>1. /\ worker'.pc = "handle"
        /\ worker'.key = worker.key /\ worker'.inst = worker.inst
    BY <1>1, <1>6 DEF Busy
  <2>2. CopiesOK'
    BY <1>1, <1>3, <2>1 DEF CopiesOK
  <2>3. WorkerOK'
    BY <1>1, <2>1 DEF WorkerOK
  <2>. QED
    BY <1>3, <2>2, <2>3, NothingWritten DEF Refines
<1>7. CASE worker' = Idle
  <2>1. CopiesOK' /\ WorkerOK'
    BY <1>3, <1>7 DEF CopiesOK, WorkerOK, Idle
  <2>. QED
    BY <1>3, <2>1, NothingWritten DEF Refines
<1>. QED
  BY <1>4, <1>5, <1>6, <1>7

\* the worker's write is accepted only on the version its target comes from
LEMMA RefineUpdate ==
    ASSUME RefInv, Update
    PROVE  Refines
<1>. USE DEF RefInv, TypeInv
<1>1. /\ worker.pc = "update" /\ worker.key \in VDBs /\ worker.target \in Vdb
      /\ worker.inst \in Stored
  BY WorkerBusy DEF Update, UpdateSucceeds, UpdateRejected, UpdateTimesOut
<1>. PICK v \in VDBs : v = worker.key
  BY <1>1
<1>. DEFINE x == NewVersion(v, worker.target)
<1>2. worker' = Idle /\ cache' = cache
  BY DEF Update, UpdateSucceeds, UpdateRejected, UpdateTimesOut
<1>3. WorkerOK'
  BY <1>2 DEF WorkerOK, Idle
<1>4. CASE UpdateSucceeds \/ UpdateTimesOut
  <2>1. /\ store[v] # NoVdb /\ store[v].rv = worker.inst.rv
        /\ Write(v, x)
    BY <1>4 DEF UpdateSucceeds, UpdateTimesOut, NoConflict
  <2>2. worker.inst = store[v]
    <3>1. Copy(worker.inst, store[v], rev[v])
      BY <1>1 DEF CopiesOK
    <3>2. worker.inst # NoVdb
      BY <1>1, StoredIsResource
    <3>. QED
      BY <2>1, <3>1, <3>2 DEF Copy
  <2>3. x \in Stored /\ x.rv = rev[v] + 1 /\ x.obj = worker.target
    BY <1>1, <2>1, NewVersionType DEF NewVersion
  <2>. HIDE DEF x
  <2>4. CopiesOK'
    BY <1>1, <1>2, <2>1, <2>3, WriteCopies
  <2>5. Resource[v] # NoVdb /\ Resource[v] = worker.inst.obj
    BY <1>1, <2>1, <2>2, ResourceAt
  <2>6. Resource' = [Resource EXCEPT ![v] = worker.target]
    <3>1. store' = [store EXCEPT ![v] = x]
      BY <2>1 DEF Write
    <3>2. Obj(x) = worker.target
      BY <2>3, StoredIsResource
    <3>3. Resource' = [Resource EXCEPT ![v] = Obj(x)]
      BY <1>1, <3>1, ResourceWrite
    <3>. QED
      BY <3>2, <3>3
  <2>7. CASE /\ IsVdbUpdated(worker.inst.obj)
             /\ worker.target = RedeployVdb(worker.inst.obj)
    <3>1. Abs!Redeploy(v)
      BY <1>1, <2>5, <2>6, <2>7, AbsRedeploy
    <3>. QED
      BY <1>1, <1>3, <2>4, <3>1 DEF Refines, Abs!LNext
  <2>8. CASE /\ ~IsVdbUpdated(worker.inst.obj)
             /\ Advanced(worker.inst.obj, worker.target)
    <3>1. Abs!Advance(v)
      BY <1>1, <2>5, <2>6, <2>8, AbsAdvance
    <3>. QED
      BY <1>1, <1>3, <2>4, <3>1 DEF Refines, Abs!LNext
  <2>. QED
    BY <1>1, <2>7, <2>8 DEF WorkerOK
<1>5. CASE UpdateRejected
  <2>1. UNCHANGED <<store, rev, watch>>
    BY <1>5 DEF UpdateRejected, kubeVars
  <2>2. CopiesOK'
    BY <1>2, <2>1 DEF CopiesOK, Idle
  <2>. QED
    BY <1>3, <2>1, <2>2, NothingWritten DEF Refines
<1>. QED
  BY <1>4, <1>5 DEF Update

\* a restart writes nothing and drops the copies
LEMMA RefineRestart ==
    ASSUME RefInv, Crash \/ HandlerPanics
    PROVE  Refines
<1>1. Restart
  BY DEF Crash, HandlerPanics
<1>2. /\ store' = store /\ rev' = rev /\ cache' = store /\ worker' = Idle
      /\ \A v \in VDBs : Len(watch'[v]) = 0
  BY <1>1 DEF Restart
<1>3. CopiesOK' /\ WorkerOK'
  BY <1>2 DEF RefInv, CopiesOK, WorkerOK, Idle
<1>. QED
  BY <1>2, <1>3, NothingWritten DEF Refines

\* RefInv is inductive, and every step is a step of Lifecycle
LEMMA RefStep ==
    RefInv /\ [Next]_vars => RefInv' /\ (Resource' = Resource \/ Abs!LNext)
<1>. SUFFICES ASSUME RefInv, [Next]_vars
              PROVE  RefInv' /\ (Resource' = Resource \/ Abs!LNext)
  OBVIOUS
<1>1. TypeInv'
  BY TypeStep DEF RefInv
<1>2. CASE UNCHANGED vars
  BY <1>1, <1>2, NothingWritten DEF RefInv, CopiesOK, WorkerOK, vars
<1>3. CASE Next
  <2>1. Refines
    BY <1>3, RefineUser, RefineWatch, RefineReconcile, RefineHandle, RefineUpdate,
       RefineRestart DEF Next, Loop
  <2>. QED
    BY <1>1, <2>1 DEF Refines, RefInv
<1>. QED
  BY <1>2, <1>3

\* RefInv holds in the initial states
LEMMA RefInit == Init => RefInv
<1>. SUFFICES ASSUME Init PROVE RefInv
  OBVIOUS
<1>1. \A v \in VDBs : Len(watch[v]) = 0 /\ cache[v] = NoVdb /\ store[v] = NoVdb
  BY DEF Init
<1>2. worker.pc = "idle"
  BY DEF Init, Idle
<1>. QED
  BY <1>1, <1>2, TypeInit DEF RefInv, CopiesOK, WorkerOK, Copy

\* The control loop implements the atomic life cycle.  Whatever edits, events,
\* conflicts, lost answers, crashes and relists come between the worker's read
\* of a VirtualDatabase and its write, a write that takes effect redeploys or
\* advances the resource as it stands then; nothing else changes it but its
\* user.
THEOREM LoopImplementsLifecycle == Spec => ImplementsLifecycle
<1>1. Init => Abs!LInit
  BY DEF Init, Abs!LInit
<1>2. RefInv /\ [Next]_vars =>
         [Abs!LNext]_[v \in VDBs |-> IF store[v] = NoVdb THEN NoVdb ELSE store[v].obj]
  BY RefStep DEF Resource, Obj
<1>. QED
  BY <1>1, <1>2, RefInit, RefStep, PTL DEF Spec, ImplementsLifecycle, Abs!LSpec

-----------------------------------------------------------------------------
(* What a step may store, and which versions the operator may hold.         *)

\* The ways name v comes to be stored as s: its user creates it,
UserCreated(v, s) ==
    /\ store[v] = NoVdb
    /\ \E u \in UserSpecs :
          s = [uid |-> rev[v] + 1, rv |-> rev[v] + 1, gen |-> 1, obj |-> NewVdb(u)]

\* edits it (only a replace touches the replicas),
UserEdited(v, s) ==
    /\ store[v] # NoVdb
    /\ \E u \in VdbSpec :
          /\ s = NewVersion(v, [store[v].obj EXCEPT !.spec = u])
          /\ \E w \in UserSpecs : u = [w EXCEPT !.replicas = u.replicas]
          /\ u.replicas = store[v].obj.spec.replicas \/ spent'.replaces > 0

\* or deletes it,
UserDeleted(v, s) == store[v] # NoVdb /\ s = NoVdb

\* and the worker writes the target it computed from the stored object.
WorkerUpdated(v, s) ==
    /\ store[v] # NoVdb
    /\ worker.pc = "update" /\ worker.key = v /\ worker.inst = store[v]
    /\ s = NewVersion(v, worker.target)

Stores(v, s) ==
    /\ s \in Stored \cup {NoVdb}
    /\ Write(v, s)
    /\ cache' = cache
    /\ \/ (UserCreated(v, s) \/ UserEdited(v, s) \/ UserDeleted(v, s)) /\ worker' = worker
       \/ WorkerUpdated(v, s) /\ worker' = Idle

\* a user's write creates, edits or deletes
LEMMA UserStores ==
    ASSUME RefInv, NEW v \in VDBs, User(v)
    PROVE  \E s : Stores(v, s)
<1>. USE DEF RefInv, TypeInv
<1>1. cache' = cache /\ worker' = worker
  BY DEF User, UserCreate, UserEdit, UserEditTo, UserReplace, UserDelete, loopVars
<1>2. ASSUME NEW u \in UserSpecs, UserCreate(v, u)
      PROVE  \E s : Stores(v, s)
  <2>. DEFINE x == [uid |-> rev[v] + 1, rv |-> rev[v] + 1, gen |-> 1,
                    obj |-> NewVdb(u)]
  <2>1. x \in Stored
    BY NewVdbType, ReconcilerAssumption DEF Stored, TypeOK
  <2>2. Write(v, x) /\ UserCreated(v, x)
    BY <1>2 DEF UserCreate, UserCreated
  <2>. QED
    BY <1>1, <2>1, <2>2 DEF Stores
<1>3. ASSUME NEW u \in VdbSpec, UserEditTo(v, u),
             \E w \in UserSpecs : u = [w EXCEPT !.replicas = u.replicas],
             u.replicas = store[v].obj.spec.replicas \/ spent'.replaces > 0
      PROVE  \E s : Stores(v, s)
  <2>. DEFINE x == NewVersion(v, [store[v].obj EXCEPT !.spec = u])
  <2>1. store[v] # NoVdb /\ store[v].obj \in Vdb
    BY <1>3 DEF UserEditTo, TypeOK, Stored
  <2>2. x \in Stored
    BY <2>1, WithPart, NewVersionType
  <2>3. Write(v, x) /\ UserEdited(v, x)
    BY <1>3, <2>1 DEF UserEditTo, UserEdited
  <2>. QED
    BY <1>1, <2>2, <2>3 DEF Stores
<1>4. ASSUME NEW w \in UserSpecs, UserEdit(v, w)
      PROVE  \E s : Stores(v, s)
  <2>. DEFINE u == [w EXCEPT !.replicas = store[v].obj.spec.replicas]
  <2>1. store[v].obj.spec.replicas \in {NoReplicas} \cup Nat /\ w \in VdbSpec
    BY <1>4, ReconcilerAssumption DEF UserEdit, TypeOK, Stored, Vdb, VdbSpec
  <2>2. u \in VdbSpec /\ u.replicas = store[v].obj.spec.replicas
    BY <2>1 DEF VdbSpec
  <2>3. UserEditTo(v, u)
    BY <1>4 DEF UserEdit
  <2>. QED
    BY <1>3, <2>2, <2>3
<1>5. ASSUME NEW w \in UserSpecs, UserReplace(v, w)
      PROVE  \E s : Stores(v, s)
  <2>1. w \in VdbSpec /\ w = [w EXCEPT !.replicas = w.replicas]
    BY ReconcilerAssumption DEF VdbSpec
  <2>2. spent' = [spent EXCEPT !["replaces"] = @ + 1]
    BY <1>5 DEF UserReplace, Spend
  <2>3. spent'.replaces > 0
    BY <2>2, LimitNames DEF TypeOK
  <2>. QED
    BY <1>3, <1>5, <2>1, <2>3 DEF UserReplace
<1>6. ASSUME UserDelete(v)
      PROVE  \E s : Stores(v, s)
  <2>1. Write(v, NoVdb) /\ UserDeleted(v, NoVdb)
    BY <1>6 DEF UserDelete, UserDeleted
  <2>. QED
    BY <1>1, <2>1 DEF Stores
<1>. QED
  BY <1>2, <1>4, <1>5, <1>6 DEF User

\* a write of the worker that takes effect overwrites the very object the
\* worker computed its target from
LEMMA UpdateStores ==
    ASSUME RefInv, Update
    PROVE  \/ UNCHANGED <<store, rev, watch>>
           \/ \E v \in VDBs : \E s : Stores(v, s)
<1>. USE DEF RefInv, TypeInv
<1>1. /\ worker.pc = "update" /\ worker.key \in VDBs /\ worker.target \in Vdb
      /\ worker.inst \in Stored
  BY WorkerBusy DEF Update, UpdateSucceeds, UpdateRejected, UpdateTimesOut
<1>2. worker' = Idle /\ cache' = cache
  BY DEF Update, UpdateSucceeds, UpdateRejected, UpdateTimesOut
<1>3. CASE UpdateSucceeds \/ UpdateTimesOut
  <2>. DEFINE v == worker.key
              x == NewVersion(v, worker.target)
  <2>1. store[v] # NoVdb /\ store[v].rv = worker.inst.rv /\ Write(v, x)
    BY <1>3 DEF UpdateSucceeds, UpdateTimesOut, NoConflict
  <2>2. worker.inst = store[v]
    <3>1. Copy(worker.inst, store[v], rev[v])
      BY <1>1 DEF CopiesOK
    <3>2. worker.inst # NoVdb
      BY <1>1, StoredIsResource
    <3>. QED
      BY <2>1, <3>1, <3>2 DEF Copy
  <2>3. x \in Stored
    BY <1>1, <2>1, NewVersionType
  <2>4. WorkerUpdated(v, x)
    BY <1>1, <2>1, <2>2 DEF WorkerUpdated
  <2>5. Stores(v, x)
    BY <1>2, <2>1, <2>3, <2>4 DEF Stores
  <2>. QED
    BY <1>1, <2>5
<1>4. CASE UpdateRejected
  BY <1>4 DEF UpdateRejected, kubeVars
<1>. QED
  BY <1>3, <1>4 DEF Update

\* a step stores nothing, or stores one object in one of these ways
LEMMA StoreStep ==
    ASSUME RefInv, [Next]_vars
    PROVE  \/ UNCHANGED <<store, rev>>
           \/ \E v \in VDBs : \E s : Stores(v, s)
<1>1. CASE UNCHANGED vars
  BY <1>1 DEF vars
<1>2. CASE \E v \in VDBs : User(v)
  BY <1>2, UserStores
<1>3. CASE Update
  BY <1>3, UpdateStores
<1>4. CASE Handle
  <2>1. \E o : Handled(o)
    BY <1>4, HandlerOutcome
  <2>. QED
    BY <2>1 DEF Handled, kubeVars
<1>5. CASE \E v \in VDBs : \/ Deliver(v) \/ Relist(v) \/ OwnedEvent(v)
                           \/ DelayOver(v)
  BY <1>5 DEF Deliver, Relist, See, OwnedEvent, DelayOver, kubeVars
<1>6. CASE \E v \in VDBs : Reconcile(v) \/ ReconcileReadFails(v)
  BY <1>6 DEF Reconcile, ReconcileDeleted, ReconcileUpdated, ReconcileActions,
     ReconcileReadFails, Take, kubeVars
<1>7. CASE Crash \/ HandlerPanics
  BY <1>7 DEF Crash, HandlerPanics, Restart
<1>. QED
  BY <1>1, <1>2, <1>3, <1>4, <1>5, <1>6, <1>7 DEF Next, Loop

(* Every version the operator holds was once stored.  Known(S, ...) says     *)
(* that each version of v, stored, cached, announced or being worked on, is  *)
(* in S[v]; what can be said of everything that is ever stored can therefore *)
(* be said of every stale copy.                                              *)
Known(S, st, ca, wa, w) ==
    /\ \A v \in VDBs :
          /\ st[v] \in S[v] \cup {NoVdb}
          /\ ca[v] \in S[v] \cup {NoVdb}
          /\ \A i \in 1..Len(wa[v]) : wa[v][i] \in S[v] \cup {NoVdb}
    /\ w.pc # "idle" => w.inst \in S[w.key]

\* a write leaves known copies, if what it stores is known
LEMMA KnownWrite ==
    ASSUME TypeOK, NEW S, NEW T, Known(S, store, cache, watch, worker),
           \A v \in VDBs : S[v] \subseteq T[v],
           \A v \in VDBs : store'[v] \in T[v] \cup {NoVdb},
           NEW v \in VDBs, NEW s, Stores(v, s)
    PROVE  Known(T, store', cache', watch', worker')
<1>1. /\ watch'[v] = Append(watch[v], s) /\ store'[v] = s
      /\ \A w \in VDBs \ {v} : watch'[w] = watch[w]
  BY DEF Stores, Write, TypeOK
<1>2. watch[v] \in Seq(Stored \cup {NoVdb}) /\ s \in Stored \cup {NoVdb}
  BY DEF Stores, TypeOK
<1>3. ASSUME NEW i \in 1..Len(watch'[v])
      PROVE  watch'[v][i] \in T[v] \cup {NoVdb}
  <2>1. Len(watch[v]) \in Nat /\ Len(watch'[v]) = Len(watch[v]) + 1
    BY <1>1, <1>2
  <2>2. CASE i = Len(watch[v]) + 1
    <3>1. watch'[v][i] = s
      BY <1>1, <1>2, <2>2
    <3>. QED
      BY <1>1, <3>1
  <2>3. CASE i \in 1..Len(watch[v])
    <3>1. watch'[v][i] = watch[v][i]
      BY <1>1, <1>2, <2>3
    <3>. QED
      BY <2>3, <3>1 DEF Known
  <2>. QED
    BY <2>1, <2>2, <2>3
<1>4. ASSUME NEW w \in VDBs
      PROVE  \A i \in 1..Len(watch'[w]) : watch'[w][i] \in T[w] \cup {NoVdb}
  <2>1. CASE w = v
    BY <1>3, <2>1
  <2>2. CASE w # v
    BY <1>1, <2>2 DEF Known
  <2>. QED
    BY <2>1, <2>2
<1>5. cache' = cache /\ (worker' = worker \/ worker' = Idle)
  BY DEF Stores
<1>6. worker'.pc # "idle" => worker'.inst \in T[worker'.key]
  BY <1>5, WorkerBusy DEF Known, Idle
<1>7. \A w \in VDBs : cache'[w] \in T[w] \cup {NoVdb}
  BY <1>5 DEF Known
<1>. QED
  BY <1>4, <1>6, <1>7 DEF Known

\* a handler that returns leaves the worker with the same copy: about to write
\* the handler's result, at the next handler, or done
LEMMA HandledWorker ==
    ASSUME TypeOK, worker.pc = "handle", NEW o, Handled(o)
    PROVE  /\ UNCHANGED <<store, rev, watch, cache, queue, spent>>
           /\ \/ worker' = Idle
              \/ /\ worker'.key = worker.key /\ worker'.inst = worker.inst
                 /\ \/ worker'.pc = "update" /\ worker'.target = o.target
                    \/ worker'.pc = "handle"
<1>. DEFINE S == StepsFrom(worker.step + 1, worker.inst.obj.status.phase)
<1>1. worker \in Busy
  BY WorkerBusy
<1>2. \/ worker' = [worker EXCEPT !.pc = "update", !.target = o.target, !.err = o.err]
      \/ worker' = [worker EXCEPT !.step = First(S)]
      \/ worker' = Idle
  BY DEF Handled
<1>. HIDE DEF S
<1>3. CASE worker' = [worker EXCEPT !.pc = "update", !.target = o.target, !.err = o.err]
  BY <1>1, <1>3 DEF Busy, Handled, kubeVars
<1>4. CASE worker' = [worker EXCEPT !.step = First(S)]
  BY <1>1, <1>4 DEF Busy, Handled, kubeVars
<1>5. CASE worker' = Idle
  BY <1>5 DEF Handled, kubeVars
<1>. QED
  BY <1>2, <1>3, <1>4, <1>5

\* the handler the worker is at can handle the phase of its copy
LEMMA AtItsPhase ==
    ASSUME TypeInv, worker.pc = "handle"
    PROVE  LET a == BuildSteps[worker.step]
               p == worker.inst.obj.status.phase
           IN  /\ p = BuilderImage => a = "S2IBuilderImage"
               /\ p = CreateCacheStore => a = "CacheStore"
               /\ p = ServiceImageFinished => a = "CreateService"
               /\ p = ServiceCreated => a = "CreateCertificate"
               /\ p = KeystoreCreated => a = "Deployment"
               /\ a = "ServiceImage" <=> p \in {BuilderImageFinished, ServiceImage}
<1>. DEFINE a == BuildSteps[worker.step]
            p == worker.inst.obj.status.phase
<1>1. CanHandle(a, p)
  BY DEF TypeInv, HandlesPhase
<1>2. worker.step \in 1..Len(BuildSteps)
  BY WorkerBusy DEF TypeInv, Busy
<1>3. a \in {"Initialize", "CacheStore", "S2IBuilderImage", "ServiceImage",
             "CreateService", "CreateCertificate", "Deployment", "PrometheusMonitor"}
  BY <1>2 DEF BuildSteps
<1>. HIDE DEF a, p
<1>. QED
  BY <1>1, <1>3 DEF CanHandle, a, p, Initial, CreateCacheStore, S2IReady,
     BuilderImage, BuilderImageFinished, ServiceImage, ServiceImageFinished,
     ServiceCreated, KeystoreCreated, Deploying, Running

\* every other step only passes copies on
LEMMA KnownRead ==
    ASSUME TypeOK, NEW S, Known(S, store, cache, watch, worker), store' = store,
           \/ \E v \in VDBs : \/ Deliver(v) \/ Relist(v) \/ OwnedEvent(v)
                              \/ DelayOver(v) \/ Reconcile(v)
                              \/ ReconcileReadFails(v)
           \/ UpdateRejected \/ Crash \/ HandlerPanics
           \/ worker.pc = "handle" /\ \E o : Handled(o)
    PROVE  Known(S, store', cache', watch', worker')
<1>1. ASSUME NEW v \in VDBs, Deliver(v)
      PROVE  Known(S, store', cache', watch', worker')
  <2>. DEFINE q == watch[v]
  <2>1. q \in Seq(Stored \cup {NoVdb}) /\ q # <<>>
    BY <1>1 DEF Deliver, TypeOK
  <2>2. /\ watch'[v] = Tail(q) /\ cache'[v] = Head(q) /\ worker' = worker
        /\ \A w \in VDBs \ {v} : watch'[w] = watch[w] /\ cache'[w] = cache[w]
    BY <1>1 DEF Deliver, See, TypeOK
  <2>3. \A i \in 1..Len(q) : q[i] \in S[v] \cup {NoVdb}
    BY DEF Known
  <2>4. cache'[v] \in S[v] \cup {NoVdb}
    BY <2>1, <2>2, <2>3, TailFacts
  <2>5. ASSUME NEW i \in 1..Len(watch'[v])
        PROVE  watch'[v][i] \in S[v] \cup {NoVdb}
    <3>1. i \in 1..(Len(q) - 1) /\ i + 1 \in 1..Len(q)
      BY <2>1, <2>2, TailFacts
    <3>2. watch'[v][i] = q[i + 1]
      BY <2>1, <2>2, <3>1, TailFacts
    <3>. QED
      BY <2>3, <3>1, <3>2
  <2>. HIDE DEF q
  <2>6. \A w \in VDBs : cache'[w] \in S[w] \cup {NoVdb}
    BY <2>2, <2>4 DEF Known
  <2>7. \A w \in VDBs : \A i \in 1..Len(watch'[w]) : watch'[w][i] \in S[w] \cup {NoVdb}
    BY <2>2, <2>5 DEF Known
  <2>. QED
    BY <2>2, <2>6, <2>7 DEF Known
<1>2. ASSUME NEW v \in VDBs, Relist(v)
      PROVE  Known(S, store', cache', watch', worker')
  <2>1. /\ watch'[v] = <<>> /\ cache'[v] = store[v] /\ worker' = worker
        /\ \A w \in VDBs \ {v} : watch'[w] = watch[w] /\ cache'[w] = cache[w]
    BY <1>2 DEF Relist, See, TypeOK
  <2>2. Len(watch'[v]) = 0
    BY <2>1
  <2>3. \A w \in VDBs : cache'[w] \in S[w] \cup {NoVdb}
    BY <2>1 DEF Known
  <2>4. \A w \in VDBs : \A i \in 1..Len(watch'[w]) : watch'[w][i] \in S[w] \cup {NoVdb}
    BY <2>1, <2>2 DEF Known
  <2>. QED
    BY <2>1, <2>3, <2>4 DEF Known
<1>3. ASSUME NEW v \in VDBs, OwnedEvent(v) \/ DelayOver(v)
      PROVE  Known(S, store', cache', watch', worker')
  BY <1>3 DEF OwnedEvent, DelayOver, kubeVars, Known
<1>4. ASSUME NEW v \in VDBs, Reconcile(v) \/ ReconcileReadFails(v)
      PROVE  Known(S, store', cache', watch', worker')
  <2>1. UNCHANGED <<store, watch, cache>>
    BY <1>4 DEF Reconcile, ReconcileDeleted, ReconcileUpdated, ReconcileActions,
       ReconcileReadFails, Take, kubeVars
  <2>2. \/ worker' = worker
        \/ worker'.key = v /\ worker'.inst = cache[v] /\ cache[v] # NoVdb
    BY <1>4 DEF Reconcile, ReconcileDeleted, ReconcileUpdated, ReconcileActions,
       ReconcileReadFails
  <2>. QED
    BY <2>1, <2>2 DEF Known
<1>5. CASE UpdateRejected
  BY <1>5 DEF UpdateRejected, kubeVars, Known, Idle
<1>6. CASE Crash \/ HandlerPanics
  <2>1. Restart
    BY <1>6 DEF Crash, HandlerPanics
  <2>2. /\ cache' = store /\ worker' = Idle
        /\ \A v \in VDBs : Len(watch'[v]) = 0
    BY <2>1 DEF Restart
  <2>. QED
    BY <2>2 DEF Known, Idle
<1>7. ASSUME worker.pc = "handle", NEW o, Handled(o)
      PROVE  Known(S, store', cache', watch', worker')
  <2>1. /\ UNCHANGED <<store, watch, cache>>
        /\ \/ worker' = Idle
           \/ worker'.key = worker.key /\ worker'.inst = worker.inst
    BY <1>7, HandledWorker
  <2>. QED
    BY <1>7, <2>1 DEF Known, Idle
<1>. QED
  BY <1>1, <1>2, <1>3, <1>4, <1>5, <1>6, <1>7

\* if every version is in S and what a step stores is in T, which is no
\* smaller, then every version is in T after the step
LEMMA KnownStep ==
    ASSUME RefInv, [Next]_vars,
           NEW S, NEW T, Known(S, store, cache, watch, worker),
           \A v \in VDBs : S[v] \subseteq T[v],
           \A v \in VDBs : store'[v] \in T[v] \cup {NoVdb}
    PROVE  Known(T, store', cache', watch', worker')
<1>1. TypeOK
  BY DEF RefInv, TypeInv
<1>2. CASE \E v \in VDBs : \E s : Stores(v, s)
  BY <1>1, <1>2, KnownWrite
<1>3. CASE ~\E v \in VDBs : \E s : Stores(v, s)
  <2>1. store' = store
    BY <1>3, StoreStep
  <2>2. Known(S, store', cache', watch', worker')
    <3>1. CASE UNCHANGED vars
      BY <3>1 DEF vars, Known
    <3>2. CASE Handle
      BY <1>1, <2>1, <3>2, HandlerOutcome, KnownRead
    <3>3. CASE Update
      <4>1. worker' = Idle /\ cache' = cache
        BY <3>3 DEF Update, UpdateSucceeds, UpdateRejected, UpdateTimesOut
      <4>2. UNCHANGED <<store, watch>>
        BY <1>3, <3>3, UpdateStores
      <4>. QED
        BY <4>1, <4>2 DEF Known, Idle
    <3>4. CASE \E v \in VDBs : User(v)
      BY <1>3, <3>4, UserStores
    <3>5. CASE \/ \E v \in VDBs : \/ Deliver(v) \/ Relist(v) \/ OwnedEvent(v)
                                  \/ DelayOver(v) \/ Reconcile(v)
                                  \/ ReconcileReadFails(v)
               \/ Crash \/ HandlerPanics
      BY <1>1, <2>1, <3>5, KnownRead
    <3>. QED
      BY <3>1, <3>2, <3>3, <3>4, <3>5 DEF Next, Loop
  <2>3. Known(T, store', cache', watch', worker')
    <3>1. TypeOK'
      BY TypeStep DEF RefInv, TypeInv
    <3>2. worker'.pc # "idle" => worker'.key \in VDBs
      BY <3>1 DEF TypeOK, Busy, Idle
    <3>. QED
      BY <2>2, <3>2 DEF Known
  <2>. QED
    BY <2>3
<1>. QED
  BY <1>2, <1>3

-----------------------------------------------------------------------------
(* What a handler may change.                                               *)

\* the phases a handler may take a resource to, by the phase it finds it in
PhaseStep(p, q) ==
    \/ p = Initial              /\ q \in {Initial, CreateCacheStore}
    \/ p = CreateCacheStore     /\ q = S2IReady
    \/ p = S2IReady             /\ q \in {S2IReady, BuilderImage}
    \/ p = BuilderImage         /\ q \in {BuilderImage, BuilderImageFinished,
                                          BuilderImageFailed}
    \/ p = BuilderImageFinished /\ q \in {ServiceImage, Error}
    \/ p = ServiceImage         /\ q \in {ServiceImage, ServiceImageFinished,
                                          ServiceImageFailed}
    \/ p = ServiceImageFinished /\ q = ServiceCreated
    \/ p = ServiceCreated       /\ q \in {ServiceCreated, KeystoreCreated}
    \/ p = KeystoreCreated      /\ q \in {KeystoreCreated, Deploying}
    \/ p = Deploying            /\ q \in {Deploying, Running, Error}
    \/ p = Running              /\ q = Running

\* what a handler leaves alone
Kept(t, u) ==
    /\ t.status.phase # Initial =>
          /\ u.spec = t.spec
          /\ u.status.version = t.status.version
          /\ u.status.digest = t.status.digest
    /\ t.status.phase # CreateCacheStore => u.status.cacheStore = t.status.cacheStore
    /\ t.status.cacheStore => u.status.cacheStore
    /\ t.status.phase # ServiceImageFinished => u.status.route = t.status.route
    /\ t.status.phase \notin {Initial, BuilderImageFinished, ServiceImageFinished} =>
          u.status.failure = t.status.failure

\* u has the source, the version and the digest of t
Alike(t, u) ==
    /\ u \in Vdb
    /\ u.spec = t.spec
    /\ u.status.version = t.status.version
    /\ u.status.digest = t.status.digest

\* changing the phase
LEMMA InPhaseFields ==
    ASSUME NEW t \in Vdb, NEW q \in Phases
    PROVE  /\ Alike(t, InPhase(t, q))
           /\ InPhase(t, q).status.phase = q
           /\ InPhase(t, q).status.failure = t.status.failure
           /\ InPhase(t, q).status.cacheStore = t.status.cacheStore
           /\ InPhase(t, q).status.route = t.status.route
BY DEF InPhase, Vdb, VdbStatus, Alike

\* changing the failure
LEMMA FailureFields ==
    ASSUME NEW t \in Vdb, NEW f \in Failures
    PROVE  /\ Alike(t, [t EXCEPT !.status.failure = f])
           /\ [t EXCEPT !.status.failure = f].status.phase = t.status.phase
           /\ [t EXCEPT !.status.failure = f].status.cacheStore = t.status.cacheStore
           /\ [t EXCEPT !.status.failure = f].status.route = t.status.route
           /\ [t EXCEPT !.status.failure = f].status.failure = f
BY DEF Vdb, VdbStatus, Alike

\* changing the cache store
LEMMA CacheStoreFields ==
    ASSUME NEW t \in Vdb, NEW c \in BOOLEAN
    PROVE  /\ Alike(t, [t EXCEPT !.status.cacheStore = c])
           /\ [t EXCEPT !.status.cacheStore = c].status.phase = t.status.phase
           /\ [t EXCEPT !.status.cacheStore = c].status.failure = t.status.failure
           /\ [t EXCEPT !.status.cacheStore = c].status.route = t.status.route
           /\ [t EXCEPT !.status.cacheStore = c].status.cacheStore = c
BY DEF Vdb, VdbStatus, Alike

\* recording a route
LEMMA RouteFields ==
    ASSUME NEW t \in Vdb
    PROVE  /\ Alike(t, [t EXCEPT !.status.route = TRUE])
           /\ [t EXCEPT !.status.route = TRUE].status.phase = t.status.phase
           /\ [t EXCEPT !.status.route = TRUE].status.failure = t.status.failure
           /\ [t EXCEPT !.status.route = TRUE].status.cacheStore = t.status.cacheStore
           /\ [t EXCEPT !.status.route = TRUE].status.route = TRUE
BY DEF Vdb, VdbStatus, Alike

\* recording the digest of the configuration
LEMMA ConfigDigestFields ==
    ASSUME NEW t \in Vdb, NEW c \in ConfigDigests
    PROVE  /\ Alike(t, [t EXCEPT !.status.configDigest = c])
           /\ [t EXCEPT !.status.configDigest = c].status.phase = t.status.phase
           /\ [t EXCEPT !.status.configDigest = c].status.failure = t.status.failure
           /\ [t EXCEPT !.status.configDigest = c].status.cacheStore = t.status.cacheStore
           /\ [t EXCEPT !.status.configDigest = c].status.route = t.status.route
BY DEF Vdb, VdbStatus, Alike

\* the version under which Initialize deploys a resource
DeployedAs(t) ==
    IF t.spec.maven # <<>> /\ GavVersion[t.spec.maven] # NoVersion
    THEN GavVersion[t.spec.maven]
    ELSE IF ImplicitVersion(t) /\ t.status.version = NoVersion
         THEN 1 ELSE t.status.version

\* u is t after Initialize has found all it refers to
Begun(t, u) ==
    /\ u \in Vdb
    /\ u.spec.replicas # NoReplicas
    /\ u.spec.ddl = t.spec.ddl
    /\ u.spec.maven = t.spec.maven
    /\ u.spec.openapi = t.spec.openapi
    /\ u.spec.version = t.spec.version
    /\ u.status.phase = CreateCacheStore
    /\ u.status.digest = ComputeForVirtualDatabase(t.spec)
    /\ u.status.version = DeployedAs(t)
    /\ u.status.failure = ""
    /\ u.status.cacheStore = t.status.cacheStore
    /\ u.status.route = t.status.route

\* a resource as Initialize leaves it
LEMMA InitializedFields ==
    ASSUME NEW t \in Vdb, NEW c \in ConfigDigests
    PROVE  Begun(t, Initialized(t, c))
<1>. DEFINE n == IF t.spec.replicas = NoReplicas THEN 1 ELSE t.spec.replicas
            s == [t.spec EXCEPT !.replicas = n]
            u == [t.status EXCEPT !.version = DeployedAs(t)]
            x == [u EXCEPT !.failure = "", !.phase = CreateCacheStore,
                           !.digest = ComputeForVirtualDatabase(t.spec),
                           !.configDigest = c]
<1>1. t.spec \in VdbSpec /\ t.status \in VdbStatus
  BY VdbParts
<1>2. n \in Nat /\ n # NoReplicas
  BY <1>1 DEF VdbSpec, NoReplicas
<1>3. InitVdb(t) = [t EXCEPT !.spec = s, !.status = u]
  BY DEF InitVdb, Vdb, VdbSpec, VdbStatus, DeployedAs
<1>. HIDE DEF n
<1>4. /\ s.replicas = n /\ s.ddl = t.spec.ddl /\ s.maven = t.spec.maven
      /\ s.openapi = t.spec.openapi /\ s.version = t.spec.version
  BY <1>1 DEF VdbSpec
<1>. HIDE DEF s
<1>5. DeployedAs(t) \in Version
  BY <1>1, VdbAssumption DEF DeployedAs, Version, VdbSpec, VdbStatus
<1>6. /\ u \in VdbStatus /\ u.version = DeployedAs(t)
      /\ u.cacheStore = t.status.cacheStore /\ u.route = t.status.route
  BY <1>1, <1>5 DEF VdbStatus
<1>. HIDE DEF u
<1>7. /\ x.phase = CreateCacheStore /\ x.digest = ComputeForVirtualDatabase(t.spec)
      /\ x.version = DeployedAs(t) /\ x.failure = ""
      /\ x.cacheStore = t.status.cacheStore /\ x.route = t.status.route
  BY <1>6 DEF VdbStatus
<1>8. Initialized(t, c) = [InitVdb(t) EXCEPT !.status = x]
  BY <1>3, <1>6 DEF Initialized, Vdb, VdbStatus
<1>. HIDE DEF x
<1>9. InitVdb(t).spec = s /\ InitVdb(t) = [t EXCEPT !.spec = s, !.status = u]
  BY <1>3 DEF Vdb
<1>10. Initialized(t, c).spec = s /\ Initialized(t, c).status = x
  BY <1>8, <1>9 DEF Vdb
<1>. QED
  BY <1>2, <1>4, <1>7, <1>10, InitializedType DEF Begun

\* the resource a handler returns
LEMMA ReturnTarget == \A x : Return(x).target = x /\ Fail(x).target = x
BY DEF Return, Fail

\* a handler moves a resource along the phases, and changes what is its own
LEMMA AdvancedFacts ==
    ASSUME NEW t \in Vdb, NEW u, Advanced(t, u)
    PROVE  /\ u \in Vdb
           /\ PhaseStep(t.status.phase, u.status.phase)
           /\ Kept(t, u)
           /\ t.status.phase = Initial =>
                 Begun(t, u) \/ (Alike(t, u) /\ u.status.phase = Initial)
<1>. DEFINE p == t.status.phase
            Goal == /\ u \in Vdb /\ PhaseStep(p, u.status.phase) /\ Kept(t, u)
                    /\ p = Initial =>
                          Begun(t, u) \/ (Alike(t, u) /\ u.status.phase = Initial)
<1>1. ASSUME NEW q \in Phases, PhaseStep(p, q), p # Initial, u = InPhase(t, q)
      PROVE  Goal
  BY <1>1, InPhaseFields DEF Kept, Alike
<1>2. ASSUME u = t, PhaseStep(p, p), p # Initial
      PROVE  Goal
  BY <1>2 DEF Kept
<1>. PICK i \in 1..Len(BuildSteps) :
        /\ CanHandle(BuildSteps[i], p)
        /\ \E x \in Outcomes(BuildSteps[i], t) : u = x.target
  BY DEF Advanced
<1>3. PICK o \in Outcomes(BuildSteps[i], t) : u = o.target
  OBVIOUS
<1>. USE DEF Initial, CreateCacheStore, S2IReady, BuilderImage, BuilderImageFinished,
         BuilderImageFailed, ServiceImage, ServiceImageFinished, ServiceImageFailed,
         ServiceCreated, KeystoreCreated, Deploying, Running, Error
<1>4. CASE BuildSteps[i] = "Initialize"
  <2>1. p = Initial /\ o \in InitializeOutcomes(t)
    BY <1>3, <1>4 DEF CanHandle, Outcomes
  <2>2. \/ \E f \in Failures : u = [t EXCEPT !.status.failure = f]
        \/ \E c \in ConfigDigests : u = Initialized(t, c)
    <3>1. "env" \in Failures /\ ConfigMissing \subseteq Failures
          /\ ConfigRead \subseteq ConfigDigests
      BY DEF Failures, ConfigMissing, ConfigRead
    <3>. QED
      BY <1>3, <2>1, <3>1 DEF InitializeOutcomes, Return, Fail
  <2>3. ASSUME NEW f \in Failures, u = [t EXCEPT !.status.failure = f]
        PROVE  Goal
    <3>1. /\ Alike(t, u) /\ u.status.phase = t.status.phase
          /\ u.status.cacheStore = t.status.cacheStore
          /\ u.status.route = t.status.route
      BY <2>3, FailureFields
    <3>. QED
      BY <2>1, <3>1 DEF Kept, PhaseStep, Alike
  <2>4. ASSUME NEW c \in ConfigDigests, u = Initialized(t, c)
        PROVE  Goal
    <3>1. Begun(t, u)
      BY <2>4, InitializedFields
    <3>. QED
      BY <2>1, <3>1 DEF Kept, PhaseStep, Begun
  <2>. QED
    BY <2>2, <2>3, <2>4
<1>5. CASE BuildSteps[i] = "CacheStore"
  <2>1. p = CreateCacheStore /\ o \in CacheStoreOutcomes(t)
    BY <1>3, <1>5 DEF CanHandle, Outcomes
  <2>2. PICK c \in {t.status.cacheStore, t.status.cacheStore \/ "infinispan" \in Conditions} :
           u = InPhase([t EXCEPT !.status.cacheStore = c], S2IReady)
    BY <1>3, <2>1, ReturnTarget DEF CacheStoreOutcomes
  <2>3. c \in BOOLEAN /\ (t.status.cacheStore => c)
    BY <2>2, VdbParts
  <2>. DEFINE x == [t EXCEPT !.status.cacheStore = c]
  <2>4. /\ Alike(t, x) /\ x.status.failure = t.status.failure
        /\ x.status.route = t.status.route /\ x.status.cacheStore = c
    BY <2>3, CacheStoreFields
  <2>5. u = InPhase(x, S2IReady) /\ S2IReady \in Phases
    BY <2>2 DEF Phases
  <2>. HIDE DEF x
  <2>6. /\ Alike(x, u) /\ u.status.phase = S2IReady
        /\ u.status.failure = x.status.failure /\ u.status.route = x.status.route
        /\ u.status.cacheStore = x.status.cacheStore
    BY <2>4, <2>5, InPhaseFields DEF Alike
  <2>. QED
    BY <2>1, <2>3, <2>4, <2>6 DEF PhaseStep, Kept, Alike
<1>6. CASE BuildSteps[i] = "S2IBuilderImage"
  <2>1. p \in {S2IReady, BuilderImage} /\ o \in S2IBuilderImageOutcomes(t)
    BY <1>3, <1>6 DEF CanHandle, Outcomes
  <2>2. \/ u = t
        \/ \E q \in {BuilderImage, BuilderImageFinished, BuilderImageFailed} :
              u = InPhase(t, q) /\ (p = BuilderImage \/ q = BuilderImage)
    BY <1>3, <2>1, ReturnTarget, ZenonT(60) DEF S2IBuilderImageOutcomes
  <2>. QED
    BY <1>1, <1>2, <2>1, <2>2 DEF PhaseStep, Phases
<1>7. CASE BuildSteps[i] = "ServiceImage"
  <2>1. p \in {BuilderImageFinished, ServiceImage} /\ o \in ServiceImageOutcomes(t)
    BY <1>3, <1>7 DEF CanHandle, Outcomes
  <2>2. CASE p = ServiceImage
    <3>1. \/ u = t
          \/ \E q \in {ServiceImage, ServiceImageFinished, ServiceImageFailed} :
                u = InPhase(t, q)
      BY <1>3, <2>1, <2>2, ReturnTarget DEF ServiceImageOutcomes
    <3>. QED
      BY <1>1, <1>2, <2>2, <3>1 DEF PhaseStep, Phases
  <2>3. CASE p = BuilderImageFinished
    <3>. DEFINE x == [t EXCEPT !.status.failure = "build"]
    <3>1. u = InPhase(t, ServiceImage) \/ u = InPhase(x, Error)
      BY <1>3, <2>1, <2>3, ReturnTarget DEF ServiceImageOutcomes
    <3>2. CASE u = InPhase(t, ServiceImage)
      BY <1>1, <2>3, <3>2 DEF PhaseStep, Phases
    <3>3. CASE u = InPhase(x, Error)
      <4>1. /\ Alike(t, x) /\ x.status.route = t.status.route
            /\ x.status.cacheStore = t.status.cacheStore
        BY FailureFields DEF Failures
      <4>. HIDE DEF x
      <4>2. /\ Alike(x, u) /\ u.status.phase = Error
            /\ u.status.route = x.status.route
            /\ u.status.cacheStore = x.status.cacheStore
        BY <3>3, <4>1, InPhaseFields DEF Alike, Phases
      <4>. QED
        BY <2>3, <4>1, <4>2 DEF PhaseStep, Kept, Alike
    <3>. QED
      BY <3>1, <3>2, <3>3
  <2>. QED
    BY <2>1, <2>2, <2>3
<1>8. CASE BuildSteps[i] = "CreateService"
  <2>1. p = ServiceImageFinished /\ o \in CreateServiceOutcomes(t)
    BY <1>3, <1>8 DEF CanHandle, Outcomes
  <2>2. PICK x \in Exposed(t) : u = InPhase(x, ServiceCreated)
    BY <1>3, <2>1, ReturnTarget DEF CreateServiceOutcomes
  <2>3. Alike(t, x) /\ x.status.cacheStore = t.status.cacheStore
    <3>. DEFINE y == [t EXCEPT !.status.failure = "expose"]
    <3>1. Alike(t, y) /\ y.status.cacheStore = t.status.cacheStore
      BY FailureFields DEF Failures
    <3>2. \/ x = t \/ x = y
          \/ x = [t EXCEPT !.status.route = TRUE]
          \/ x = [y EXCEPT !.status.route = TRUE]
      BY <2>2 DEF Exposed
    <3>. HIDE DEF y
    <3>. QED
      BY <3>1, <3>2, RouteFields DEF Alike
  <2>4. /\ Alike(x, u) /\ u.status.phase = ServiceCreated
        /\ u.status.cacheStore = x.status.cacheStore
    BY <2>2, <2>3, InPhaseFields, ZenonT(60) DEF Alike, Phases
  <2>. QED
    BY <2>1, <2>3, <2>4 DEF PhaseStep, Kept, Alike
<1>9. CASE BuildSteps[i] = "CreateCertificate"
  <2>1. p = ServiceCreated /\ o \in CreateCertificateOutcomes(t)
    BY <1>3, <1>9 DEF CanHandle, Outcomes
  <2>2. u = t \/ u = InPhase(t, KeystoreCreated)
    BY <1>3, <2>1, ReturnTarget DEF CreateCertificateOutcomes
  <2>. QED
    BY <1>1, <1>2, <2>1, <2>2 DEF PhaseStep, Phases
<1>10. CASE BuildSteps[i] = "Deployment"
  <2>1. p \in {KeystoreCreated, Deploying, Running} /\ o \in DeploymentOutcomes(t)
    BY <1>3, <1>10 DEF CanHandle, Outcomes
  <2>2. CASE p = KeystoreCreated
    <3>1. u = t \/ u = InPhase(t, Deploying)
      BY <1>3, <2>1, <2>2, ReturnTarget DEF DeploymentOutcomes
    <3>. QED
      BY <1>1, <1>2, <2>2, <3>1 DEF PhaseStep, Phases
  <2>3. CASE p = Deploying
    <3>1. \E q \in {Deploying, Running, Error} : u = InPhase(t, q)
      BY <1>3, <2>1, <2>3, ReturnTarget DEF DeploymentOutcomes
    <3>. QED
      BY <1>1, <2>3, <3>1 DEF PhaseStep, Phases
  <2>4. CASE p = Running
    <3>1. u \in Redigested(t)
      BY <1>3, <2>1, <2>4, ReturnTarget DEF DeploymentOutcomes
    <3>2. CASE u = t
      BY <1>2, <2>4, <3>2 DEF PhaseStep
    <3>3. ASSUME NEW c \in ConfigDigests, u = [t EXCEPT !.status.configDigest = c]
          PROVE  Goal
      BY <2>4, <3>3, ConfigDigestFields DEF PhaseStep, Kept, Alike
    <3>. QED
      BY <3>1, <3>2, <3>3 DEF Redigested
  <2>. QED
    BY <2>1, <2>2, <2>3, <2>4
<1>11. CASE BuildSteps[i] = "PrometheusMonitor"
  <2>1. p = Running /\ u = t
    BY <1>3, <1>11 DEF CanHandle, Outcomes, PrometheusMonitorOutcomes, Return, Fail
  <2>. QED
    BY <1>2, <2>1 DEF PhaseStep
<1>. QED
  <2>1. Len(BuildSteps) = 8
    BY DEF BuildSteps
  <2>2. \/ i = 1 \/ i = 2 \/ i = 3 \/ i = 4 \/ i = 5 \/ i = 6 \/ i = 7 \/ i = 8
    BY <2>1
  <2>. QED
    BY <2>2, <1>4, <1>5, <1>6, <1>7, <1>8, <1>9, <1>10, <1>11 DEF BuildSteps

\* a redeployed resource
LEMMA RedeployFields ==
    ASSUME NEW t \in Vdb
    PROVE  /\ RedeployVdb(t) \in Vdb
           /\ RedeployVdb(t).spec = t.spec
           /\ RedeployVdb(t).status.phase = Initial
           /\ RedeployVdb(t).status.digest = ComputeForVirtualDatabase(t.spec)
           /\ RedeployVdb(t).status.version =
                 IF ImplicitVersion(t) /\ IsNumeral(t.status.version)
                 THEN t.status.version + 1 ELSE t.status.version
           /\ RedeployVdb(t).status.failure = t.status.failure
           /\ RedeployVdb(t).status.cacheStore = t.status.cacheStore
           /\ RedeployVdb(t).status.route = t.status.route
<1>. DEFINE w == IF ImplicitVersion(t) /\ IsNumeral(t.status.version)
                 THEN t.status.version + 1 ELSE t.status.version
            u == [t.status EXCEPT !.phase = Initial,
                                  !.digest = ComputeForVirtualDatabase(t.spec),
                                  !.version = w]
<1>1. RedeployVdb(t) = [t EXCEPT !.status = u]
  BY DEF RedeployVdb, Vdb, VdbStatus
<1>. HIDE DEF w
<1>2. /\ u.phase = Initial /\ u.digest = ComputeForVirtualDatabase(t.spec)
      /\ u.version = w /\ u.failure = t.status.failure
      /\ u.cacheStore = t.status.cacheStore /\ u.route = t.status.route
  BY DEF Vdb, VdbStatus
<1>. HIDE DEF u
<1>3. RedeployVdb(t).spec = t.spec /\ RedeployVdb(t).status = u
  BY <1>1 DEF Vdb
<1>. QED
  BY <1>2, <1>3, RedeployType DEF w

\* a new resource
LEMMA NewVdbFields ==
    \A s : /\ NewVdb(s).spec = s
           /\ NewVdb(s).status.phase = Initial
           /\ NewVdb(s).status.digest = <<>>
           /\ NewVdb(s).status.version = NoVersion
           /\ NewVdb(s).status.failure = ""
           /\ NewVdb(s).status.cacheStore = FALSE
           /\ NewVdb(s).status.route = FALSE
BY DEF NewVdb

\* the parts of what a step stores
LEMMA NewVersionFields ==
    ASSUME NEW v, NEW x
    PROVE  /\ NewVersion(v, x).uid = store[v].uid
           /\ NewVersion(v, x).rv = rev[v] + 1
           /\ NewVersion(v, x).obj = x
BY DEF NewVersion

\* What a step may make of the object stored under name w: nothing, a new
\* object, one with another spec, a redeployed one, or a handler's result.
IsNew(w) ==
    /\ store[w] = NoVdb
    /\ store'[w].uid = rev[w] + 1
    /\ store'[w].rv = rev[w] + 1
    /\ \E u \in UserSpecs : store'[w].obj = NewVdb(u)

Rewritten(w) ==
    /\ store[w] # NoVdb
    /\ store'[w].uid = store[w].uid
    /\ store'[w].rv = rev[w] + 1

Respecified(w) == Rewritten(w) /\ store'[w].obj.status = store[w].obj.status

Redeployed(w) == Rewritten(w) /\ store'[w].obj = RedeployVdb(store[w].obj)

WrittenBack(w) ==
    /\ Rewritten(w)
    /\ worker.pc = "update" /\ worker.key = w /\ worker.inst = store[w]
    /\ store'[w].obj = worker.target
    /\ Advanced(store[w].obj, worker.target)

\* nothing else is stored
LEMMA ObjectStep ==
    ASSUME RefInv, [Next]_vars, NEW w \in VDBs
    PROVE  \/ store'[w] = store[w] /\ rev'[w] = rev[w]
           \/ /\ rev'[w] = rev[w] + 1
              /\ \/ store'[w] = NoVdb \/ IsNew(w) \/ Respecified(w)
                 \/ Redeployed(w) \/ WrittenBack(w)
<1>1. TypeOK /\ WorkerOK
  BY DEF RefInv, TypeInv
<1>2. CASE UNCHANGED <<store, rev>>
  BY <1>2
<1>3. ASSUME NEW v \in VDBs, NEW s, Stores(v, s), w # v
      PROVE  store'[w] = store[w] /\ rev'[w] = rev[w]
  BY <1>1, <1>3 DEF Stores, Write, TypeOK
<1>4. ASSUME NEW s, Stores(w, s)
      PROVE  \/ store'[w] = NoVdb \/ IsNew(w) \/ Respecified(w)
             \/ Redeployed(w) \/ WrittenBack(w)
  <2>1. store'[w] = s
    BY <1>1, <1>4 DEF Stores, Write, TypeOK
  <2>2. CASE UserCreated(w, s)
    <3>1. PICK u \in UserSpecs :
             s = [uid |-> rev[w] + 1, rv |-> rev[w] + 1, gen |-> 1, obj |-> NewVdb(u)]
      BY <2>2 DEF UserCreated
    <3>2. s.uid = rev[w] + 1 /\ s.rv = rev[w] + 1 /\ s.obj = NewVdb(u)
      BY <3>1
    <3>. QED
      BY <2>1, <2>2, <3>2 DEF UserCreated, IsNew
  <2>3. CASE UserEdited(w, s)
    <3>. DEFINE x == store[w].obj
    <3>1. x \in Vdb /\ store[w] # NoVdb
      BY <1>1, <2>3 DEF UserEdited, TypeOK, Stored
    <3>2. PICK u \in VdbSpec : s = NewVersion(w, [x EXCEPT !.spec = u])
      BY <2>3 DEF UserEdited
    <3>3. s.obj = [x EXCEPT !.spec = u] /\ s.uid = store[w].uid /\ s.rv = rev[w] + 1
      BY <3>2, NewVersionFields
    <3>4. s.obj.status = x.status
      BY <3>1, <3>3 DEF Vdb
    <3>. QED
      BY <2>1, <3>1, <3>3, <3>4 DEF Respecified, Rewritten
  <2>4. CASE UserDeleted(w, s)
    BY <2>1, <2>4 DEF UserDeleted
  <2>5. CASE WorkerUpdated(w, s)
    <3>1. /\ worker.pc = "update" /\ worker.key = w /\ worker.inst = store[w]
          /\ store[w] # NoVdb
          /\ s.obj = worker.target /\ s.uid = store[w].uid /\ s.rv = rev[w] + 1
      BY <2>5, NewVersionFields DEF WorkerUpdated
    <3>. QED
      BY <1>1, <2>1, <3>1 DEF WorkerOK, Redeployed, WrittenBack, Rewritten
  <2>. QED
    BY <1>4, <2>2, <2>3, <2>4, <2>5 DEF Stores
<1>5. ASSUME NEW s, Stores(w, s)
      PROVE  rev'[w] = rev[w] + 1
  BY <1>1, <1>5 DEF Stores, Write, TypeOK
<1>. QED
  BY <1>2, <1>3, <1>4, <1>5, StoreStep

\* outside the handlers, the worker keeps what it holds, drops it, or takes
\* a name and turns to a handler or to a redeployment
LEMMA LoopWorker ==
    ASSUME Loop
    PROVE  \/ worker' = worker
           \/ worker' = Idle
           \/ worker = Idle /\ worker'.pc = "handle"
           \/ /\ worker = Idle /\ worker'.pc = "update"
              /\ worker'.target = RedeployVdb(worker'.inst.obj)
<1>1. CASE \E v \in VDBs : User(v)
  BY <1>1 DEF User, UserCreate, UserEdit, UserReplace, UserEditTo, UserDelete, loopVars
<1>2. CASE \E v \in VDBs : \/ Deliver(v) \/ Relist(v) \/ OwnedEvent(v)
                           \/ DelayOver(v) \/ ReconcileReadFails(v)
  BY <1>2 DEF Deliver, Relist, See, OwnedEvent, DelayOver, ReconcileReadFails
<1>3. ASSUME NEW v \in VDBs, ReconcileDeleted(v)
      PROVE  worker' = worker
  BY <1>3 DEF ReconcileDeleted
<1>4. ASSUME NEW v \in VDBs, ReconcileUpdated(v)
      PROVE  /\ worker = Idle /\ worker'.pc = "update"
             /\ worker'.target = RedeployVdb(worker'.inst.obj)
  BY <1>4 DEF ReconcileUpdated, Take
<1>5. ASSUME NEW v \in VDBs, ReconcileActions(v)
      PROVE  worker' = worker \/ (worker = Idle /\ worker'.pc = "handle")
  BY <1>5 DEF ReconcileActions, Take
<1>6. CASE Update \/ Crash \/ HandlerPanics
  BY <1>6 DEF Update, UpdateSucceeds, UpdateRejected, UpdateTimesOut, Crash,
     HandlerPanics, Restart
<1>. QED
  BY <1>1, <1>2, <1>3, <1>4, <1>5, <1>6 DEF Loop, Reconcile

-----------------------------------------------------------------------------
(* Uids, and versions the operator counts.                                  *)

\* the last uid that was given to the name v, or a number past it
Youngest(v) == IF store[v] = NoVdb THEN rev[v] ELSE store[v].uid

\* every version of v, however stale, is of a resource no younger than that
Aged == [v \in VDBs |-> {s \in Stored : s.uid \in 1..Youngest(v)}]
CopiesAged == /\ \A v \in VDBs : Youngest(v) <= rev[v]
              /\ Known(Aged, store, cache, watch, worker)

\* uids grow, and a new one has not been seen before
LEMMA AgedStep ==
    ASSUME RefInv, CopiesAged, [Next]_vars
    PROVE  CopiesAged' /\ \A v \in VDBs : Youngest(v) <= Youngest(v)'
<1>1. TypeOK /\ TypeOK'
  BY RefStep DEF RefInv, TypeInv
<1>2. ASSUME NEW w \in VDBs
      PROVE  /\ Youngest(w) \in Nat /\ Youngest(w)' \in Nat
             /\ Youngest(w) <= Youngest(w)' /\ Youngest(w)' <= rev'[w]
             /\ store'[w] \in Aged'[w] \cup {NoVdb}
  <2>1. /\ rev[w] \in Nat /\ rev'[w] \in Nat
        /\ store[w] # NoVdb => store[w].uid \in Nat
        /\ store'[w] # NoVdb => store'[w] \in Stored /\ store'[w].uid \in Nat
    BY <1>1 DEF TypeOK, Stored
  <2>2. Youngest(w) <= rev[w]
    BY DEF CopiesAged
  <2>3. store[w] # NoVdb => store[w].uid \in 1..Youngest(w)
    BY DEF CopiesAged, Known, Aged
  <2>4. /\ Youngest(w) \in Nat /\ Youngest(w)' \in Nat
        /\ store[w] = NoVdb => Youngest(w) = rev[w]
        /\ store[w] # NoVdb => Youngest(w) = store[w].uid
        /\ store'[w] = NoVdb => Youngest(w)' = rev'[w]
        /\ store'[w] # NoVdb => Youngest(w)' = store'[w].uid
    BY <2>1 DEF Youngest
  <2>5. \/ store'[w] = store[w] /\ rev'[w] = rev[w]
        \/ /\ rev'[w] = rev[w] + 1
           /\ \/ store'[w] = NoVdb
              \/ store[w] = NoVdb /\ store'[w].uid = rev[w] + 1
              \/ store[w] # NoVdb /\ store'[w].uid = store[w].uid
    BY ObjectStep DEF IsNew, Respecified, Redeployed, WrittenBack, Rewritten
  <2>6. Youngest(w) <= Youngest(w)' /\ Youngest(w)' <= rev'[w]
    BY <2>1, <2>2, <2>4, <2>5
  <2>7. store'[w] # NoVdb => store'[w].uid \in 1..Youngest(w)'
    BY <2>1, <2>3, <2>4, <2>5
  <2>. QED
    BY <2>1, <2>4, <2>6, <2>7 DEF Aged
<1>3. \A v \in VDBs : Aged[v] \subseteq Aged'[v]
  BY <1>2 DEF Aged
<1>4. Known(Aged', store', cache', watch', worker')
  BY <1>2, <1>3, KnownStep DEF CopiesAged
<1>. QED
  BY <1>2, <1>4 DEF CopiesAged

\* the version of this source is counted by the operator: it is a DDL, and
\* neither the spec nor a Maven coordinate names a version
Counted(s) ==
    /\ s.ddl # <<>>
    /\ s.version = NoVersion
    /\ s.maven # <<>> => GavVersion[s.maven] = NoVersion

-----------------------------------------------------------------------------
(* Console links.                                                           *)

\* nothing has happened that may leave a console link behind
Calm == spent.crashes = 0 /\ spent.faults = 0 /\ spent.replaces = 0

\* a resource past its initialization has a number of replicas
HasReplicas(s) == s.obj.spec.replicas # NoReplicas \/ s.obj.status.phase = Initial
Replicated == [v \in VDBs |-> {s \in Stored : HasReplicas(s)}]
ReplicasKnown ==
    spent.replaces = 0 => Known(Replicated, store, cache, watch, worker)

\* Once the operator has seen that v is gone, v is queued, or else it has no
\* link and nobody is about to give it one.
LinkInv ==
    Calm => \A v \in VDBs : cache[v] = NoVdb =>
                \/ v \in queue
                \/ v \notin consoleLinks /\ ~WorkingOn(v)

ConsoleInv == RefInv /\ WatchInSync /\ ReplicasKnown /\ LinkInv

\* the counters only grow
LEMMA SpentGrows ==
    ASSUME TypeOK, [Next]_vars
    PROVE  \A b \in {"crashes", "faults", "replaces"} :
              spent[b] \in Nat /\ spent'[b] \in Nat /\ spent[b] <= spent'[b]
<1>1. spent \in [DOMAIN Limits -> Nat]
  BY DEF TypeOK
<1>2. UNCHANGED spent \/ \E b \in DOMAIN Limits : Spend(b)
  <2>1. CASE Handle
    BY <2>1 DEF Handle, HandleInitialize, HandleCacheStore,
       HandleS2IBuilderImage, HandleServiceImage, HandleCreateService,
       HandleCreateCertificate, HandleDeployment, HandlePrometheusMonitor, Handled
  <2>2. CASE UNCHANGED vars
    BY <2>2 DEF vars
  <2>3. CASE \E v \in VDBs : \/ Reconcile(v) \/ ReconcileReadFails(v)
    BY <2>3, LimitNames DEF Reconcile, ReconcileDeleted, ReconcileUpdated,
       ReconcileActions, ReconcileReadFails
  <2>4. CASE \E v \in VDBs : User(v)
    BY <2>4, LimitNames DEF User, UserCreate, UserEdit, UserReplace, UserDelete
  <2>5. CASE \/ Update \/ Crash \/ HandlerPanics
             \/ \E v \in VDBs : \/ Deliver(v) \/ Relist(v) \/ OwnedEvent(v)
                                \/ DelayOver(v)
    BY <2>5, LimitNames DEF Update, UpdateSucceeds, UpdateRejected,
       UpdateTimesOut, Crash, HandlerPanics, Deliver, Relist, OwnedEvent, DelayOver
  <2>. QED
    BY <2>1, <2>2, <2>3, <2>4, <2>5, SMTT(40) DEF Next, Loop
<1>3. CASE UNCHANGED spent
  BY <1>1, <1>3, LimitNames
<1>4. ASSUME NEW b \in DOMAIN Limits, Spend(b)
      PROVE  \A c \in DOMAIN Limits :
                spent[c] \in Nat /\ spent'[c] \in Nat /\ spent[c] <= spent'[c]
  <2>1. spent' = [spent EXCEPT ![b] = @ + 1]
    BY <1>4 DEF Spend
  <2>. QED
    BY <1>1, <2>1
<1>. QED
  BY <1>2, <1>3, <1>4, LimitNames

\* the watch and the cache never lag behind the store without an event under
\* way, relists included
LEMMA SyncStep ==
    ASSUME RefInv, WatchInSync, [Next]_vars
    PROVE  WatchInSync'
<1>. USE DEF RefInv, TypeInv
<1>1. ASSUME NEW v \in VDBs, NEW s, Stores(v, s)
      PROVE  WatchInSync'
  <2>1. /\ watch[v] \in Seq(Stored \cup {NoVdb}) /\ s \in Stored \cup {NoVdb}
        /\ watch'[v] = Append(watch[v], s) /\ store'[v] = s /\ cache' = cache
        /\ \A w \in VDBs \ {v} : store'[w] = store[w] /\ watch'[w] = watch[w]
    BY <1>1 DEF Stores, Write, TypeOK
  <2>2. watch'[v] # <<>> /\ watch'[v][Len(watch'[v])] = s
    BY <2>1
  <2>. QED
    BY <2>1, <2>2 DEF WatchInSync, Newest
<1>2. ASSUME UNCHANGED <<store, watch, cache>>
      PROVE  WatchInSync'
  BY <1>2 DEF WatchInSync, Newest
<1>3. CASE UNCHANGED vars
  BY <1>2, <1>3 DEF vars
<1>4. CASE \E v \in VDBs : User(v)
  BY <1>1, <1>4, UserStores
<1>5. CASE Update
  <2>1. cache' = cache
    BY <1>5 DEF Update, UpdateSucceeds, UpdateRejected, UpdateTimesOut
  <2>. QED
    BY <1>1, <1>2, <1>5, <2>1, UpdateStores
<1>6. CASE Handle
  BY <1>2, <1>6, HandlerOutcome, HandledWorker
<1>7. ASSUME NEW v \in VDBs, Deliver(v)
      PROVE  WatchInSync'
  <2>. DEFINE q == watch[v]
  <2>1. q \in Seq(Stored \cup {NoVdb}) /\ q # <<>>
    BY <1>7 DEF Deliver, TypeOK
  <2>2. /\ watch'[v] = Tail(q) /\ cache'[v] = Head(q)
        /\ \A w \in VDBs \ {v} : watch'[w] = watch[w] /\ cache'[w] = cache[w]
        /\ store' = store
    BY <1>7 DEF Deliver, See, TypeOK
  <2>3. Newest(v)' = Newest(v)
    <3>1. CASE Len(q) = 1
      BY <2>1, <2>2, <3>1, TailFacts DEF Newest
    <3>2. CASE Len(q) > 1
      <4>1. Len(q) - 1 \in 1..(Len(q) - 1) /\ (Len(q) - 1) + 1 = Len(q)
        BY <2>1, <3>2, TailFacts
      <4>2. Tail(q)[Len(Tail(q))] = q[Len(q)]
        BY <2>1, <4>1, TailFacts
      <4>. QED
        BY <2>1, <2>2, <3>2, <4>2, TailFacts DEF Newest
    <3>. QED
      BY <2>1, <3>1, <3>2, TailFacts
  <2>. QED
    BY <2>2, <2>3 DEF WatchInSync, Newest
<1>8. ASSUME NEW v \in VDBs, Relist(v)
      PROVE  WatchInSync'
  BY <1>8 DEF Relist, See, TypeOK, WatchInSync, Newest
<1>9. CASE \E v \in VDBs : OwnedEvent(v) \/ DelayOver(v)
  BY <1>2, <1>9 DEF OwnedEvent, DelayOver, kubeVars
<1>10. CASE \E v \in VDBs : Reconcile(v) \/ ReconcileReadFails(v)
  BY <1>2, <1>10 DEF Reconcile, ReconcileDeleted, ReconcileUpdated,
     ReconcileActions, ReconcileReadFails, Take, kubeVars
<1>11. CASE Crash \/ HandlerPanics
  <2>1. Restart
    BY <1>11 DEF Crash, HandlerPanics
  <2>. QED
    BY <2>1 DEF Restart, WatchInSync, Newest
<1>. QED
  BY <1>3, <1>4, <1>5, <1>6, <1>7, <1>8, <1>9, <1>10, <1>11 DEF Next, Loop

\* the worker's target has replicas if its copy has
LEMMA TargetReplicated ==
    ASSUME RefInv, worker.pc = "update", HasReplicas(worker.inst)
    PROVE  \/ worker.target.spec.replicas # NoReplicas
           \/ worker.target.status.phase = Initial
<1>. DEFINE t == worker.inst.obj
            u == worker.target
<1>1. t \in Vdb
  BY WorkerBusy DEF RefInv, TypeInv
<1>2. CASE u = RedeployVdb(t)
  BY <1>1, <1>2, RedeployFields
<1>3. CASE Advanced(t, u)
  <2>1. CASE t.status.phase # Initial
    <3>1. u.spec = t.spec
      BY <1>1, <1>3, <2>1, AdvancedFacts DEF Kept
    <3>. QED
      BY <2>1, <3>1 DEF HasReplicas
  <2>2. CASE t.status.phase = Initial
    <3>1. Begun(t, u) \/ (Alike(t, u) /\ u.status.phase = Initial)
      BY <1>1, <1>3, <2>2, AdvancedFacts
    <3>. QED
      BY <3>1 DEF Begun
  <2>. QED
    BY <2>1, <2>2
<1>. QED
  BY <1>2, <1>3 DEF RefInv, WorkerOK

\* unless a replace drops them, what is stored keeps its replicas
LEMMA ReplicasStep ==
    ASSUME RefInv, ReplicasKnown, [Next]_vars
    PROVE  ReplicasKnown'
<1>. SUFFICES ASSUME spent'.replaces = 0
              PROVE  Known(Replicated, store', cache', watch', worker')
  BY DEF ReplicasKnown, Replicated
<1>1. TypeOK
  BY DEF RefInv, TypeInv
<1>2. spent.replaces = 0
  BY <1>1, SpentGrows
<1>3. Known(Replicated, store, cache, watch, worker)
  BY <1>2 DEF ReplicasKnown
<1>4. \A w \in VDBs : store[w] \in Replicated[w] \cup {NoVdb}
  BY <1>3 DEF Known
<1>5. ASSUME NEW v \in VDBs, NEW s, Stores(v, s)
      PROVE  s = NoVdb \/ HasReplicas(s)
  <2>1. CASE UserCreated(v, s)
    <3>1. PICK u \in UserSpecs :
             s = [uid |-> rev[v] + 1, rv |-> rev[v] + 1, gen |-> 1, obj |-> NewVdb(u)]
      BY <2>1 DEF UserCreated
    <3>2. s.obj = NewVdb(u)
      BY <3>1
    <3>. QED
      BY <3>2, NewVdbFields DEF HasReplicas
  <2>2. CASE UserEdited(v, s)
    <3>. DEFINE x == store[v].obj
    <3>1. x \in Vdb /\ HasReplicas(store[v])
      BY <1>1, <1>4, <2>2 DEF UserEdited, TypeOK, Stored, Replicated
    <3>2. PICK u \in VdbSpec : /\ s = NewVersion(v, [x EXCEPT !.spec = u])
                               /\ \/ u.replicas = x.spec.replicas
                                  \/ spent'.replaces > 0
      BY <2>2 DEF UserEdited
    <3>3. s.obj = [x EXCEPT !.spec = u]
      BY <3>2, NewVersionFields
    <3>4. s.obj.spec = u /\ s.obj.status = x.status
      BY <3>1, <3>3 DEF Vdb
    <3>. QED
      BY <3>1, <3>2, <3>4 DEF HasReplicas
  <2>3. CASE UserDeleted(v, s)
    BY <2>3 DEF UserDeleted
  <2>4. CASE WorkerUpdated(v, s)
    <3>1. worker.pc = "update" /\ HasReplicas(worker.inst) /\ s.obj = worker.target
      BY <1>4, <2>4, NewVersionFields DEF WorkerUpdated, Replicated
    <3>. QED
      BY <3>1, TargetReplicated DEF HasReplicas
  <2>. QED
    BY <1>5, <2>1, <2>2, <2>3, <2>4 DEF Stores
<1>6. ASSUME NEW w \in VDBs
      PROVE  store'[w] \in Replicated[w] \cup {NoVdb}
  <2>1. CASE UNCHANGED store
    BY <1>4, <2>1
  <2>2. ASSUME NEW v \in VDBs, NEW s, Stores(v, s)
        PROVE  store'[w] \in Replicated[w] \cup {NoVdb}
    <3>1. store'[v] = s /\ s \in Stored \cup {NoVdb} /\ (w # v => store'[w] = store[w])
      BY <1>1, <2>2 DEF Stores, Write, TypeOK
    <3>2. s \in Replicated[v] \cup {NoVdb}
      BY <1>5, <2>2, <3>1 DEF Replicated
    <3>. QED
      BY <1>4, <3>1, <3>2
  <2>. QED
    BY <2>1, <2>2, StoreStep
<1>. QED
  BY <1>3, <1>6, KnownStep

\* while every resource past its initialization has replicas, nothing panics
LEMMA NoPanic ==
    ASSUME RefInv, ReplicasKnown, spent.replaces = 0
    PROVE  ~HandlerPanics
<1>. SUFFICES ASSUME HandlerPanics PROVE FALSE
  OBVIOUS
<1>1. worker.pc = "handle" /\ DeploymentPanics(worker.inst.obj)
  BY DEF HandlerPanics, AtStep
<1>2. worker.key \in VDBs
  BY <1>1, WorkerBusy DEF RefInv, TypeInv
<1>3. HasReplicas(worker.inst)
  BY <1>1, <1>2 DEF ReplicasKnown, Known, Replicated
<1>. QED
  BY <1>1, <1>3 DEF HasReplicas, DeploymentPanics, Running, Initial

\* Unless a replace drops the number of replicas, ensureReplicas never
\* dereferences nil: whatever copy the Deployment action works on, in phase
\* Running it has the number that the user or Initialize gave.
THEOREM StaysUp == Spec => OperatorStaysUp
<1>. DEFINE Inv == RefInv /\ ReplicasKnown
<1>1. Init => Inv
  <2>. SUFFICES ASSUME Init PROVE Inv
    OBVIOUS
  <2>1. /\ worker.pc = "idle"
        /\ \A v \in VDBs : watch[v] = <<>> /\ cache[v] = NoVdb /\ store[v] = NoVdb
    BY DEF Init, Idle
  <2>2. ReplicasKnown
    BY <2>1 DEF ReplicasKnown, Known
  <2>. QED
    BY <2>2, RefInit
<1>2. Inv /\ [Next]_vars => Inv'
  BY RefStep, ReplicasStep
<1>3. Inv => (spent.replaces = 0 => ~HandlerPanics)
  BY NoPanic
<1>. QED
  BY <1>1, <1>2, <1>3, PTL DEF Spec, OperatorStaysUp

\* a link is made only by a worker whose resource is, if gone, queued again
LEMMA LinkStep ==
    ASSUME ConsoleInv, [Next]_vars
    PROVE  LinkInv'
<1>. USE DEF ConsoleInv
<1>. SUFFICES ASSUME Calm'
              PROVE  \A v \in VDBs : cache'[v] = NoVdb =>
                        \/ v \in queue'
                        \/ v \notin consoleLinks' /\ ~WorkingOn(v)'
  BY DEF LinkInv
<1>1. TypeOK
  BY DEF RefInv, TypeInv
<1>2. Calm
  BY <1>1, SpentGrows DEF Calm
<1>3. \A v \in VDBs : cache[v] = NoVdb =>
                          \/ v \in queue
                          \/ v \notin consoleLinks /\ ~WorkingOn(v)
  BY <1>2 DEF LinkInv
<1>. DEFINE Goal == \A v \in VDBs : cache'[v] = NoVdb =>
                        \/ v \in queue'
                        \/ v \notin consoleLinks' /\ ~WorkingOn(v)'
<1>4. \A b \in {"crashes", "faults", "replaces"} : ~Spend(b)
  <2>. SUFFICES ASSUME NEW b \in {"crashes", "faults", "replaces"}, Spend(b)
                PROVE  FALSE
    OBVIOUS
  <2>1. spent'[b] = spent[b] + 1
    BY <1>1, LimitNames DEF Spend, TypeOK
  <2>. QED
    BY <1>2, <2>1 DEF Calm
<1>5. CASE UNCHANGED vars
  BY <1>3, <1>5 DEF vars, WorkingOn
<1>6. CASE \E v \in VDBs : User(v)
  BY <1>3, <1>6 DEF User, UserCreate, UserEdit, UserReplace, UserEditTo, UserDelete,
     loopVars, WorkingOn
<1>7. ASSUME NEW v \in VDBs, NEW s \in Stored \cup {NoVdb}, See(v, s)
      PROVE  Goal
  <2>1. /\ cache'[v] = s
        /\ \A w \in VDBs \ {v} : cache'[w] = cache[w]
        /\ queue \subseteq queue'
        /\ Enqueues(cache[v], s) => v \in queue'
        /\ consoleLinks' = consoleLinks /\ worker' = worker
    BY <1>1, <1>7 DEF See, TypeOK
  <2>2. s = NoVdb /\ cache[v] # NoVdb => v \in queue'
    BY <2>1 DEF Enqueues
  <2>. QED
    BY <1>3, <2>1, <2>2 DEF WorkingOn
<1>8. CASE \E v \in VDBs : Deliver(v) \/ Relist(v)
  <2>1. PICK v \in VDBs : Deliver(v) \/ Relist(v)
    BY <1>8
  <2>2. watch[v] \in Seq(Stored \cup {NoVdb}) /\ store[v] \in Stored \cup {NoVdb}
    BY <1>1 DEF TypeOK
  <2>3. watch[v] # <<>> => Head(watch[v]) \in Stored \cup {NoVdb}
    BY <2>2
  <2>. QED
    BY <1>7, <2>1, <2>2, <2>3 DEF Deliver, Relist
<1>9. CASE \E v \in VDBs : OwnedEvent(v) \/ DelayOver(v)
  BY <1>3, <1>9 DEF OwnedEvent, DelayOver, kubeVars, WorkingOn
<1>10. ASSUME NEW v \in VDBs, Reconcile(v)
       PROVE  Goal
  <2>1. CASE ReconcileDeleted(v)
    <3>1. /\ worker = Idle /\ worker' = Idle /\ queue' = queue \ {v}
          /\ cache' = cache /\ consoleLinks' = consoleLinks \ {v}
      BY <1>4, <2>1 DEF ReconcileDeleted, Take, Unlinked
    <3>. QED
      BY <1>3, <3>1 DEF WorkingOn, Idle
  <2>2. CASE ReconcileUpdated(v) \/ ReconcileActions(v)
    <3>1. /\ worker = Idle /\ queue' = queue \ {v} /\ cache' = cache
          /\ cache[v] # NoVdb /\ consoleLinks' = consoleLinks
          /\ worker' = worker \/ worker'.key = v
      BY <2>2 DEF ReconcileUpdated, ReconcileActions, Take
    <3>. QED
      BY <1>3, <3>1 DEF WorkingOn, Idle
  <2>. QED
    BY <1>10, <2>1, <2>2 DEF Reconcile
<1>11. ASSUME NEW v \in VDBs, ReconcileReadFails(v)
       PROVE  Goal
  BY <1>4, <1>11 DEF ReconcileReadFails
<1>12. CASE Handle
  <2>1. PICK o : Handled(o)
    BY <1>12, HandlerOutcome
  <2>2. worker.pc = "handle"
    BY <1>12, HandlerOutcome
  <2>3. /\ cache' = cache /\ queue' = queue
        /\ worker' = Idle \/ worker'.key = worker.key
    BY <1>1, <2>1, <2>2, HandledWorker
  <2>4. consoleLinks' = consoleLinks \/ consoleLinks' = consoleLinks \cup {worker.key}
    BY <1>12 DEF Handle, HandleInitialize, HandleCacheStore, Linked,
       HandleS2IBuilderImage, HandleServiceImage, HandleCreateService,
       HandleCreateCertificate, HandleDeployment, HandlePrometheusMonitor
  <2>. QED
    BY <1>3, <2>2, <2>3, <2>4 DEF WorkingOn, Idle
<1>13. CASE Update
  BY <1>3, <1>13 DEF Update, UpdateSucceeds, UpdateRejected, UpdateTimesOut,
     WorkingOn, Idle
<1>14. CASE Crash
  BY <1>4, <1>14 DEF Crash
<1>15. CASE HandlerPanics
  BY <1>2, <1>15, NoPanic DEF Calm
<1>. QED
  BY <1>5, <1>6, <1>8, <1>9, <1>10, <1>11, <1>12, <1>13, <1>14, <1>15
     DEF Next, Loop

\* A deleted VirtualDatabase leaves no console link behind, however its
\* deletion interleaves with the reconcile that creates the link, with other
\* edits, conflicts and relists, as long as the operator does not restart, no
\* call fails and no replace drops the replicas: the event of the deletion
\* passes the filter while the worker still holds its stale copy, and the
\* queue keeps the name until the worker is done.
THEOREM LinksAreRemoved == Spec => []ConsoleLinkRemoved
<1>1. Init => ConsoleInv
  <2>. SUFFICES ASSUME Init PROVE ConsoleInv
    OBVIOUS
  <2>1. /\ worker.pc = "idle" /\ consoleLinks = {}
        /\ \A v \in VDBs : /\ watch[v] = <<>> /\ cache[v] = NoVdb
                           /\ store[v] = NoVdb /\ Len(watch[v]) = 0
    BY DEF Init, Idle
  <2>2. WatchInSync /\ LinkInv
    BY <2>1 DEF WatchInSync, Newest, LinkInv, WorkingOn
  <2>3. ReplicasKnown
    BY <2>1 DEF ReplicasKnown, Known
  <2>. QED
    BY <2>2, <2>3, RefInit DEF ConsoleInv
<1>2. ConsoleInv /\ [Next]_vars => ConsoleInv'
  BY RefStep, SyncStep, ReplicasStep, LinkStep DEF ConsoleInv
<1>3. ConsoleInv => ConsoleLinkRemoved
  BY DEF ConsoleInv, WatchInSync, Newest, LinkInv, Calm, ConsoleLinkRemoved, Settled
<1>. QED
  BY <1>1, <1>2, <1>3, PTL DEF Spec

-----------------------------------------------------------------------------
(* The copies of a resource, from the worker's to the stored one.           *)

\* x is a version of the living resource r that is older than y: then y is one
\* too, and x is not the latest
Precedes(x, y, r) ==
    x # NoVdb /\ x.uid = r.uid => /\ y # NoVdb /\ y.uid = r.uid
                                 /\ x.rv # r.rv

\* The versions the operator has yet to see have the status of the stored one:
\* the operator alone writes it, and only when it has seen all there is.
InLine(v) ==
    LET r == store[v]
        q == watch[v]
    IN  r # NoVdb =>
          /\ \A j \in 1..Len(q) :
                /\ q[j] # NoVdb /\ q[j].uid = r.uid =>
                      q[j].obj.status = r.obj.status
                /\ Precedes(cache[v], q[j], r)
                /\ \A i \in 1..(j - 1) : Precedes(q[i], q[j], r)
          /\ WorkingOn(v) /\ worker.inst.uid = r.uid =>
                /\ cache[v] # NoVdb /\ cache[v].uid = r.uid
                /\ worker.inst.rv = r.rv => cache[v].rv = r.rv
                /\ cache[v].obj.status \in {worker.inst.obj.status, r.obj.status}

Line == \A v \in VDBs : InLine(v)

(* What one step does to the copies of w when it stores no version of w: the *)
(* operator sees the next version, lists, or leaves its cache alone, while   *)
(* the worker may finish, go on, or take the cached version of a name.       *)
Sees(w) ==
    /\ watch[w] # <<>> /\ cache'[w] = Head(watch[w]) /\ watch'[w] = Tail(watch[w])
    /\ worker' = worker

Lists(w) ==
    /\ cache'[w] = store[w] /\ watch'[w] = <<>>
    /\ worker' = worker \/ worker' = Idle

Keeps(w) ==
    /\ cache'[w] = cache[w] /\ watch'[w] = watch[w]
    /\ \/ worker' = worker \/ worker' = Idle
       \/ /\ worker.pc # "idle"
          /\ worker'.key = worker.key /\ worker'.inst = worker.inst
       \/ worker'.inst = cache[worker'.key]

\* a step stores a version of w or is one of these for w
LEMMA CopyStep ==
    ASSUME RefInv, [Next]_vars, NEW w \in VDBs
    PROVE  \/ \E s : Stores(w, s)
           \/ /\ store'[w] = store[w] /\ rev'[w] = rev[w]
              /\ Sees(w) \/ Lists(w) \/ Keeps(w)
<1>. USE DEF RefInv, TypeInv
<1>. DEFINE Goal == \/ \E s : Stores(w, s)
                    \/ /\ store'[w] = store[w] /\ rev'[w] = rev[w]
                       /\ Sees(w) \/ Lists(w) \/ Keeps(w)
<1>1. ASSUME NEW v \in VDBs, NEW s, Stores(v, s)
      PROVE  Goal
  <2>1. CASE v = w
    BY <1>1, <2>1
  <2>2. CASE v # w
    BY <1>1, <2>2 DEF Stores, Write, TypeOK, Keeps
  <2>. QED
    BY <2>1, <2>2
<1>2. CASE \E v \in VDBs : \E s : Stores(v, s)
  BY <1>1, <1>2
<1>3. CASE ~\E v \in VDBs : \E s : Stores(v, s)
  <2>1. store'[w] = store[w] /\ rev'[w] = rev[w]
    BY <1>3, StoreStep
  <2>2. CASE UNCHANGED vars
    BY <2>1, <2>2 DEF vars, Keeps
  <2>3. CASE Handle
    <3>1. PICK o : Handled(o)
      BY <2>3, HandlerOutcome
    <3>2. worker.pc = "handle"
      BY <2>3, HandlerOutcome
    <3>. QED
      BY <2>1, <3>1, <3>2, HandledWorker DEF Keeps
  <2>4. CASE Update
    <3>1. worker' = Idle /\ cache' = cache
      BY <2>4 DEF Update, UpdateSucceeds, UpdateRejected, UpdateTimesOut
    <3>2. watch' = watch
      BY <1>3, <2>4, UpdateStores
    <3>. QED
      BY <2>1, <3>1, <3>2 DEF Keeps
  <2>5. CASE \E v \in VDBs : User(v)
    BY <1>3, <2>5, UserStores
  <2>6. ASSUME NEW v \in VDBs, Deliver(v)
        PROVE  Goal
    BY <2>1, <2>6 DEF Deliver, See, TypeOK, Sees, Keeps
  <2>7. ASSUME NEW v \in VDBs, Relist(v)
        PROVE  Goal
    BY <2>1, <2>7 DEF Relist, See, TypeOK, Lists, Keeps
  <2>8. ASSUME NEW v \in VDBs,
               OwnedEvent(v) \/ DelayOver(v) \/ ReconcileReadFails(v)
                  \/ ReconcileDeleted(v)
        PROVE  Goal
    BY <2>1, <2>8 DEF OwnedEvent, DelayOver, ReconcileReadFails,
       ReconcileDeleted, Take, kubeVars, Keeps
  <2>9. ASSUME NEW v \in VDBs, ReconcileUpdated(v) \/ ReconcileActions(v)
        PROVE  Goal
    <3>1. cache' = cache /\ watch' = watch
      BY <2>9 DEF ReconcileUpdated, ReconcileActions, Take, kubeVars
    <3>2. worker' = worker \/ worker'.inst = cache[worker'.key]
      BY <2>9 DEF ReconcileUpdated, ReconcileActions
    <3>. QED
      BY <2>1, <3>1, <3>2 DEF Keeps
  <2>10. CASE Crash \/ HandlerPanics
    BY <2>1, <2>10 DEF Crash, HandlerPanics, Restart, Lists
  <2>. QED
    BY <2>2, <2>3, <2>4, <2>5, <2>6, <2>7, <2>8, <2>9, <2>10
       DEF Next, Loop, Reconcile
<1>. QED
  BY <1>2, <1>3

\* initially there are no copies
LEMMA LineInit == Init => Line
BY DEF Init, Line, InLine

\* the copies of a name stay in line
LEMMA LineStep ==
    ASSUME RefInv, CopiesAged, Line, [Next]_vars
    PROVE  Line'
<1>. USE DEF RefInv, TypeInv
<1>0. TypeOK /\ TypeOK'
  BY RefStep
<1>. SUFFICES ASSUME NEW w \in VDBs, store'[w] # NoVdb
              PROVE  InLine(w)'
  BY DEF Line, InLine
<1>. DEFINE q == watch[w]
            c == cache[w]
            r == store[w]
<1>1. /\ q \in Seq(Stored \cup {NoVdb}) /\ c \in Stored \cup {NoVdb}
      /\ r \in Stored \cup {NoVdb} /\ rev[w] \in Nat /\ Len(q) \in Nat
      /\ WorkingOn(w) => worker.inst \in Stored /\ worker.inst # NoVdb
      /\ WorkingOn(w)' => worker'.inst \in Stored /\ worker'.inst # NoVdb
  BY <1>0, StoredIsResource, SMTT(40) DEF TypeOK, Busy, Idle, WorkingOn
<1>2. r # NoVdb =>
        /\ \A j \in 1..Len(q) :
              /\ q[j] # NoVdb /\ q[j].uid = r.uid => q[j].obj.status = r.obj.status
              /\ Precedes(c, q[j], r)
              /\ \A i \in 1..(j - 1) : Precedes(q[i], q[j], r)
        /\ WorkingOn(w) /\ worker.inst.uid = r.uid =>
              /\ c # NoVdb /\ c.uid = r.uid
              /\ worker.inst.rv = r.rv => c.rv = r.rv
              /\ c.obj.status \in {worker.inst.obj.status, r.obj.status}
  BY DEF Line, InLine
<1>3. ASSUME NEW s, Stores(w, s)
      PROVE  InLine(w)'
  <2>. DEFINE n == rev[w] + 1
              x == worker.inst
  <2>1. /\ s \in Stored /\ store'[w] = s /\ watch'[w] = Append(q, s) /\ cache'[w] = c
        /\ worker' = worker \/ worker' = Idle
    BY <1>0, <1>1, <1>3 DEF Stores, Write, TypeOK
  <2>2. s # NoVdb /\ s.rv = n
    <3>1. s # NoVdb
      BY <2>1, StoredIsResource
    <3>2. UserCreated(w, s) \/ UserEdited(w, s) \/ WorkerUpdated(w, s)
      BY <1>3, <3>1 DEF Stores, UserDeleted
    <3>3. UserCreated(w, s) => s.rv = n
      BY DEF UserCreated
    <3>4. UserEdited(w, s) => s.rv = n
      BY NewVersionFields DEF UserEdited
    <3>5. WorkerUpdated(w, s) => s.rv = n
      BY NewVersionFields DEF WorkerUpdated
    <3>. QED
      BY <3>1, <3>2, <3>3, <3>4, <3>5
  <2>3. /\ c # NoVdb => c.rv # n
        /\ \A i \in 1..Len(q) : q[i] # NoVdb => q[i].rv # n
        /\ WorkingOn(w) => x.rv # n
    <3>1. /\ Copy(c, r, rev[w])
          /\ \A i \in 1..Len(q) : Copy(q[i], r, rev[w])
          /\ WorkingOn(w) => Copy(x, r, rev[w])
      BY DEF CopiesOK, WorkingOn
    <3>2. \A y \in Stored : y.rv \in Nat
      BY DEF Stored
    <3>3. \A y \in Stored : y.rv <= rev[w] => y.rv # n
      BY <1>1, <3>2
    <3>4. \A i \in 1..Len(q) : q[i] \in Stored \cup {NoVdb}
      BY <1>1
    <3>. QED
      BY <1>1, <3>1, <3>3, <3>4 DEF Copy
  <2>4. /\ Len(watch'[w]) = Len(q) + 1 /\ watch'[w][Len(q) + 1] = s
        /\ \A i \in 1..Len(q) : watch'[w][i] = q[i]
    BY <1>1, <2>1
  <2>5. CASE UserCreated(w, s)
    <3>1. s.uid = n
      BY <2>5 DEF UserCreated
    <3>2. /\ c # NoVdb => c.uid # n
          /\ \A i \in 1..Len(q) : q[i] # NoVdb => q[i].uid # n
          /\ WorkingOn(w) => x.uid # n
      <4>1. /\ c # NoVdb => c.uid \in 1..Youngest(w)
            /\ \A i \in 1..Len(q) : q[i] # NoVdb => q[i].uid \in 1..Youngest(w)
            /\ WorkingOn(w) => x.uid \in 1..Youngest(w)
        BY DEF CopiesAged, Known, Aged, WorkingOn
      <4>2. Youngest(w) = rev[w]
        BY <2>5 DEF UserCreated, Youngest
      <4>3. n \notin 1..Youngest(w)
        BY <1>1, <4>2
      <4>. QED
        BY <4>1, <4>3
    <3>. HIDE DEF q, c, r, n, x
    <3>3. ASSUME NEW j \in 1..(Len(q) + 1)
          PROVE  /\ watch'[w][j] # NoVdb /\ watch'[w][j].uid = s.uid =>
                       watch'[w][j].obj.status = s.obj.status
                 /\ Precedes(c, watch'[w][j], s)
                 /\ \A i \in 1..(j - 1) : Precedes(watch'[w][i], watch'[w][j], s)
      <4>1. \A i \in 1..(j - 1) : i \in 1..Len(q)
        BY <1>1
      <4>2. j \in 1..Len(q) \/ j = Len(q) + 1
        BY <1>1
      <4>. QED
        BY <2>4, <3>1, <3>2, <4>1, <4>2 DEF Precedes
    <3>4. WorkingOn(w)' => worker'.inst.uid # s.uid
      BY <2>1, <3>1, <3>2 DEF WorkingOn, Idle, x
    <3>. QED
      BY <2>1, <2>4, <3>3, <3>4 DEF InLine
  <2>6. CASE UserEdited(w, s)
    <3>1. r # NoVdb /\ s.uid = r.uid /\ s.obj.status = r.obj.status
      <4>1. r # NoVdb /\ r.obj \in Vdb
        BY <1>1, <2>6, StoredIsResource DEF UserEdited
      <4>2. PICK u \in VdbSpec : s = NewVersion(w, [r.obj EXCEPT !.spec = u])
        BY <2>6 DEF UserEdited
      <4>3. s.obj.status = r.obj.status /\ s.uid = r.uid
        BY <4>1, <4>2, NewVersionFields DEF Vdb
      <4>. QED
        BY <4>1, <4>3
    <3>. HIDE DEF q, c, r, n, x
    <3>2. ASSUME NEW j \in 1..(Len(q) + 1)
          PROVE  /\ watch'[w][j] # NoVdb /\ watch'[w][j].uid = s.uid =>
                       watch'[w][j].obj.status = s.obj.status
                 /\ Precedes(c, watch'[w][j], s)
                 /\ \A i \in 1..(j - 1) : Precedes(watch'[w][i], watch'[w][j], s)
      <4>1. \A i \in 1..(j - 1) : i \in 1..Len(q)
        BY <1>1
      <4>2. CASE j = Len(q) + 1
        BY <2>2, <2>3, <2>4, <3>1, <4>1, <4>2 DEF Precedes
      <4>3. CASE j \in 1..Len(q)
        <5>1. /\ q[j] # NoVdb /\ q[j].uid = r.uid => q[j].obj.status = r.obj.status
              /\ Precedes(c, q[j], r)
              /\ \A i \in 1..(j - 1) : Precedes(q[i], q[j], r)
          BY <1>2, <3>1, <4>3
        <5>. QED
          BY <2>2, <2>3, <2>4, <3>1, <4>1, <4>3, <5>1 DEF Precedes
      <4>. QED
        BY <1>1, <4>2, <4>3
    <3>3. WorkingOn(w)' => WorkingOn(w) /\ worker'.inst = x
      BY <2>1 DEF WorkingOn, Idle, x
    <3>4. WorkingOn(w)' /\ worker'.inst.uid = s.uid =>
             /\ c # NoVdb /\ c.uid = s.uid
             /\ worker'.inst.rv = s.rv => c.rv = s.rv
             /\ c.obj.status \in {worker'.inst.obj.status, s.obj.status}
      BY <1>2, <2>2, <2>3, <3>1, <3>3 DEF x
    <3>. QED
      BY <2>1, <2>4, <3>2, <3>4 DEF InLine
  <2>7. CASE WorkerUpdated(w, s) /\ worker' = Idle
    <3>1. /\ r # NoVdb /\ WorkingOn(w) /\ x = r /\ s.uid = r.uid
      BY <2>7, NewVersionFields DEF WorkerUpdated, WorkingOn
    <3>. HIDE DEF q, c, r, n, x
    <3>2. c # NoVdb /\ c.uid = r.uid /\ c.rv = r.rv
      BY <1>2, <3>1 DEF x
    <3>3. Len(q) = 0
      <4>1. \A j \in 1..Len(q) : FALSE
        BY <1>2, <3>1, <3>2 DEF Precedes
      <4>. QED
        BY <1>1, <4>1
    <3>4. ASSUME NEW j \in 1..(Len(q) + 1)
          PROVE  /\ watch'[w][j] # NoVdb /\ watch'[w][j].uid = s.uid =>
                       watch'[w][j].obj.status = s.obj.status
                 /\ Precedes(c, watch'[w][j], s)
                 /\ \A i \in 1..(j - 1) : Precedes(watch'[w][i], watch'[w][j], s)
      <4>1. j = 1 /\ watch'[w][j] = s /\ \A i \in 1..(j - 1) : FALSE
        BY <2>4, <3>3
      <4>. QED
        BY <2>2, <2>3, <3>1, <3>2, <4>1 DEF Precedes
    <3>5. ~WorkingOn(w)'
      BY <2>7 DEF WorkingOn, Idle
    <3>. QED
      BY <2>1, <2>4, <3>4, <3>5 DEF InLine
  <2>. QED
    BY <1>3, <2>2, <2>5, <2>6, <2>7 DEF Stores, UserDeleted
<1>4. CASE store'[w] = r /\ Sees(w)
  <2>. DEFINE x == worker.inst
  <2>1. /\ q # <<>> /\ cache'[w] = Head(q) /\ watch'[w] = Tail(q) /\ worker' = worker
        /\ store'[w] = r /\ r # NoVdb
    BY <1>4 DEF Sees
  <2>2. /\ Len(q) > 0 /\ cache'[w] = q[1] /\ Len(watch'[w]) = Len(q) - 1
        /\ \A i \in 1..(Len(q) - 1) : watch'[w][i] = q[i + 1]
    BY <1>1, <2>1, TailFacts
  <2>. HIDE DEF q, c, r, x
  <2>3. ASSUME NEW j \in 1..(Len(q) - 1)
        PROVE  /\ watch'[w][j] # NoVdb /\ watch'[w][j].uid = r.uid =>
                     watch'[w][j].obj.status = r.obj.status
               /\ Precedes(q[1], watch'[w][j], r)
               /\ \A i \in 1..(j - 1) : Precedes(watch'[w][i], watch'[w][j], r)
    <3>1. /\ j + 1 \in 1..Len(q) /\ 1 \in 1..((j + 1) - 1)
          /\ \A i \in 1..(j - 1) : i \in 1..(Len(q) - 1) /\ i + 1 \in 1..((j + 1) - 1)
      BY <1>1, <2>2, SMTT(40)
    <3>2. watch'[w][j] = q[j + 1] /\ \A i \in 1..(j - 1) : watch'[w][i] = q[i + 1]
      BY <2>2, <3>1
    <3>. QED
      BY <1>2, <2>1, <3>1, <3>2
  <2>4. WorkingOn(w)' = WorkingOn(w) /\ worker'.inst = x
    BY <2>1 DEF WorkingOn, x
  <2>5. WorkingOn(w) /\ x.uid = r.uid =>
           /\ q[1] # NoVdb /\ q[1].uid = r.uid /\ x.rv # r.rv
           /\ q[1].obj.status = r.obj.status
    <3>1. 1 \in 1..Len(q)
      BY <1>1, <2>2
    <3>. QED
      BY <1>2, <2>1, <3>1 DEF Precedes, x
  <2>. QED
    BY <2>1, <2>2, <2>3, <2>4, <2>5 DEF InLine
<1>5. CASE store'[w] = r /\ Lists(w)
  <2>1. /\ cache'[w] = r /\ watch'[w] = <<>> /\ store'[w] = r /\ r # NoVdb
        /\ \A j \in 1..Len(watch'[w]) : FALSE
    BY <1>5 DEF Lists
  <2>. QED
    BY <2>1 DEF InLine
<1>6. CASE store'[w] = r /\ Keeps(w)
  <2>1. cache'[w] = c /\ watch'[w] = q /\ store'[w] = r /\ r # NoVdb
    BY <1>6 DEF Keeps
  <2>2. WorkingOn(w)' => \/ WorkingOn(w) /\ worker'.inst = worker.inst
                         \/ worker'.inst = c
    BY <1>6 DEF Keeps, WorkingOn, Idle
  <2>. HIDE DEF q, c, r
  <2>3. WorkingOn(w)' /\ worker'.inst.uid = r.uid =>
           /\ c # NoVdb /\ c.uid = r.uid
           /\ worker'.inst.rv = r.rv => c.rv = r.rv
           /\ c.obj.status \in {worker'.inst.obj.status, r.obj.status}
    BY <1>1, <1>2, <2>1, <2>2
  <2>. QED
    BY <1>2, <2>1, <2>3 DEF InLine
<1>. QED
  BY <1>3, <1>4, <1>5, <1>6, CopyStep

\* A copy s from before the build of r was requested is of the source of r,
\* and none is left when the image is ready; so is one from during that build.
Behind(s, r) ==
    /\ s.uid = r.uid
    /\ s.obj.status.phase = ServiceImage /\ r.obj.status.phase \in ImageReady =>
          s.obj.status.digest = r.obj.status.digest
    /\ s.obj.status.phase = BuilderImageFinished =>
          /\ r.obj.status.phase \notin ImageReady
          /\ r.obj.status.phase = ServiceImage =>
                s.obj.status.digest = r.obj.status.digest

CopiesBehind ==
    \A v \in VDBs :
        store[v] # NoVdb /\ store[v].obj.status.phase # Initial =>
            /\ cache[v] # NoVdb /\ Behind(cache[v], store[v])
            /\ WorkingOn(v) => Behind(worker.inst, store[v])

\* the worker is about to write its target over the stored version of v
WillWrite(v) ==
    /\ WorkingOn(v) /\ worker.pc = "update"
    /\ store[v] # NoVdb /\ worker.inst.rv = store[v].rv

\* phases that are told apart
LEMMA DistinctPhases ==
    /\ BuilderImageFinished \notin ImageReady \cup {Initial, ServiceImage, Error}
    /\ Initial \notin ImageReady \cup {ServiceImage}
    /\ ServiceImage \notin ImageReady
    /\ Error \notin ImageReady \cup {ServiceImage}
    /\ ServiceImageFailed \notin ImageReady \cup {ServiceImage}
    /\ ServiceImageFinished \in ImageReady
BY DEF ImageReady, BuilderImageFinished, Initial, ServiceImage, Error,
   ServiceImageFailed, ServiceImageFinished, ServiceCreated, KeystoreCreated,
   Deploying, Running

\* the copies stay behind
LEMMA BehindStep ==
    ASSUME RefInv, Line, CopiesBehind, [Next]_vars
    PROVE  CopiesBehind'
<1>. SUFFICES ASSUME NEW w \in VDBs, store'[w] # NoVdb,
                     store'[w].obj.status.phase # Initial
              PROVE  /\ cache'[w] # NoVdb /\ Behind(cache'[w], store'[w])
                     /\ WorkingOn(w)' => Behind(worker'.inst, store'[w])
  BY DEF CopiesBehind, Behind
<1>. DEFINE r == store[w]
            q == watch[w]
<1>1. TypeOK /\ WorkerOK /\ CopiesOK
  BY DEF RefInv, TypeInv
<1>2. ASSUME r # NoVdb, r.obj.status.phase # Initial
      PROVE  /\ cache[w] # NoVdb /\ Behind(cache[w], r)
             /\ WorkingOn(w) => Behind(worker.inst, r)
  BY <1>2 DEF CopiesBehind
<1>3. ASSUME NEW s, Stores(w, s)
      PROVE  /\ cache'[w] # NoVdb /\ Behind(cache'[w], store'[w])
             /\ WorkingOn(w)' => Behind(worker'.inst, store'[w])
  <2>1. /\ store'[w] = s /\ cache' = cache
        /\ worker' = worker \/ worker' = Idle
    BY <1>1, <1>3 DEF Stores, Write, TypeOK
  <2>2. CASE UserCreated(w, s)
    <3>1. PICK u \in UserSpecs : s.obj = NewVdb(u)
      BY <2>2 DEF UserCreated
    <3>. QED
      BY <2>1, <3>1, NewVdbFields
  <2>3. CASE UserEdited(w, s)
    <3>1. r # NoVdb /\ r.obj \in Vdb
      BY <1>1, <2>3 DEF UserEdited, TypeOK, Stored
    <3>2. PICK u \in VdbSpec : s = NewVersion(w, [r.obj EXCEPT !.spec = u])
      BY <2>3 DEF UserEdited
    <3>3. s.obj.status = r.obj.status /\ s.uid = r.uid
      BY <3>1, <3>2, NewVersionFields DEF Vdb
    <3>4. WorkingOn(w)' => WorkingOn(w) /\ worker'.inst = worker.inst
      BY <2>1 DEF WorkingOn, Idle
    <3>5. /\ cache[w] # NoVdb /\ Behind(cache[w], r)
          /\ WorkingOn(w) => Behind(worker.inst, r)
      BY <1>2, <2>1, <3>1, <3>3
    <3>6. \A x : Behind(x, r) => Behind(x, s)
      BY <3>3 DEF Behind
    <3>. QED
      BY <2>1, <3>4, <3>5, <3>6
  <2>4. CASE WorkerUpdated(w, s) /\ worker' = Idle
    <3>1. /\ r # NoVdb /\ WorkingOn(w) /\ worker.inst = r /\ worker.pc = "update"
          /\ s.uid = r.uid /\ s.obj = worker.target
      BY <2>4, NewVersionFields DEF WorkerUpdated, WorkingOn
    <3>2. cache[w] # NoVdb /\ cache[w].rv = r.rv
      BY <3>1 DEF Line, InLine
    <3>3. cache[w] = r
      BY <1>1, <3>1, <3>2 DEF CopiesOK, Copy
    <3>4. r.obj \in Vdb
      BY <1>1, <3>1 DEF TypeOK, Stored
    <3>5. Advanced(r.obj, s.obj)
      BY <1>1, <2>1, <3>1, <3>4, RedeployFields DEF WorkerOK
    <3>6. PhaseStep(r.obj.status.phase, s.obj.status.phase)
      BY <3>4, <3>5, AdvancedFacts
    <3>7. Kept(r.obj, s.obj)
      BY <3>4, <3>5, AdvancedFacts
    <3>8. r.obj.status.phase = BuilderImageFinished =>
             /\ s.obj.status.phase \in {ServiceImage, Error}
             /\ s.obj.status.digest = r.obj.status.digest
      <4>1. r.obj.status.phase = BuilderImageFinished =>
               s.obj.status.phase \in {ServiceImage, Error}
        BY <3>6 DEF PhaseStep, Initial, CreateCacheStore, S2IReady, BuilderImage,
           BuilderImageFinished, ServiceImage, ServiceImageFinished,
           ServiceCreated, KeystoreCreated, Deploying, Running
      <4>. QED
        BY <3>7, <4>1, DistinctPhases DEF Kept
    <3>9. Behind(r, s)
      <4>1. r.obj.status.phase = ServiceImage =>
               s.obj.status.digest = r.obj.status.digest
        BY <3>7, DistinctPhases DEF Kept
      <4>. QED
        BY <3>1, <3>8, <4>1, DistinctPhases DEF Behind
    <3>10. ~WorkingOn(w)'
      BY <2>4 DEF WorkingOn, Idle
    <3>. QED
      BY <2>1, <3>2, <3>3, <3>9, <3>10
  <2>. QED
    BY <1>3, <2>1, <2>2, <2>3, <2>4 DEF Stores, UserDeleted
<1>4. ASSUME store'[w] = r
      PROVE  /\ r # NoVdb /\ cache[w] # NoVdb /\ Behind(cache[w], r)
             /\ WorkingOn(w) => Behind(worker.inst, r)
  BY <1>2, <1>4
<1>5. CASE store'[w] = r /\ Sees(w)
  <2>1. q # <<>> /\ cache'[w] = Head(q) /\ worker' = worker
    BY <1>5 DEF Sees
  <2>2. q \in Seq(Stored \cup {NoVdb})
    BY <1>1 DEF TypeOK
  <2>3. 1 \in 1..Len(q) /\ cache'[w] = q[1]
    BY <2>1, <2>2
  <2>4. /\ Precedes(cache[w], q[1], r)
        /\ q[1] # NoVdb /\ q[1].uid = r.uid => q[1].obj.status = r.obj.status
    BY <1>4, <1>5, <2>3 DEF Line, InLine
  <2>5. /\ q[1] # NoVdb /\ q[1].uid = r.uid /\ q[1].obj.status = r.obj.status
    BY <1>4, <1>5, <2>4 DEF Precedes, Behind
  <2>6. Behind(q[1], r)
    BY <2>5, DistinctPhases DEF Behind
  <2>. QED
    BY <1>4, <1>5, <2>1, <2>3, <2>5, <2>6 DEF WorkingOn
<1>6. CASE store'[w] = r /\ Lists(w)
  <2>1. Behind(r, r)
    BY DistinctPhases DEF Behind
  <2>. QED
    BY <1>4, <1>6, <2>1 DEF Lists, WorkingOn, Idle
<1>7. CASE store'[w] = r /\ Keeps(w)
  <2>1. cache'[w] = cache[w]
    BY <1>7 DEF Keeps
  <2>2. WorkingOn(w)' => \/ WorkingOn(w) /\ worker'.inst = worker.inst
                         \/ worker'.inst = cache[w]
    BY <1>7 DEF Keeps, WorkingOn, Idle
  <2>. QED
    BY <1>4, <1>7, <2>1, <2>2
<1>. QED
  BY <1>3, <1>5, <1>6, <1>7, CopyStep

\* a worker that goes on waiting to write over the stored version finds it there
LEMMA WaitsToWrite ==
    ASSUME RefInv, [Next]_vars, NEW w \in VDBs, WillWrite(w)', worker' = worker
    PROVE  store'[w] = store[w] /\ WillWrite(w)
<1>. DEFINE x == worker.inst
<1>0. TypeOK /\ CopiesOK
  BY DEF RefInv, TypeInv
<1>1. WorkingOn(w) /\ worker.pc = "update" /\ x.rv = store'[w].rv /\ x \in Stored
  BY <1>0, WorkerBusy DEF WillWrite, WorkingOn
<1>2. Copy(x, store[w], rev[w]) /\ x # NoVdb /\ x.rv \in Nat /\ rev[w] \in Nat
  BY <1>0, <1>1, StoredIsResource DEF CopiesOK, WorkingOn, Stored, TypeOK
<1>3. x.rv # rev[w] + 1
  BY <1>2 DEF Copy
<1>4. store'[w] = NoVdb \/ store'[w] = store[w]
  BY <1>1, <1>3, ObjectStep DEF IsNew, Respecified, Redeployed, WrittenBack, Rewritten
<1>5. store'[w] # NoVdb
  BY DEF WillWrite
<1>. QED
  BY <1>1, <1>4, <1>5 DEF WillWrite

\* a handler whose result will be written works on the stored version
LEMMA HandlesStored ==
    ASSUME RefInv, NEW w \in VDBs, WillWrite(w)', worker.pc = "handle",
           NEW o, Handled(o)
    PROVE  /\ store' = store /\ store[w] # NoVdb /\ worker.key = w
           /\ worker.inst = store[w] /\ worker'.inst = worker.inst
           /\ worker'.target = o.target /\ worker.inst.obj \in Vdb
<1>. DEFINE x == worker.inst
<1>0. TypeOK /\ CopiesOK /\ WorkingOn(w)' /\ worker'.pc = "update"
      /\ worker'.inst.rv = store'[w].rv /\ store'[w] # NoVdb
  BY DEF RefInv, TypeInv, WillWrite
<1>1. /\ store' = store /\ worker'.key = worker.key /\ worker'.inst = x
      /\ worker'.target = o.target
  BY <1>0, HandledWorker DEF WorkingOn, Idle
<1>2. /\ worker.key = w /\ x.rv = store[w].rv /\ x \in Stored /\ x.obj \in Vdb
      /\ store[w] # NoVdb
  BY <1>0, <1>1, WorkerBusy DEF WorkingOn
<1>3. x = store[w]
  BY <1>0, <1>2, StoredIsResource DEF CopiesOK, Copy
<1>. QED
  BY <1>1, <1>2, <1>3

\* What is about to be written over the stored version has been waiting for
\* that, is a redeployment, or is what a handler makes of that version.
LEMMA TargetStep ==
    ASSUME RefInv, [Next]_vars, NEW w \in VDBs, WillWrite(w)'
    PROVE  \/ worker' = worker /\ store'[w] = store[w] /\ WillWrite(w)
           \/ worker'.target.status.phase = Initial
           \/ /\ worker.pc = "handle" /\ worker.key = w /\ worker'.pc = "update"
              /\ store[w] # NoVdb /\ worker.inst = store[w] /\ store[w].obj \in Vdb
              /\ PhaseStep(store[w].obj.status.phase, worker'.target.status.phase)
              /\ Kept(store[w].obj, worker'.target)
<1>. DEFINE u == worker'.target
<1>0. RefInv' /\ TypeOK' /\ WorkerOK' /\ WorkingOn(w)' /\ worker'.pc = "update"
  BY RefStep DEF RefInv, TypeInv, WillWrite
<1>1. worker'.inst.obj \in Vdb
  BY <1>0 DEF TypeOK, Busy, Idle, Stored
<1>2. CASE worker' = worker
  BY <1>2, WaitsToWrite
<1>3. CASE u = RedeployVdb(worker'.inst.obj)
  BY <1>1, <1>3, RedeployFields
<1>4. CASE Handle
  <2>1. PICK o : Handled(o)
    BY <1>4, HandlerOutcome
  <2>2. worker.pc = "handle"
    BY <1>4, HandlerOutcome
  <2>3. /\ store[w] # NoVdb /\ worker.key = w /\ worker.inst = store[w]
        /\ worker'.inst = worker.inst
    BY <2>1, <2>2, HandlesStored
  <2>4. CASE Advanced(worker'.inst.obj, u)
    BY <1>0, <1>1, <2>2, <2>3, <2>4, AdvancedFacts
  <2>. QED
    BY <1>0, <1>3, <2>4 DEF WorkerOK
<1>5. CASE Loop
  BY <1>0, <1>2, <1>3, <1>5, LoopWorker DEF Idle
<1>6. CASE UNCHANGED vars
  BY <1>2, <1>6 DEF vars
<1>. QED
  BY <1>4, <1>5, <1>6 DEF Next

=============================================================================
