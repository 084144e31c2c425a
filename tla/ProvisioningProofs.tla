------------------------- MODULE ProvisioningProofs --------------------------
(***************************************************************************)
(* Provisioning implements Reconciler: whatever the cache store, builder   *)
(* image, services, keystore and monitor of a VirtualDatabase meet in the  *)
(* cluster, their handlers return only what Reconciler lets them return.   *)
(* What is proved of Reconciler's behaviours therefore holds of the        *)
(* operator with the objects it creates, its lagging cache and the garbage *)
(* collector.                                                              *)
(***************************************************************************)
EXTENDS Provisioning, BuilderProofs

\* a cache store is created only where the cluster may have Infinispan
IspnOK == ispn => "infinispan" \in Conditions

PInv == TypeInv /\ BuilderInv /\ IspnOK

\* the worker's copy is a resource
LEMMA WorkersCopy == ASSUME TypeInv, NEW a, AtStep(a)
                     PROVE  worker.inst.obj \in Vdb
BY WorkerBusy DEF AtStep, TypeInv, Busy, Stored

-----------------------------------------------------------------------------
(* Each handler is a run of its action.                                     *)

\* recording a cache store is a result of the CacheStore action, where there
\* may be one
LEMMA RecordedAllowed ==
    ASSUME NEW t \in Vdb, NEW stored, stored => "infinispan" \in Conditions
    PROVE  Return(InPhase(Recorded(t, stored), S2IReady)) \in CacheStoreOutcomes(t)
<1>. DEFINE With(c) == [t EXCEPT !.status.cacheStore = c]
            C == {t.status.cacheStore, t.status.cacheStore \/ "infinispan" \in Conditions}
            c0 == t.status.cacheStore \/ stored
<1>1. c0 \in C
  <2>1. t.status.cacheStore \in BOOLEAN
    BY VdbParts
  <2>. QED
    BY <2>1, Zenon
<1>2. Recorded(t, stored) = With(c0)
  BY DEF Recorded, Vdb, VdbStatus
<1>3. CacheStoreOutcomes(t) = {Return(InPhase(With(c), S2IReady)) : c \in C}
  BY DEF CacheStoreOutcomes
<1>. HIDE DEF C, c0, With
<1>. QED
  BY <1>1, <1>2, <1>3

\* no run stores anything where Infinispan is not deployed
LEMMA StoredOnlyWithInfinispan ==
    ASSUME NEW inst, NEW v, NEW r \in CacheStoreRuns(inst, v)
    PROVE  r.stored => ispn
<1>1. CASE ~ispn
  <2>1. r = Ran(objs[v], FALSE, 0)
    BY <1>1, Zenon DEF CacheStoreRuns, IgnoreCacheStore
  <2>2. Ran(objs[v], FALSE, 0).stored = FALSE
    BY Zenon DEF Ran
  <2>. QED
    BY <2>1, <2>2, Zenon
<1>. QED
  BY <1>1

\* creating a cache store, or failing to, is a run of the CacheStore action
LEMMA CacheStoreRefines ==
    TypeInv /\ IspnOK /\ RunCacheStore => HandleCacheStore
<1>. SUFFICES ASSUME TypeInv, IspnOK, RunCacheStore PROVE HandleCacheStore
  OBVIOUS
<1>. DEFINE t == worker.inst.obj
<1>1. AtStep("CacheStore") /\ UNCHANGED consoleLinks
  BY DEF RunCacheStore
<1>2. t \in Vdb
  BY <1>1, WorkersCopy
<1>3. PICK r \in CacheStoreRuns(worker.inst, worker.key) :
          Handled(Return(InPhase(Recorded(t, r.stored), S2IReady)))
  BY DEF RunCacheStore
<1>4. r.stored => "infinispan" \in Conditions
  BY StoredOnlyWithInfinispan DEF IspnOK
<1>5. Return(InPhase(Recorded(t, r.stored), S2IReady)) \in CacheStoreOutcomes(t)
  BY <1>2, <1>4, RecordedAllowed
<1>. QED
  BY <1>1, <1>3, <1>5 DEF HandleCacheStore

\* what CreateService tells of its tries is a result of the action
LEMMA ToldAllowed ==
    ASSUME NEW t \in Vdb, NEW try
    PROVE  /\ Return(Told(t, try)) \in CreateServiceOutcomes(t)
           /\ try.routed => Told(t, try).status.route
<1>. DEFINE f == IF try.failed THEN "expose" ELSE t.status.failure
            r == t.status.route \/ try.routed
            u == IF try.failed THEN [t EXCEPT !.status.failure = "expose"] ELSE t
            x == IF try.routed THEN [u EXCEPT !.status.route = TRUE] ELSE u
<1>1. t.status.route \in BOOLEAN
  BY VdbParts
<1>2. /\ try.routed => r = TRUE
      /\ ~try.routed => r = t.status.route
  BY <1>1, Zenon
<1>3. Told(t, try) = [t EXCEPT !.status.failure = f, !.status.route = r,
                               !.status.phase = ServiceCreated]
  BY DEF Told, Vdb, VdbStatus
<1>. HIDE DEF r
<1>4. [t EXCEPT !.status.failure = f, !.status.route = r,
                !.status.phase = ServiceCreated] = InPhase(x, ServiceCreated)
  BY <1>2, ZenonT(60) DEF InPhase, Vdb, VdbStatus
<1>5. x \in Exposed(t)
  <2>. DEFINE tried == {t} \cup {[t EXCEPT !.status.failure = g] : g \in {"expose"}}
  <2>1. u \in tried
    OBVIOUS
  <2>2. Exposed(t) = tried \cup {[w EXCEPT !.status.route = TRUE] : w \in tried}
    BY ExposureAssumption DEF Exposed
  <2>. HIDE DEF u, tried
  <2>. QED
    BY <2>1, <2>2
<1>6. ASSUME try.routed PROVE Told(t, try).status.route
  <2>1. Told(t, try).status = [t.status EXCEPT !.failure = f, !.route = r,
                                               !.phase = ServiceCreated]
    BY <1>3 DEF Vdb, VdbStatus
  <2>2. Told(t, try).status.route = r
    BY <2>1 DEF Vdb, VdbStatus
  <2>. QED
    BY <1>2, <1>6, <2>2, Zenon
<1>. HIDE DEF x
<1>. QED
  BY <1>3, <1>4, <1>5, <1>6 DEF CreateServiceOutcomes

\* creating the services and the route is a run of the CreateService action
LEMMA CreateServiceRefines == TypeInv /\ CreateService => HandleCreateService
<1>. SUFFICES ASSUME TypeInv, CreateService PROVE HandleCreateService
  OBVIOUS
<1>. DEFINE t == worker.inst.obj
<1>1. AtStep("CreateService")
  BY DEF CreateService
<1>2. t \in Vdb
  BY <1>1, WorkersCopy
<1>3. PICK try \in CreateServiceTries(worker.inst, worker.key) :
          /\ Handled(Return(Told(t, try)))
          /\ UNCHANGED consoleLinks \/ (try.routed /\ Linked(worker.key))
  BY DEF CreateService
<1>. DEFINE o == Return(Told(t, try))
<1>4. o \in CreateServiceOutcomes(t) /\ (try.routed => Told(t, try).status.route)
  BY <1>2, ToldAllowed
<1>5. o.target = Told(t, try)
  BY DEF Return
<1>6. UNCHANGED consoleLinks \/ (o.target.status.route /\ Linked(worker.key))
  BY <1>3, <1>4, <1>5
<1>. QED
  BY <1>1, <1>3, <1>4, <1>6 DEF HandleCreateService

\* making the keystore is a run of the CreateCertificate action
LEMMA CreateCertificateRefines == CreateCertificate => HandleCreateCertificate
<1>. SUFFICES ASSUME CreateCertificate PROVE HandleCreateCertificate
  OBVIOUS
<1>. DEFINE t == worker.inst.obj
<1>1. AtStep("CreateCertificate") /\ UNCHANGED consoleLinks
  BY DEF CreateCertificate
<1>2. Handled(Return(InPhase(t, KeystoreCreated))) \/ Handled(Fail(t))
  BY DEF CreateCertificate, Secured
<1>. QED
  BY <1>1, <1>2 DEF HandleCreateCertificate, CreateCertificateOutcomes

\* and making the service monitor one of the PrometheusMonitor action
LEMMA PrometheusMonitorRefines == PrometheusMonitor => HandlePrometheusMonitor
<1>. SUFFICES ASSUME PrometheusMonitor PROVE HandlePrometheusMonitor
  OBVIOUS
<1>. DEFINE t == worker.inst.obj
<1>1. AtStep("PrometheusMonitor") /\ UNCHANGED consoleLinks
  BY DEF PrometheusMonitor
<1>2. Handled(Return(t)) \/ Handled(Fail(t))
  BY DEF PrometheusMonitor
<1>. QED
  BY <1>1, <1>2 DEF HandlePrometheusMonitor, PrometheusMonitorOutcomes

-----------------------------------------------------------------------------
(* The refinement.                                                          *)

\* every step is a step of Reconciler or leaves its variables alone
LEMMA ProvisioningStep == PInv /\ [PNext]_pVars => [Next]_vars
<1>. SUFFICES ASSUME PInv, [PNext]_pVars PROVE [Next]_vars
  OBVIOUS
<1>1. CASE UNCHANGED pVars
  BY <1>1 DEF pVars
<1>2. CASE PLoop
  BY <1>2 DEF PLoop, OwnedLoop, Next
<1>3. CASE PHandle
  <2>1. CASE HandlersLeft
    BY <2>1 DEF HandlersLeft, Next, Handle
  <2>2. CASE RunCacheStore
    BY <2>2, CacheStoreRefines DEF PInv, Next, Handle
  <2>3. CASE BuildBuilderImage \/ MonitorBuilderImage
    BY <2>3, BuildBuilderRefines, MonitorBuilderRefines
       DEF PInv, BuilderInv, Next, Handle
  <2>4. CASE CreateService \/ CreateCertificate \/ PrometheusMonitor
    BY <2>4, CreateServiceRefines, CreateCertificateRefines, PrometheusMonitorRefines
       DEF PInv, Next, Handle
  <2>. QED
    BY <1>3, <2>1, <2>2, <2>3, <2>4 DEF PHandle
<1>4. CASE PCrash
  BY <1>4 DEF PCrash, CrashInCacheStore, CrashInBuilder, CrashInCreateService,
     Next, Loop
<1>5. CASE Cluster
  BY <1>5 DEF Cluster, BuildersMove, BuilderMoves, ImportBaseImage,
     InstallInfinispan, CatchUp, Collect, IssueCertificate
<1>. QED
  BY <1>1, <1>2, <1>3, <1>4, <1>5 DEF PNext

\* the builder image is still built once
LEMMA ProvisioningBuilder == BuilderInv /\ [PNext]_pVars => BuilderInv'
<1>. SUFFICES ASSUME BuilderInv, [PNext]_pVars PROVE BuilderInv'
  OBVIOUS
<1>1. CASE UNCHANGED builder
  BY <1>1 DEF BuilderInv, BuilderType, BuilderBuiltOnce
<1>2. Requested(builder) \in Nat
  BY RequestedBounds DEF BuilderInv
<1>3. CASE PHandle
  <2>1. \/ UNCHANGED builder
        \/ \E n \in 0..Requested(builder) : Request(n)
    BY <1>2, <1>3 DEF PHandle, provVars, builderVars, BuildBuilderImage,
       MonitorBuilderImage, FailsAfter
  <2>. QED
    BY <1>1, <2>1, RequestKeepsInv
<1>4. CASE PCrash
  <2>1. \/ UNCHANGED builder
        \/ \E n \in 0..Requested(builder) : Request(n)
    BY <1>4 DEF PCrash, builderVars, CrashInBuilder
  <2>. QED
    BY <1>1, <2>1, RequestKeepsInv
<1>5. CASE \E p \in BuildPhases : BuilderMoves(p)
  BY <1>5, MoveKeepsInv
<1>6. CASE PLoop \/ (Cluster /\ ~BuildersMove) \/ UNCHANGED pVars
  BY <1>1, <1>6 DEF PLoop, Cluster, ImportBaseImage, builderVars, pVars, provVars
<1>. QED
  BY <1>3, <1>4, <1>5, <1>6 DEF PNext, BuildersMove

\* Infinispan is installed only where the cluster may have it
LEMMA ProvisioningIspn == IspnOK /\ [PNext]_pVars => IspnOK'
<1>. SUFFICES ASSUME IspnOK, [PNext]_pVars PROVE IspnOK'
  OBVIOUS
<1>1. CASE UNCHANGED ispn
  BY <1>1 DEF IspnOK
<1>2. CASE InstallInfinispan
  BY <1>2 DEF IspnOK, InstallInfinispan
<1>. QED
  BY <1>1, <1>2 DEF PNext, PLoop, PHandle, PCrash, Cluster, provVars, pVars,
     RunCacheStore, CrashInCacheStore

\* Every behaviour of the operator with the objects it provisions, with failing
\* and repeated creations, a lagging cache, the garbage collector, the service
\* CA and restarts between two creations, is a behaviour of Reconciler.
THEOREM ProvisioningRefines == PSpec => ProvisioningImplementsReconciler
<1>1. PInit => Init /\ PInv
  <2>1. <<>> \in Builds /\ Len(<<>>) = 0
    BY EmptySeq DEF Builds
  <2>. QED
    BY <2>1, TypeInit, BuilderAssumption
       DEF PInit, OwnedInit, CacheStoreInit, PInv, BuilderInv, BuilderType,
           BuilderBuiltOnce, IspnOK
<1>2. PInv /\ [PNext]_pVars => [Next]_vars /\ PInv'
  BY ProvisioningStep, ProvisioningBuilder, ProvisioningIspn, TypeStep DEF PInv
<1>. QED
  BY <1>1, <1>2, PTL DEF PSpec, ProvisioningImplementsReconciler, Spec

-----------------------------------------------------------------------------
(* What the handlers leave in the cluster.                                  *)

\* the objects of one VirtualDatabase
Holdings == [Kinds -> Object \cup {NoObject}]

\* q has the objects of o and perhaps some more, which belong to uid
Grown(o, q, uid) ==
    /\ q \in Holdings
    /\ \A k \in Kinds : q[k] = o[k] \/ (o[k] = NoObject /\ q[k] # NoObject
                                        /\ q[k].owner = uid)

\* a new secret for the pods comes with a new identity and its password
Paired(o, q) ==
    \/ q["credentials"] = o["credentials"]
    \/ /\ o["identity"] = NoObject /\ q["identity"] # NoObject
       /\ q["identity"].owner = q["credentials"].owner
       /\ q["identity"].value = q["credentials"].value

\* an owned object
LEMMA OwnObject ==
    ASSUME NEW inst \in Stored, NEW x \in Nat
    PROVE  /\ Own(inst, x) \in Object /\ Own(inst, x) # NoObject
           /\ Own(inst, x).owner = inst.uid /\ Own(inst, x).value = x
BY OwnedAssumption DEF Own, Object, Stored

\* creating an object changes that object and no other
LEMMA CreatedGrows ==
    ASSUME NEW o \in Holdings, NEW k \in Kinds, NEW inst \in Stored, NEW x \in Nat
    PROVE  LET q == Created(o, k, Own(inst, x))
           IN  /\ Grown(o, q, inst.uid)
               /\ q[k] # NoObject
               /\ o[k] = NoObject => q[k] = Own(inst, x)
               /\ o[k] # NoObject => q[k] = o[k]
               /\ \A j \in Kinds \ {k} : q[j] = o[j]
<1>. DEFINE b == Own(inst, x)
<1>1. b \in Object /\ b # NoObject /\ b.owner = inst.uid
  BY OwnObject
<1>. HIDE DEF b
<1>2. CASE o[k] = NoObject
  <2>1. Created(o, k, b) = [o EXCEPT ![k] = b]
    BY <1>2 DEF Created
  <2>. QED
    BY <1>1, <1>2, <2>1 DEF Grown, Holdings, b
<1>3. CASE o[k] # NoObject
  <2>1. Created(o, k, b) = o
    BY <1>3 DEF Created
  <2>. QED
    BY <1>1, <1>3, <2>1 DEF Grown, Holdings, b
<1>. QED
  BY <1>2, <1>3

\* growth adds up
LEMMA GrownTwice ==
    ASSUME NEW o, NEW p, NEW q, NEW uid, Grown(o, p, uid), Grown(p, q, uid)
    PROVE  Grown(o, q, uid)
BY DEF Grown

\* of three passwords, one is in neither secret
LEMMA RandomPasswordType ==
    ASSUME NEW o \in Holdings
    PROVE  RandomPassword(o) \in Nat
<1>. DEFINE Used(p) == \E k \in {"identity", "credentials"} :
                          o[k] # NoObject /\ o[k].value = p
            Free(p) == /\ \A k \in {"identity", "credentials"} :
                             o[k] # NoObject => o[k].value # p
                       /\ \A q \in 1..(p - 1) : Used(q)
<1>1. ~Used(1) \/ ~Used(2) \/ ~Used(3)
  OBVIOUS
<1>2. Free(1) \/ Free(2) \/ Free(3)
  <2>1. CASE ~Used(1)
    BY <2>1
  <2>2. CASE Used(1) /\ ~Used(2)
    <3>1. \A q \in 1..(2 - 1) : q = 1
      OBVIOUS
    <3>. QED
      BY <2>2, <3>1
  <2>3. CASE Used(1) /\ Used(2) /\ ~Used(3)
    <3>1. \A q \in 1..(3 - 1) : q = 1 \/ q = 2
      OBVIOUS
    <3>. QED
      BY <2>3, <3>1
  <2>. QED
    BY <1>1, <2>1, <2>2, <2>3
<1>3. \E p \in 1..3 : Free(p)
  BY <1>2
<1>4. RandomPassword(o) = CHOOSE p \in 1..3 : Free(p)
  BY DEF RandomPassword
<1>. HIDE DEF Free
<1>. QED
  BY <1>3, <1>4

\* o has a cache store that belongs to uid
Equipped(o, uid) == \A k \in {"identity", "infinispan"} :
                        o[k] # NoObject /\ o[k].owner = uid

\* the first of several states
LEMMA Preceded ==
    ASSUME NEW o \in Holdings, NEW s \in Seq(Holdings)
    PROVE  /\ Len(<<o>> \o s) = Len(s) + 1
           /\ (<<o>> \o s)[1] = o
           /\ \A i \in 1..(Len(s) + 1) : i > 1 => (<<o>> \o s)[i] = s[i - 1]
<1>1. <<o>> \in Seq(Holdings) /\ Len(<<o>>) = 1 /\ Len(s) \in Nat
  OBVIOUS
<1>. QED
  BY <1>1, ConcatProperties

\* the creations of a new cache store, up to the one that is refused
LEMMA NewStoreSteps ==
    ASSUME NEW inst \in Stored, NEW o \in Holdings
    PROVE  LET s == NewCacheStore(inst, o)
           IN  /\ Len(s) \in {1, 2, 4}
               /\ \A i \in 1..Len(s) :
                     /\ Grown(o, s[i], inst.uid)
                     /\ Paired(o, s[i])
                     /\ i >= 3 => Equipped(s[i], inst.uid)
<1>. DEFINE p  == RandomPassword(o)
            o1 == Created(o, "identity", Own(inst, p))
            o2 == Created(o1, "infinispan", Own(inst, 0))
            o3 == Created(o2, "credentials", Own(inst, p))
            Good(q) == Grown(o, q, inst.uid) /\ Paired(o, q)
<1>1. p \in Nat
  BY RandomPasswordType
<1>. HIDE DEF p
<1>2. /\ Own(inst, p).owner = inst.uid /\ Own(inst, p).value = p
      /\ Own(inst, 0).owner = inst.uid
  BY <1>1, OwnObject
<1>3. /\ Grown(o, o1, inst.uid) /\ o1 \in Holdings
      /\ o["identity"] = NoObject =>
            o1["identity"] # NoObject /\ o1["identity"] = Own(inst, p)
      /\ \A j \in Kinds \ {"identity"} : o1[j] = o[j]
  BY <1>1, CreatedGrows DEF Kinds, Grown
<1>. HIDE DEF o1
<1>0. 0 \in Nat /\ "infinispan" \in Kinds /\ "credentials" \in Kinds
  BY DEF Kinds
<1>4. /\ Grown(o1, o2, inst.uid) /\ o2 \in Holdings
      /\ o1["infinispan"] = NoObject =>
            o2["infinispan"] # NoObject /\ o2["infinispan"] = Own(inst, 0)
      /\ \A j \in Kinds \ {"infinispan"} : o2[j] = o1[j]
  <2>. DEFINE q == Created(o1, "infinispan", Own(inst, 0))
  <2>1. /\ Grown(o1, q, inst.uid)
        /\ q["infinispan"] # NoObject
        /\ o1["infinispan"] = NoObject => q["infinispan"] = Own(inst, 0)
        /\ \A j \in Kinds \ {"infinispan"} : q[j] = o1[j]
    BY <1>0, <1>3, CreatedGrows
  <2>. QED
    BY <2>1 DEF Grown
<1>. HIDE DEF o2
<1>5. /\ Grown(o2, o3, inst.uid)
      /\ o3["credentials"] = Own(inst, p) \/ o3["credentials"] = o2["credentials"]
      /\ \A j \in Kinds \ {"credentials"} : o3[j] = o2[j]
  BY <1>1, <1>4, CreatedGrows DEF Kinds
<1>. HIDE DEF o3
<1>6. Good(o) /\ Good(o1) /\ Good(o2)
  <2>1. Grown(o, o, inst.uid)
    BY DEF Grown
  <2>2. Grown(o, o2, inst.uid)
    BY <1>3, <1>4, GrownTwice
  <2>3. /\ o1["credentials"] = o["credentials"]
        /\ o2["credentials"] = o["credentials"]
    BY <1>3, <1>4 DEF Kinds
  <2>. QED
    BY <1>3, <2>1, <2>2, <2>3 DEF Paired
<1>7. ASSUME o["identity"] = NoObject, o["infinispan"] = NoObject
      PROVE  Good(o3) /\ Equipped(o2, inst.uid) /\ Equipped(o3, inst.uid)
  <2>1. /\ o2["identity"] # NoObject /\ o2["identity"] = Own(inst, p)
        /\ o2["infinispan"] # NoObject /\ o2["infinispan"] = Own(inst, 0)
    BY <1>3, <1>4, <1>7 DEF Kinds
  <2>2. o3["identity"] = o2["identity"] /\ o3["infinispan"] = o2["infinispan"]
    BY <1>5 DEF Kinds
  <2>3. Grown(o, o3, inst.uid)
    BY <1>3, <1>4, <1>5, GrownTwice
  <2>4. o2["credentials"] = o["credentials"]
    BY <1>3, <1>4 DEF Kinds
  <2>5. Paired(o, o3)
    BY <1>2, <1>5, <1>7, <2>1, <2>2, <2>4 DEF Paired
  <2>. QED
    BY <1>2, <2>1, <2>2, <2>3, <2>5 DEF Equipped
<1>. HIDE DEF Good
<1>8. CASE o["identity"] # NoObject
  <2>1. NewCacheStore(inst, o) = <<o>> \o <<>>
    BY <1>8 DEF NewCacheStore
  <2>2. <<o>> \o <<>> = <<o>>
    OBVIOUS
  <2>. QED
    BY <1>6, <2>1, <2>2 DEF Good
<1>9. CASE o["identity"] = NoObject /\ o["infinispan"] # NoObject
  <2>1. NewCacheStore(inst, o) = <<o>> \o <<o1>>
    BY <1>9 DEF NewCacheStore, o1, p
  <2>2. <<o1>> \in Seq(Holdings) /\ Len(<<o1>>) = 1 /\ <<o1>>[1] = o1
    BY <1>3
  <2>3. /\ Len(<<o>> \o <<o1>>) = 2
        /\ (<<o>> \o <<o1>>)[1] = o /\ (<<o>> \o <<o1>>)[2] = o1
    BY <2>2, Preceded
  <2>. QED
    BY <1>6, <2>1, <2>3 DEF Good
<1>10. CASE o["identity"] = NoObject /\ o["infinispan"] = NoObject
  <2>1. NewCacheStore(inst, o) = <<o>> \o <<o1, o2, o3>>
    BY <1>10 DEF NewCacheStore, o1, o2, o3, p
  <2>. DEFINE s == <<o1, o2, o3>>
  <2>2. s \in Seq(Holdings) /\ Len(s) = 3 /\ s[1] = o1 /\ s[2] = o2 /\ s[3] = o3
    BY <1>3, <1>4, <1>5 DEF Grown
  <2>. HIDE DEF s
  <2>. DEFINE r == <<o>> \o s
  <2>3. /\ Len(r) = Len(s) + 1 /\ r[1] = o
        /\ \A i \in 1..(Len(s) + 1) : i > 1 => r[i] = s[i - 1]
    <3>1. s \in Seq(Holdings)
      BY <2>2
    <3>. QED
      BY <3>1, Preceded
  <2>4. \A i \in 1..4 : i = 1 \/ i = 2 \/ i = 3 \/ i = 4
    OBVIOUS
  <2>5. NewCacheStore(inst, o) = r
    BY <2>1 DEF s
  <2>6. Good(o3) /\ Equipped(o2, inst.uid) /\ Equipped(o3, inst.uid)
    BY <1>7, <1>10
  <2>. HIDE DEF r
  <2>7. Len(r) = 4 /\ r[1] = o /\ r[2] = o1 /\ r[3] = o2 /\ r[4] = o3
    BY <2>2, <2>3
  <2>8. ASSUME NEW i \in 1..4
        PROVE  Good(r[i]) /\ (i >= 3 => Equipped(r[i], inst.uid))
    BY <1>6, <2>4, <2>6, <2>7
  <2>. QED
    BY <2>5, <2>7, <2>8 DEF Good
<1>. QED
  BY <1>8, <1>9, <1>10

\* what a run of the CacheStore handler has left
LEMMA RanFields ==
    ASSUME NEW o, NEW b, NEW n, NEW m
    PROVE  LET r == Ran(o, b, n)
           IN  /\ r.objs = o /\ (r.stored <=> b) /\ r.faults = n
               /\ [r EXCEPT !.faults = m] = Ran(o, b, m)
<1>1. Ran(o, b, n).objs = o /\ Ran(o, b, n).faults = n
  BY DEF Ran
<1>2. Ran(o, b, n).stored <=> b
  BY Zenon DEF Ran
<1>3. [Ran(o, b, n) EXCEPT !.faults = m] = Ran(o, b, m)
  BY DEF Ran
<1>. QED
  BY <1>1, <1>2, <1>3

\* every run leaves the states of a new cache store up to some creation, and
\* one that records the store has created the identity and the Infinispan
LEMMA NewStoreRunFacts ==
    ASSUME NEW inst \in Stored, NEW o \in Holdings, NEW r \in NewStoreRuns(inst, o)
    PROVE  \E q, b : \E n \in Nat :
              /\ r = Ran(q, b, n)
              /\ Grown(o, q, inst.uid) /\ Paired(o, q)
              /\ b => Equipped(q, inst.uid)
<1>. DEFINE s == NewCacheStore(inst, o)
            n == Len(s)
<1>1. /\ n \in {1, 2, 4}
      /\ \A i \in 1..n : /\ Grown(o, s[i], inst.uid) /\ Paired(o, s[i])
                         /\ i >= 3 => Equipped(s[i], inst.uid)
  BY NewStoreSteps
<1>2. \/ r = Ran(s[n], n = 4, 0)
      \/ \E i \in 1..n \ {4} : r = Ran(s[i], FALSE, 1)
      \/ \E i \in 3..n : r = Ran(s[i], TRUE, 1)
  BY Zenon DEF NewStoreRuns
<1>. HIDE DEF s, n
<1>3. CASE r = Ran(s[n], n = 4, 0)
  <2>1. n \in 1..n /\ (n = 4 => n >= 3) /\ 0 \in Nat
    BY <1>1
  <2>. QED
    BY <1>1, <1>3, <2>1, Zenon
<1>4. CASE \E i \in 1..n \ {4} : r = Ran(s[i], FALSE, 1)
  BY <1>1, <1>4
<1>5. CASE \E i \in 3..n : r = Ran(s[i], TRUE, 1)
  <2>1. PICK i \in 3..n : r = Ran(s[i], TRUE, 1)
    BY <1>5
  <2>2. i \in 1..n /\ i >= 3 /\ 1 \in Nat
    BY <1>1
  <2>. QED
    BY <1>1, <2>1, <2>2
<1>. QED
  BY <1>2, <1>3, <1>4, <1>5

\* so does the handler, which may do nothing at all
LEMMA CacheStoreRunFacts ==
    ASSUME NEW inst \in Stored, NEW v \in VDBs, objs[v] \in Holdings,
           NEW r \in CacheStoreRuns(inst, v)
    PROVE  /\ Grown(objs[v], r.objs, inst.uid)
           /\ Paired(objs[v], r.objs)
           /\ r.stored => Equipped(r.objs, inst.uid)
           /\ r.faults \in Nat
<1>. DEFINE o == objs[v]
            C == {k \in {"credentials", "shared"} : Seen(v, k)}
            found == Cardinality(C)
<1>1. found \in Nat
  <2>1. IsFiniteSet({"credentials"} \cup {"shared"})
    BY FS_Singleton, FS_Union
  <2>2. {"credentials"} \cup {"shared"} = {"credentials", "shared"}
    OBVIOUS
  <2>3. IsFiniteSet(C)
    BY <2>1, <2>2, FS_Subset
  <2>. QED
    BY <2>3, FS_CardinalityType
<1>2. Grown(o, o, inst.uid) /\ Paired(o, o)
  BY DEF Grown, Paired
<1>3. \/ r = Ran(o, FALSE, 0) \/ r = Ran(o, FALSE, 1)
      \/ \E x \in NewStoreRuns(inst, o) : r = [x EXCEPT !.faults = @ + found]
  BY DEF CacheStoreRuns, ConfigurationsSeen
<1>. HIDE DEF C, found
<1>4. CASE r = Ran(o, FALSE, 0) \/ r = Ran(o, FALSE, 1)
  <2>1. PICK n \in {0, 1} : r = Ran(o, FALSE, n)
    BY <1>4
  <2>2. r.objs = o /\ r.faults = n
    BY <2>1 DEF Ran
  <2>3. r.stored <=> FALSE
    BY <2>1, Zenon DEF Ran
  <2>. QED
    BY <1>2, <2>2, <2>3
<1>5. ASSUME NEW x \in NewStoreRuns(inst, o), r = [x EXCEPT !.faults = @ + found]
      PROVE  /\ Grown(o, r.objs, inst.uid) /\ Paired(o, r.objs)
             /\ r.stored => Equipped(r.objs, inst.uid)
             /\ r.faults \in Nat
  <2>1. PICK q, b : \E n \in Nat :
              /\ x = Ran(q, b, n)
              /\ Grown(o, q, inst.uid) /\ Paired(o, q)
              /\ b => Equipped(q, inst.uid)
    BY NewStoreRunFacts
  <2>2. PICK n \in Nat : x = Ran(q, b, n)
    BY <2>1
  <2>3. x.faults = n
    BY <2>2, RanFields
  <2>4. r = Ran(q, b, n + found)
    BY <1>5, <2>2, <2>3, RanFields
  <2>5. r.objs = q /\ (r.stored <=> b) /\ r.faults = n + found
    BY <2>4, RanFields
  <2>. QED
    BY <1>1, <2>1, <2>5
<1>. QED
  BY <1>3, <1>4, <1>5

\* the state of the CreateService handler
Tries == [objs : Holdings, failed : BOOLEAN, routed : BOOLEAN, faults : Nat]

\* The fields of a try of which one or more are changed: the failure,
LEMMA TryFailed ==
    ASSUME NEW x \in Tries, NEW f \in BOOLEAN
    PROVE  LET y == [x EXCEPT !.failed = f]
           IN  /\ y \in Tries /\ y.objs = x.objs /\ y.failed = f
               /\ y.routed = x.routed
BY DEF Tries

\* the failure and the count of faults,
LEMMA TryFaulted ==
    ASSUME NEW x \in Tries, NEW f \in BOOLEAN, NEW n \in Nat
    PROVE  LET y == [x EXCEPT !.failed = f, !.faults = n]
           IN  /\ y \in Tries /\ y.objs = x.objs /\ y.failed = f
               /\ y.routed = x.routed
BY DEF Tries

\* the objects and the route,
LEMMA TryRouted ==
    ASSUME NEW x \in Tries, NEW q \in Holdings, NEW r \in BOOLEAN
    PROVE  LET y == [x EXCEPT !.objs = q, !.routed = r]
           IN  /\ y \in Tries /\ y.objs = q /\ y.failed = x.failed
               /\ y.routed = r
BY DEF Tries

\* or the count alone.
LEMMA TryCounted ==
    ASSUME NEW x \in Tries, NEW n \in Nat
    PROVE  LET y == [x EXCEPT !.faults = n]
           IN  /\ y \in Tries /\ y.objs = x.objs /\ y.failed = x.failed
               /\ y.routed = x.routed
BY DEF Tries

\* EnsureObject: unless it reports a failure, the object is there or is seen
LEMMA EnsuredFacts ==
    ASSUME NEW v, NEW try \in Tries, NEW k \in Kinds, NEW b \in Object,
           b # NoObject, NEW u \in Ensured(v, try, k, b)
    PROVE  /\ u \in Tries
           /\ Grown(try.objs, u.objs, b.owner)
           /\ \A j \in Kinds \ {k} : u.objs[j] = try.objs[j]
           /\ u.routed <=> try.routed
           /\ try.failed => u.failed
           /\ ~u.failed => u.objs[k] # NoObject \/ Seen(v, k)
<1>. DEFINE Goal(x) == /\ x \in Tries
                       /\ Grown(try.objs, x.objs, b.owner)
                       /\ \A j \in Kinds \ {k} : x.objs[j] = try.objs[j]
                       /\ x.routed <=> try.routed
                       /\ try.failed => x.failed
            there == try.objs[k] # NoObject
            made == [try EXCEPT !.objs[k] = b]
<1>1. Goal(try)
  BY DEF Tries, Grown
<1>2. ASSUME ~there PROVE Goal(made) /\ made.objs[k] = b
  <2>. DEFINE q == [try.objs EXCEPT ![k] = b]
  <2>1. q \in Holdings /\ q[k] = b /\ \A j \in Kinds \ {k} : q[j] = try.objs[j]
    BY DEF Tries, Holdings
  <2>2. made = [try EXCEPT !.objs = q]
    BY DEF Tries
  <2>. HIDE DEF q
  <2>3. /\ made.objs = q /\ made \in Tries /\ (made.routed <=> try.routed)
        /\ made.failed <=> try.failed
    BY <2>1, <2>2 DEF Tries
  <2>. HIDE DEF made
  <2>4. Grown(try.objs, q, b.owner)
    BY <1>2, <2>1 DEF Grown
  <2>. QED
    BY <2>1, <2>3, <2>4
<1>3. ASSUME NEW x, Goal(x)
      PROVE  /\ Goal([x EXCEPT !.failed = TRUE])
             /\ [x EXCEPT !.failed = TRUE].failed
             /\ Goal([x EXCEPT !.failed = TRUE, !.faults = @ + 1])
             /\ [x EXCEPT !.failed = TRUE, !.faults = @ + 1].failed
  <2>. DEFINE y == [x EXCEPT !.failed = TRUE]
              z == [x EXCEPT !.failed = TRUE, !.faults = @ + 1]
  <2>1. TRUE \in BOOLEAN /\ x.objs \in Holdings /\ x.faults \in Nat
    BY <1>3, Zenon DEF Tries
  <2>2. x \in Tries /\ x.faults + 1 \in Nat
    BY <1>3, <2>1
  <2>3. /\ y \in Tries /\ z \in Tries
        /\ y.objs = x.objs /\ z.objs = x.objs
        /\ y.failed = TRUE /\ z.failed = TRUE
        /\ y.routed = x.routed /\ z.routed = x.routed
    <3>1. [x EXCEPT !.failed = TRUE, !.faults = x.faults + 1] = z
      OBVIOUS
    <3>. QED
      BY <2>1, <2>2, <3>1, TryFailed, TryFaulted, Zenon
  <2>4. y.failed /\ z.failed /\ (y.routed <=> x.routed) /\ (z.routed <=> x.routed)
    BY <2>3, Zenon
  <2>. HIDE DEF y, z
  <2>. QED
    BY <1>3, <2>3, <2>4 DEF y, z
<1>. HIDE DEF Goal, made
<1>4. \/ u = try /\ (there \/ Seen(v, k))
      \/ u = [try EXCEPT !.failed = TRUE]
      \/ u = made /\ ~there
      \/ u = [try EXCEPT !.failed = TRUE, !.faults = @ + 1]
      \/ u = [made EXCEPT !.failed = TRUE, !.faults = @ + 1] /\ ~there
  BY DEF Ensured, made
<1>5. Goal(u) /\ (u.failed \/ u.objs[k] # NoObject \/ Seen(v, k))
  BY <1>1, <1>2, <1>3, <1>4
<1>. QED
  BY <1>5 DEF Goal

\* What is so of every state of the handler: it has only added objects, none
\* of them the pods' secret; if it has a route, the route is there or is
\* seen; and unless it failed, so is the service.
Sound(v, uid, u) ==
    /\ u \in Tries
    /\ Grown(objs[v], u.objs, uid)
    /\ u.objs["credentials"] = objs[v]["credentials"]
    /\ u.routed => u.objs["route"] # NoObject \/ Seen(v, "route")
    /\ ~u.failed => u.objs["service"] # NoObject \/ Seen(v, "service")

\* before anything is tried
LEMMA TryStart ==
    ASSUME NEW o \in Holdings
    PROVE  Try(o) \in Tries /\ Try(o).objs = o /\ ~Try(o).routed
<1>1. Try(o) \in Tries
  <2>1. FALSE \in BOOLEAN /\ 0 \in Nat
    BY Zenon
  <2>. QED
    BY <2>1, Zenon DEF Try, Tries
<1>2. Try(o).objs = o
  BY DEF Try
<1>3. ~Try(o).routed
  BY Zenon DEF Try
<1>. QED
  BY <1>1, <1>2, <1>3

\* after the service has been tried
LEMMA ServiceTried ==
    ASSUME NEW inst \in Stored, NEW v \in VDBs, objs[v] \in Holdings,
           NEW u \in ServiceTries(inst, v)
    PROVE  Sound(v, inst.uid, u)
<1>1. PICK a \in Asking(v) :
          u \in Ensured(v, [Try(objs[v]) EXCEPT !.faults = a.faults], "service",
                        Own(inst, a.ask))
  BY DEF ServiceTries
<1>2. a.ask \in Nat /\ a.faults \in Nat
  BY DEF Asking
<1>. DEFINE x == [Try(objs[v]) EXCEPT !.faults = a.faults]
<1>3. x \in Tries /\ x.objs = objs[v] /\ x.routed = Try(objs[v]).routed
  BY <1>2, TryStart, TryCounted
<1>4. ~x.routed
  BY <1>3, TryStart, Zenon
<1>. HIDE DEF x
<1>. DEFINE b == Own(inst, a.ask)
<1>5. b \in Object /\ b # NoObject /\ b.owner = inst.uid
  BY <1>2, OwnObject
<1>. HIDE DEF b
<1>6. "service" \in Kinds /\ "credentials" \in Kinds \ {"service"}
  BY DEF Kinds
<1>7. /\ u \in Tries /\ Grown(objs[v], u.objs, inst.uid)
      /\ \A j \in Kinds \ {"service"} : u.objs[j] = objs[v][j]
      /\ u.routed <=> x.routed
      /\ ~u.failed => u.objs["service"] # NoObject \/ Seen(v, "service")
  <2>1. u \in Ensured(v, x, "service", b)
    BY <1>1 DEF x, b
  <2>2. /\ u \in Tries /\ Grown(x.objs, u.objs, b.owner)
        /\ \A j \in Kinds \ {"service"} : u.objs[j] = x.objs[j]
        /\ u.routed <=> x.routed
    BY <1>3, <1>5, <1>6, <2>1, EnsuredFacts
  <2>3. ~u.failed => u.objs["service"] # NoObject \/ Seen(v, "service")
    <3>1. x \in Tries /\ "service" \in Kinds
      BY <1>3, <1>6
    <3>. QED
      BY <1>5, <2>1, <3>1, EnsuredFacts, Zenon
  <2>. QED
    BY <1>3, <1>5, <2>2, <2>3
<1>. QED
  BY <1>4, <1>6, <1>7 DEF Sound

\* what grows keeps its service, its route and the pods' secret
LEMMA SoundGrows ==
    ASSUME NEW v \in VDBs, NEW uid, NEW u, Sound(v, uid, u), NEW x \in Tries,
           Grown(u.objs, x.objs, uid), x.objs["credentials"] = u.objs["credentials"],
           u.failed => x.failed,
           x.routed => u.routed \/ x.objs["route"] # NoObject \/ Seen(v, "route")
    PROVE  Sound(v, uid, x)
<1>1. Grown(objs[v], x.objs, uid)
  BY GrownTwice DEF Sound
<1>2. ASSUME NEW k \in Kinds, u.objs[k] # NoObject PROVE x.objs[k] # NoObject
  BY <1>2 DEF Grown
<1>3. "service" \in Kinds /\ "route" \in Kinds
  BY DEF Kinds
<1>4. x.routed => x.objs["route"] # NoObject \/ Seen(v, "route")
  BY <1>2, <1>3 DEF Sound
<1>5. ~x.failed => x.objs["service"] # NoObject \/ Seen(v, "service")
  BY <1>2, <1>3 DEF Sound
<1>. QED
  BY <1>1, <1>4, <1>5 DEF Sound

\* an external service that has been tried
LEMMA ExternalTried ==
    ASSUME NEW inst \in Stored, NEW v \in VDBs, NEW u, Sound(v, inst.uid, u),
           NEW x \in ExternalTries(inst, v, u)
    PROVE  Sound(v, inst.uid, x)
<1>. DEFINE b == Own(inst, 0)
<1>1. ASSUME NEW y, Sound(v, inst.uid, y), NEW z \in Ensured(v, y, "external", b)
      PROVE  Sound(v, inst.uid, z)
  <2>1. b \in Object /\ b # NoObject /\ b.owner = inst.uid
    BY OwnObject
  <2>. HIDE DEF b
  <2>2. "external" \in Kinds /\ "credentials" \in Kinds \ {"external"}
    BY DEF Kinds
  <2>3. /\ z \in Tries /\ Grown(y.objs, z.objs, inst.uid)
        /\ \A j \in Kinds \ {"external"} : z.objs[j] = y.objs[j]
        /\ z.routed <=> y.routed
        /\ y.failed => z.failed
    BY <1>1, <2>1, <2>2, EnsuredFacts DEF Sound
  <2>. QED
    BY <1>1, <2>2, <2>3, SoundGrows
<1>2. CASE x = u
  BY <1>2
<1>3. CASE x \in Ensured(v, u, "external", b)
  BY <1>1, <1>3
<1>4. CASE \E y \in Ensured(v, u, "external", b) : x \in Ensured(v, y, "external", b)
  BY <1>1, <1>4
<1>. HIDE DEF b
<1>. QED
  BY <1>2, <1>3, <1>4 DEF ExternalTries, b

\* a route that has been tried and waited for
LEMMA RouteTried ==
    ASSUME NEW inst \in Stored, NEW v \in VDBs, NEW u, Sound(v, inst.uid, u),
           NEW x \in RouteTries(inst, v, u)
    PROVE  Sound(v, inst.uid, x)
<1>. DEFINE new == Created(u.objs, "route", Own(inst, 0))
            made == IF Seen(v, "route") THEN u.objs ELSE new
<1>1. u \in Tries /\ u.objs \in Holdings /\ u.faults + 1 \in Nat
  BY DEF Sound, Tries
<1>2. Grown(u.objs, new, inst.uid) /\ new["credentials"] = u.objs["credentials"]
  BY <1>1, CreatedGrows DEF Kinds
<1>. HIDE DEF new
<1>3. Grown(u.objs, u.objs, inst.uid)
  BY <1>1 DEF Grown
<1>4. /\ Grown(u.objs, made, inst.uid) /\ made["credentials"] = u.objs["credentials"]
      /\ made \in Holdings
  BY <1>2, <1>3 DEF Grown
<1>. HIDE DEF made
<1>5. \/ x = u
      \/ /\ x = [u EXCEPT !.objs = made, !.routed = TRUE]
         /\ made["route"] # NoObject \/ Seen(v, "route")
      \/ \E o \in {u.objs, made} :
            x = [u EXCEPT !.objs = o, !.failed = TRUE, !.faults = @ + 1]
  BY DEF RouteTries, made, new
<1>6. CASE x = u
  BY <1>6
<1>7. CASE /\ x = [u EXCEPT !.objs = made, !.routed = TRUE]
           /\ made["route"] # NoObject \/ Seen(v, "route")
  <2>1. TRUE \in BOOLEAN
    BY Zenon
  <2>2. x \in Tries /\ x.objs = made /\ x.failed = u.failed
    BY <1>1, <1>4, <1>7, <2>1, TryRouted, Zenon
  <2>3. u.failed => x.failed
    BY <2>2, Zenon
  <2>. QED
    BY <1>4, <1>7, <2>2, <2>3, SoundGrows
<1>8. ASSUME NEW o \in {u.objs, made},
             x = [u EXCEPT !.objs = o, !.failed = TRUE, !.faults = @ + 1]
      PROVE  Sound(v, inst.uid, x)
  <2>1. TRUE \in BOOLEAN /\ o \in Holdings
    BY <1>1, <1>4, Zenon
  <2>2. x = [u EXCEPT !.objs = o, !.failed = TRUE, !.faults = u.faults + 1]
    BY <1>8
  <2>3. x \in Tries /\ x.objs = o /\ x.failed = TRUE /\ x.routed = u.routed
    <3>1. \A f \in BOOLEAN :
             LET z == [u EXCEPT !.objs = o, !.failed = f, !.faults = u.faults + 1]
             IN  /\ z \in Tries /\ z.objs = o /\ z.failed = f
                 /\ z.routed = u.routed
      BY <1>1, <2>1 DEF Tries
    <3>. QED
      BY <2>1, <2>2, <3>1, Zenon
  <2>4. x.failed /\ (x.routed => u.routed)
    BY <2>3, Zenon
  <2>5. Grown(u.objs, o, inst.uid) /\ o["credentials"] = u.objs["credentials"]
    BY <1>3, <1>4
  <2>. QED
    BY <2>3, <2>4, <2>5, SoundGrows
<1>. QED
  BY <1>5, <1>6, <1>7, <1>8

\* whatever CreateService has come to
LEMMA ServicesTried ==
    ASSUME NEW inst \in Stored, NEW v \in VDBs, objs[v] \in Holdings,
           NEW x \in CreateServiceTries(inst, v)
    PROVE  Sound(v, inst.uid, x)
<1>1. ASSUME NEW u \in ExposeTries(inst, v)
      PROVE  Sound(v, inst.uid, u)
  <2>1. CASE u \in ServiceTries(inst, v)
    BY <2>1, ServiceTried
  <2>2. CASE \E w \in ServiceTries(inst, v) : \E y \in ExternalTries(inst, v, w) :
                u \in RouteTries(inst, v, y)
    BY <2>2, ServiceTried, ExternalTried, RouteTried
  <2>. QED
    BY <2>1, <2>2, Zenon DEF ExposeTries
<1>2. CASE x = Try(objs[v]) /\ Seen(v, "service")
  <2>1. x \in Tries /\ x.objs = objs[v] /\ ~x.routed
    BY <1>2, TryStart
  <2>2. Grown(objs[v], objs[v], inst.uid)
    BY DEF Grown
  <2>. QED
    BY <1>2, <2>1, <2>2 DEF Sound
<1>3. ASSUME NEW u \in ExposeTries(inst, v), x = [u EXCEPT !.faults = @ + 1]
      PROVE  Sound(v, inst.uid, x)
  <2>1. Sound(v, inst.uid, u)
    BY <1>1
  <2>2. u \in Tries /\ u.faults + 1 \in Nat
    BY <2>1 DEF Sound, Tries
  <2>3. /\ x \in Tries /\ x.objs = u.objs /\ x.failed = u.failed
        /\ x.routed = u.routed
    BY <1>3, <2>2, TryCounted
  <2>. QED
    BY <2>1, <2>3 DEF Sound
<1>4. \/ x = Try(objs[v]) /\ Seen(v, "service")
      \/ \E u \in ExposeTries(inst, v) : x = u \/ x = [u EXCEPT !.faults = @ + 1]
  BY DEF CreateServiceTries
<1>. QED
  BY <1>1, <1>2, <1>3, <1>4

-----------------------------------------------------------------------------
(* Owners.                                                                  *)

\* the owner of every object of v is no younger than its youngest copy
OwnersAged == \A v \in VDBs : \A k \in Kinds :
                 objs[v][k] # NoObject => objs[v][k].owner <= Youngest(v)

-----------------------------------------------------------------------------
(* How the objects of a name change in one step.                            *)

\* what the steps below rest on
BasicInv == RefInv /\ BuilderInv /\ IspnOK /\ CopiesAged /\ OwnedTypeOK /\ OwnersAged

\* objects are added, which belong to a resource no younger than the last,
Grows(w) ==
    /\ \A k \in Kinds :
          \/ objs'[w][k] = objs[w][k]
          \/ /\ objs[w][k] = NoObject /\ objs'[w][k] # NoObject
             /\ objs'[w][k].owner <= Youngest(w)
    /\ Paired(objs[w], objs'[w])

\* or the garbage collector takes one
Collected(w) ==
    /\ UNCHANGED vars
    /\ \E k \in Kinds :
          /\ objs[w][k] # NoObject /\ objs[w][k].owner # NoOwner
          /\ ~OwnerThere(w, k)
          /\ objs'[w] = [objs[w] EXCEPT ![k] = NoObject]

ObjsChange == /\ objs' \in [VDBs -> Holdings]
              /\ \A w \in VDBs : Grows(w) \/ Collected(w)

\* nothing changes
LEMMA ObjsSame == ASSUME BasicInv, objs' = objs PROVE ObjsChange
BY DEF BasicInv, OwnedTypeOK, ObjsChange, Holdings, Grows, Paired

\* the worker leaves what has grown for its copy
LEMMA LeftGrows ==
    ASSUME BasicInv, worker.pc = "handle", NEW o,
           Grown(objs[worker.key], o, worker.inst.uid), Paired(objs[worker.key], o),
           Left(worker.key, o)
    PROVE  ObjsChange /\ objs'[worker.key] = o
<1>. DEFINE v == worker.key
            u == worker.inst.uid
<1>1. TypeOK /\ v \in VDBs
  BY WorkerBusy DEF BasicInv, RefInv, TypeInv
<1>2. u \in 1..Youngest(v) /\ Youngest(v) \in Nat
  <2>1. u \in 1..Youngest(v)
    BY <1>1 DEF BasicInv, CopiesAged, Known, Aged
  <2>2. Youngest(v) \in Nat
    BY <1>1 DEF Youngest, TypeOK, Stored
  <2>. QED
    BY <2>1, <2>2
<1>3. objs \in [VDBs -> Holdings] /\ objs' = [objs EXCEPT ![v] = o] /\ o \in Holdings
  BY DEF BasicInv, OwnedTypeOK, Holdings, Left, Grown
<1>. HIDE DEF v, u
<1>4. /\ objs' \in [VDBs -> Holdings] /\ objs'[v] = o
      /\ \A w \in VDBs \ {v} : objs'[w] = objs[w]
  BY <1>1, <1>3
<1>5. Grows(v)
  <2>1. \A k \in Kinds : \/ o[k] = objs[v][k]
                         \/ objs[v][k] = NoObject /\ o[k] # NoObject /\ o[k].owner = u
    BY DEF Grown, v, u
  <2>2. Paired(objs[v], o)
    BY DEF v
  <2>. QED
    BY <1>2, <1>4, <2>1, <2>2 DEF Grows
<1>6. \A w \in VDBs \ {v} : Grows(w)
  BY <1>4 DEF Grows, Paired
<1>. QED
  BY <1>4, <1>5, <1>6 DEF ObjsChange, v

\* what the worker at a handler holds
LEMMA WorkerHolds ==
    ASSUME BasicInv, NEW a, AtStep(a)
    PROVE  /\ worker.pc = "handle" /\ worker.key \in VDBs /\ worker.inst \in Stored
           /\ worker.inst.obj \in Vdb
           /\ objs[worker.key] \in Holdings
<1>1. worker.pc = "handle" /\ TypeOK /\ OwnedTypeOK
  BY DEF AtStep, BasicInv, RefInv, TypeInv
<1>2. worker.key \in VDBs /\ worker.inst \in Stored /\ worker.inst.obj \in Vdb
  BY <1>1, WorkerBusy
<1>. QED
  BY <1>1, <1>2 DEF OwnedTypeOK, Holdings

\* the CacheStore handler, or a crash in it, leaves a part of a cache store
LEMMA CacheStoreObjs ==
    ASSUME BasicInv, RunCacheStore \/ CrashInCacheStore
    PROVE  ObjsChange
<1>. DEFINE v == worker.key
            inst == worker.inst
<1>1. worker.pc = "handle" /\ v \in VDBs /\ inst \in Stored /\ objs[v] \in Holdings
  BY WorkerHolds DEF RunCacheStore, CrashInCacheStore
<1>2. ASSUME RunCacheStore PROVE ObjsChange
  <2>1. PICK r \in CacheStoreRuns(inst, v) : Left(v, r.objs)
    BY <1>2 DEF RunCacheStore
  <2>2. Grown(objs[v], r.objs, inst.uid) /\ Paired(objs[v], r.objs)
    BY <1>1, CacheStoreRunFacts
  <2>. QED
    BY <1>1, <2>1, <2>2, LeftGrows
<1>3. ASSUME CrashInCacheStore PROVE ObjsChange
  <2>1. PICK i \in 1..Len(NewCacheStore(inst, objs[v])) :
           Left(v, NewCacheStore(inst, objs[v])[i])
    BY <1>3 DEF CrashInCacheStore
  <2>. DEFINE o == NewCacheStore(inst, objs[v])[i]
  <2>2. Grown(objs[v], o, inst.uid) /\ Paired(objs[v], o)
    BY <1>1, NewStoreSteps
  <2>. HIDE DEF o
  <2>. QED
    BY <1>1, <2>1, <2>2, LeftGrows DEF o
<1>. QED
  BY <1>2, <1>3

\* the objects of CreateService
LEMMA CreationKinds ==
    ASSUME NEW s, NEW i \in 1..Len(CreationOrder(s))
    PROVE  CreationOrder(s)[i] \in {"service", "external", "route"}
<1>. DEFINE K == {"service", "external", "route"}
            a == IF Externals(s) = {} THEN <<>> ELSE <<"external">>
            b == IF WantsRoute(s) THEN <<"route">> ELSE <<>>
<1>1. <<"service">> \in Seq(K) /\ a \in Seq(K) /\ b \in Seq(K)
  <2>1. "service" \in K /\ "external" \in K /\ "route" \in K
    OBVIOUS
  <2>. HIDE DEF K
  <2>2. /\ <<>> \in Seq(K) /\ <<"service">> \in Seq(K)
        /\ <<"external">> \in Seq(K) /\ <<"route">> \in Seq(K)
    BY <2>1
  <2>. QED
    BY <2>2
<1>2. CreationOrder(s) = <<"service">> \o a \o b
  BY DEF CreationOrder
<1>. HIDE DEF K, a, b
<1>3. <<"service">> \o a \o b \in Seq(K)
  BY <1>1
<1>. QED
  BY <1>2, <1>3, ElementOfSeq DEF K

\* the CreateService handler, or a crash in it, leaves some of its objects
LEMMA CreateServiceObjs ==
    ASSUME BasicInv, CreateService \/ CrashInCreateService
    PROVE  ObjsChange
<1>. DEFINE v == worker.key
            inst == worker.inst
<1>1. worker.pc = "handle" /\ v \in VDBs /\ inst \in Stored /\ objs[v] \in Holdings
  BY WorkerHolds DEF CreateService, CrashInCreateService
<1>2. ASSUME CreateService PROVE ObjsChange
  <2>1. PICK try \in CreateServiceTries(inst, v) : Left(v, try.objs)
    BY <1>2 DEF CreateService
  <2>2. Grown(objs[v], try.objs, inst.uid) /\ Paired(objs[v], try.objs)
    BY <1>1, ServicesTried DEF Sound, Paired
  <2>. QED
    BY <1>1, <2>1, <2>2, LeftGrows
<1>3. ASSUME CrashInCreateService PROVE ObjsChange
  <2>. DEFINE order == CreationOrder(inst.obj.spec)
              New(n, k) == \E i \in 1..n : order[i] = k
              After(n, ask) ==
                  [k \in Kinds |-> IF New(n, k) /\ objs[v][k] = NoObject
                                   THEN Own(inst, IF k = "service" THEN ask ELSE 0)
                                   ELSE objs[v][k]]
  <2>1. PICK n \in 1..Len(order), a \in {b \in Asking(v) : b.faults = 0} :
           Left(v, After(n, a.ask))
    BY <1>3 DEF CrashInCreateService
  <2>2. a.ask \in Nat
    BY DEF Asking
  <2>3. ~New(n, "credentials")
    <3>1. ASSUME NEW i \in 1..n PROVE order[i] # "credentials"
      <4>1. Len(order) \in Nat /\ i \in 1..Len(order)
        OBVIOUS
      <4>. QED
        BY <4>1, CreationKinds
    <3>. QED
      BY <3>1
  <2>. DEFINE o == After(n, a.ask)
  <2>. HIDE DEF New
  <2>4. ASSUME NEW k \in Kinds
        PROVE  \/ o[k] = objs[v][k]
               \/ /\ objs[v][k] = NoObject /\ o[k] \in Object
                  /\ o[k] # NoObject /\ o[k].owner = inst.uid
    <3>. DEFINE x == IF k = "service" THEN a.ask ELSE 0
    <3>1. o[k] = IF New(n, k) /\ objs[v][k] = NoObject THEN Own(inst, x)
                 ELSE objs[v][k]
      OBVIOUS
    <3>2. x \in Nat
      BY <2>2
    <3>. HIDE DEF x, o
    <3>. QED
      BY <1>1, <3>1, <3>2, OwnObject
  <2>5. o \in Holdings
    <3>1. o = [k \in Kinds |-> o[k]]
      OBVIOUS
    <3>. HIDE DEF o
    <3>. QED
      BY <1>1, <2>4, <3>1 DEF Holdings
  <2>6. o["credentials"] = objs[v]["credentials"]
    BY <2>3 DEF Kinds
  <2>7. Left(v, o)
    BY <2>1
  <2>. HIDE DEF o
  <2>8. Grown(objs[v], o, inst.uid) /\ Paired(objs[v], o)
    BY <2>4, <2>5, <2>6 DEF Grown, Paired
  <2>. QED
    BY <1>1, <2>7, <2>8, LeftGrows
<1>. QED
  BY <1>2, <1>3

\* the other two handlers create one object each
LEMMA OneObject ==
    ASSUME BasicInv, CreateCertificate \/ PrometheusMonitor
    PROVE  ObjsChange
<1>. DEFINE v == worker.key
            inst == worker.inst
            o == objs[v]
<1>1. worker.pc = "handle" /\ v \in VDBs /\ inst \in Stored /\ o \in Holdings
  BY WorkerHolds DEF CreateCertificate, PrometheusMonitor
<1>2. Left(v, o) \/ \E k \in {"keystore", "monitor"} : Left(v, Created(o, k, Own(inst, 0)))
  BY DEF CreateCertificate, PrometheusMonitor
<1>3. Grown(o, o, inst.uid) /\ Paired(o, o)
  BY <1>1 DEF Grown, Paired
<1>4. ASSUME NEW k \in {"keystore", "monitor"}
      PROVE  /\ Grown(o, Created(o, k, Own(inst, 0)), inst.uid)
             /\ Paired(o, Created(o, k, Own(inst, 0)))
  <2>1. k \in Kinds /\ "credentials" \in Kinds \ {k}
    BY DEF Kinds
  <2>. QED
    BY <1>1, <2>1, CreatedGrows DEF Paired
<1>. QED
  BY <1>1, <1>2, <1>3, <1>4, LeftGrows

\* the garbage collector takes an object of nobody, the service CA issues one
LEMMA ClusterObjs ==
    ASSUME BasicInv, NEW v \in VDBs,
           (\E k \in Kinds : Collect(v, k)) \/ IssueCertificate(v)
    PROVE  ObjsChange
<1>1. objs \in [VDBs -> Holdings]
  BY DEF BasicInv, OwnedTypeOK, Holdings
<1>2. ASSUME NEW k \in Kinds, Collect(v, k) PROVE ObjsChange
  <2>. DEFINE o == [objs[v] EXCEPT ![k] = NoObject]
  <2>1. o \in Holdings
    BY <1>1 DEF Holdings
  <2>2. objs' = [objs EXCEPT ![v] = o]
    BY <1>1, <1>2 DEF Collect, Holdings
  <2>. HIDE DEF o
  <2>3. /\ objs' \in [VDBs -> Holdings] /\ objs'[v] = o
        /\ \A w \in VDBs \ {v} : objs'[w] = objs[w]
    BY <1>1, <2>1, <2>2
  <2>4. Collected(v)
    BY <1>2, <2>3 DEF Collect, Collected, o
  <2>5. \A w \in VDBs \ {v} : Grows(w)
    BY <2>3 DEF Grows, Paired
  <2>. QED
    BY <2>3, <2>4, <2>5 DEF ObjsChange
<1>3. ASSUME IssueCertificate(v) PROVE ObjsChange
  <2>. DEFINE s == objs[v]["service"]
              c == [owner |-> s.owner, value |-> 0]
              o == [objs[v] EXCEPT !["certificates"] = c]
  <2>1. /\ s # NoObject /\ objs[v]["certificates"] = NoObject
        /\ "service" \in Kinds /\ "certificates" \in Kinds /\ "credentials" \in Kinds
    BY <1>3 DEF IssueCertificate, Kinds
  <2>2. s \in Object /\ s.owner <= Youngest(v)
    BY <1>1, <2>1 DEF Holdings, BasicInv, OwnersAged
  <2>3. c \in Object /\ c # NoObject /\ c.owner = s.owner
    BY <2>2, OwnedAssumption DEF Object
  <2>4. objs' = [objs EXCEPT ![v] = o]
    BY <1>1, <1>3 DEF IssueCertificate, Holdings
  <2>. HIDE DEF c, s
  <2>5. o \in Holdings
    BY <1>1, <2>3 DEF Holdings
  <2>6. /\ o["certificates"] = c
        /\ \A j \in Kinds \ {"certificates"} : o[j] = objs[v][j]
    BY <1>1, <2>1 DEF Holdings
  <2>. HIDE DEF o
  <2>7. /\ objs' \in [VDBs -> Holdings] /\ objs'[v] = o
        /\ \A w \in VDBs \ {v} : objs'[w] = objs[w]
    BY <1>1, <2>4, <2>5
  <2>8. o["credentials"] = objs[v]["credentials"]
    BY <2>1, <2>6
  <2>9. Grows(v)
    BY <2>1, <2>2, <2>3, <2>6, <2>7, <2>8 DEF Grows, Paired
  <2>10. \A w \in VDBs \ {v} : Grows(w)
    BY <2>7 DEF Grows, Paired
  <2>. QED
    BY <2>7, <2>9, <2>10 DEF ObjsChange
<1>. QED
  BY <1>2, <1>3

\* nobody else touches the objects
LEMMA ObjsStep ==
    ASSUME BasicInv, [PNext]_pVars
    PROVE  ObjsChange
<1>1. CASE UNCHANGED objs
  BY <1>1, ObjsSame
<1>2. CASE UNCHANGED pVars \/ PLoop
  BY <1>1, <1>2 DEF pVars, provVars, ownedVars, PLoop, OwnedLoop
<1>3. CASE PHandle
  BY <1>1, <1>3, CacheStoreObjs, CreateServiceObjs, OneObject
     DEF PHandle, provVars, ownedVars
<1>4. CASE PCrash
  BY <1>1, <1>4, CacheStoreObjs, CreateServiceObjs DEF PCrash
<1>5. CASE Cluster
  BY <1>1, <1>5, ClusterObjs DEF Cluster, ownedVars, InstallInfinispan, CatchUp
<1>. QED
  BY <1>2, <1>3, <1>4, <1>5 DEF PNext

\* The cache shows what it showed, or what there is before or after the step.
SeenChange ==
    /\ seen' \in [VDBs -> [Lagging -> Object \cup {NoObject}]]
    /\ \A w \in VDBs : \A k \in Lagging :
          seen'[w][k] \in {seen[w][k], objs[w][k], objs'[w][k]}

\* the lagging kinds are kinds
LEMMA LaggingKinds == Lagging \subseteq Kinds
BY OwnedAssumption DEF Kinds

\* nothing else comes into the cache
LEMMA SeenStep ==
    ASSUME BasicInv, [PNext]_pVars
    PROVE  SeenChange
<1>1. /\ seen \in [VDBs -> [Lagging -> Object \cup {NoObject}]]
      /\ objs \in [VDBs -> Holdings]
  BY DEF BasicInv, OwnedTypeOK, Holdings
<1>2. objs' \in [VDBs -> Holdings]
  BY ObjsStep DEF ObjsChange
<1>3. CASE UNCHANGED seen
  BY <1>1, <1>3 DEF SeenChange
<1>4. CASE Relisted
  BY <1>2, <1>4, LaggingKinds DEF SeenChange, Relisted, Holdings
<1>5. ASSUME NEW v \in VDBs, NEW k \in Lagging, NEW x \in {objs[v][k], objs'[v][k]},
             seen' = [seen EXCEPT ![v][k] = x]
      PROVE  SeenChange
  <2>1. x \in Object \cup {NoObject}
    BY <1>1, <1>2, LaggingKinds DEF Holdings
  <2>. HIDE DEF SeenChange
  <2>2. seen' \in [VDBs -> [Lagging -> Object \cup {NoObject}]]
    BY <1>1, <1>5, <2>1
  <2>3. \A w \in VDBs : \A j \in Lagging :
           seen'[w][j] = IF w = v /\ j = k THEN x ELSE seen[w][j]
    BY <1>1, <1>5
  <2>. QED
    BY <2>2, <2>3 DEF SeenChange
<1>6. CASE UNCHANGED pVars \/ PLoop
  BY <1>3, <1>4, <1>6 DEF pVars, provVars, ownedVars, PLoop, OwnedLoop
<1>7. CASE PHandle
  <2>1. CASE CreateService
    <3>. DEFINE v == worker.key
    <3>1. worker.pc = "handle" /\ v \in VDBs /\ worker.inst \in Stored
          /\ objs[v] \in Holdings
      BY <2>1, WorkerHolds DEF CreateService
    <3>2. PICK try \in CreateServiceTries(worker.inst, v) :
             Left(v, try.objs) /\ RouteSeen(v, try)
      BY <2>1 DEF CreateService
    <3>3. objs'[v] = try.objs
      BY <1>1, <3>1, <3>2 DEF Left
    <3>4. \/ UNCHANGED seen
          \/ "route" \in Lagging /\ seen' = [seen EXCEPT ![v]["route"] = try.objs["route"]]
      BY <3>2 DEF RouteSeen
    <3>. QED
      BY <1>3, <1>5, <3>1, <3>3, <3>4
  <2>2. CASE UNCHANGED seen
    BY <1>3, <2>2
  <2>. QED
    BY <1>7, <2>1, <2>2 DEF PHandle, provVars, ownedVars, RunCacheStore,
       CreateCertificate, PrometheusMonitor
<1>8. CASE PCrash
  BY <1>4, <1>8 DEF PCrash, CrashInCacheStore, CrashInCreateService
<1>9. CASE Cluster
  <2>1. ASSUME NEW v \in VDBs, NEW k \in Lagging, CatchUp(v, k) PROVE SeenChange
    BY <1>5, <2>1 DEF CatchUp
  <2>. QED
    BY <1>3, <1>9, <2>1 DEF Cluster, ownedVars, InstallInfinispan, Collect,
       IssueCertificate
<1>. QED
  BY <1>6, <1>7, <1>8, <1>9 DEF PNext

\* the faults are counted up to their bound
LEMMA FaultStep ==
    ASSUME BasicInv, [PNext]_pVars
    PROVE  ownedFaults' \in 0..MaxOwnedFaults
<1>1. ownedFaults \in 0..MaxOwnedFaults /\ MaxOwnedFaults \in Nat
  BY OwnedAssumption DEF BasicInv, OwnedTypeOK
<1>2. ASSUME NEW n \in Nat, Faulty(n) PROVE ownedFaults' \in 0..MaxOwnedFaults
  BY <1>1, <1>2 DEF Faulty
<1>3. CASE UNCHANGED ownedFaults
  BY <1>1, <1>3
<1>4. CASE RunCacheStore
  <2>1. PICK r \in CacheStoreRuns(worker.inst, worker.key) : Faulty(r.faults)
    BY <1>4 DEF RunCacheStore
  <2>2. r.faults \in Nat
    BY <1>4, WorkerHolds, CacheStoreRunFacts DEF RunCacheStore
  <2>. QED
    BY <1>2, <2>1, <2>2
<1>5. CASE CreateService
  <2>1. PICK try \in CreateServiceTries(worker.inst, worker.key) : Faulty(try.faults)
    BY <1>5 DEF CreateService
  <2>2. try.faults \in Nat
    BY <1>5, WorkerHolds, ServicesTried DEF CreateService, Sound, Tries
  <2>. QED
    BY <1>2, <2>1, <2>2
<1>6. CASE CreateCertificate \/ PrometheusMonitor
  <2>1. \E n \in {0, 1} : Faulty(n)
    BY <1>6 DEF CreateCertificate, PrometheusMonitor
  <2>. QED
    BY <1>2, <2>1
<1>. QED
  BY <1>3, <1>4, <1>5, <1>6 DEF PNext, pVars, provVars, ownedVars, PLoop, OwnedLoop,
     PHandle, PCrash, Cluster, CrashInCacheStore, CrashInCreateService,
     InstallInfinispan, CatchUp, Collect, IssueCertificate

\* nothing belongs to a resource that is still to come
LEMMA OwnerNotNew ==
    ASSUME BasicInv, [PNext]_pVars, NEW w \in VDBs, NEW k \in Kinds,
           objs'[w][k] # NoObject
    PROVE  objs'[w][k].owner <= Youngest(w)
<1>1. /\ objs[w] \in Holdings /\ objs'[w] \in Holdings
      /\ Grows(w) \/ Collected(w)
  BY ObjsStep DEF BasicInv, OwnedTypeOK, Holdings, ObjsChange
<1>2. objs[w][k] # NoObject => objs[w][k].owner <= Youngest(w)
  BY DEF BasicInv, OwnersAged
<1>. QED
  BY <1>1, <1>2 DEF Grows, Collected, Holdings

\* what every step keeps of the objects and their owners
LEMMA BasicStep ==
    ASSUME BasicInv, [PNext]_pVars
    PROVE  BasicInv' /\ [Next]_vars
<1>1. PInv
  BY DEF BasicInv, PInv, RefInv
<1>2. [Next]_vars /\ BuilderInv' /\ IspnOK'
  BY <1>1, ProvisioningStep, ProvisioningBuilder, ProvisioningIspn DEF PInv
<1>3. RefInv' /\ CopiesAged' /\ \A v \in VDBs : Youngest(v) <= Youngest(v)'
  BY <1>2, RefStep, AgedStep DEF BasicInv
<1>4. OwnedTypeOK'
  BY ObjsStep, SeenStep, FaultStep DEF ObjsChange, SeenChange, OwnedTypeOK, Holdings
<1>5. ASSUME NEW w \in VDBs, NEW k \in Kinds, objs'[w][k] # NoObject
      PROVE  objs'[w][k].owner <= Youngest(w)'
  <2>1. objs'[w] \in Holdings
    BY ObjsStep DEF ObjsChange
  <2>2. objs'[w][k].owner <= Youngest(w)
    BY <1>5, OwnerNotNew
  <2>3. Youngest(w) \in Nat /\ Youngest(w)' \in Nat
    BY <1>3 DEF BasicInv, RefInv, TypeInv, TypeOK, Youngest, Stored
  <2>4. objs'[w][k].owner \in Nat
    BY <1>5, <2>1 DEF Holdings, Object
  <2>. QED
    BY <1>3, <2>2, <2>3, <2>4
<1>. QED
  BY <1>2, <1>3, <1>4, <1>5 DEF BasicInv, OwnersAged

\* initially there is nothing but what users have provided
LEMMA BasicStart == PInit => BasicInv
<1>. SUFFICES ASSUME PInit PROVE BasicInv
  OBVIOUS
<1>1. Init
  BY DEF PInit, OwnedInit
<1>2. RefInv
  BY <1>1, RefInit
<1>3. BuilderInv /\ IspnOK
  <2>1. <<>> \in Builds /\ Len(<<>>) = 0
    BY EmptySeq DEF Builds
  <2>. QED
    BY <2>1, BuilderAssumption DEF PInit, CacheStoreInit, BuilderInv, BuilderType,
       BuilderBuiltOnce, IspnOK
<1>4. CopiesAged
  <2>1. /\ \A v \in VDBs : /\ store[v] = NoVdb /\ cache[v] = NoVdb /\ rev[v] = 0
                           /\ Len(watch[v]) = 0
        /\ worker.pc = "idle"
    BY <1>1 DEF Init, Idle
  <2>2. \A v \in VDBs : Youngest(v) <= rev[v]
    BY <2>1 DEF Youngest
  <2>3. Known(Aged, store, cache, watch, worker)
    BY <2>1 DEF Known
  <2>. QED
    BY <2>2, <2>3 DEF CopiesAged
<1>5. PICK p \in UserProvides :
         objs = [v \in VDBs |-> [k \in Kinds |-> IF k \in p THEN ProvidedObject
                                                 ELSE NoObject]]
  BY DEF PInit, OwnedInit
<1>6. /\ ProvidedObject \in Object
      /\ ProvidedObject.owner = 0
  BY DEF ProvidedObject, Object, NoOwner
<1>7. \A v \in VDBs : \A k \in Kinds :
         objs[v][k] = ProvidedObject \/ objs[v][k] = NoObject
  BY <1>5
<1>8. OwnedTypeOK
  BY <1>5, <1>6, LaggingKinds, OwnedAssumption DEF PInit, OwnedInit, OwnedTypeOK
<1>9. OwnersAged
  BY <1>1, <1>6, <1>7 DEF OwnersAged, Youngest, Init
<1>. QED
  BY <1>2, <1>3, <1>4, <1>8, <1>9 DEF BasicInv

\* The objects of every VirtualDatabase, the operator's view of them and the
\* count of failed calls keep their types, with creations, collections,
\* restarts and a cache that catches up one kind at a time.
THEOREM OwnedObjectsTyped == PSpec => []OwnedTypeOK
<1>1. BasicInv /\ [PNext]_pVars => BasicInv'
  BY BasicStep
<1>2. BasicInv => OwnedTypeOK
  BY DEF BasicInv
<1>. QED
  BY <1>1, <1>2, BasicStart, PTL DEF PSpec

-----------------------------------------------------------------------------
(* What stays of the objects while their owner is there.                    *)

\* a resource whose uid was known before the step was there before it
LEMMA NotNew ==
    ASSUME BasicInv, [PNext]_pVars, NEW w \in VDBs, store'[w] # NoVdb,
           store'[w].uid <= Youngest(w)
    PROVE  store[w] # NoVdb /\ store'[w].uid = store[w].uid
<1>1. RefInv /\ [Next]_vars
  BY BasicStep DEF BasicInv
<1>2. Youngest(w) <= rev[w] /\ rev[w] \in Nat /\ Youngest(w) \in Nat
  BY DEF BasicInv, CopiesAged, RefInv, TypeInv, TypeOK, Youngest, Stored
<1>3. ~IsNew(w)
  BY <1>2 DEF IsNew
<1>. QED
  BY <1>1, <1>3, ObjectStep DEF Respecified, Redeployed, WrittenBack, Rewritten

\* an object whose owner is there is not touched
LEMMA LivingKept ==
    ASSUME BasicInv, [PNext]_pVars, NEW w \in VDBs,
           NEW k \in Kinds \ {"certificates"},
           store[w] # NoVdb, objs[w][k] # NoObject, objs[w][k].owner = store[w].uid
    PROVE  objs'[w][k] = objs[w][k]
<1>1. objs[w] \in Holdings /\ (Grows(w) \/ Collected(w))
  BY ObjsStep DEF BasicInv, OwnedTypeOK, Holdings, ObjsChange
<1>2. CASE Grows(w)
  BY <1>2 DEF Grows
<1>3. CASE Collected(w)
  <2>1. PICK j \in Kinds : /\ ~OwnerThere(w, j)
                           /\ objs'[w] = [objs[w] EXCEPT ![j] = NoObject]
    BY <1>3 DEF Collected
  <2>2. OwnerThere(w, k)
    BY DEF OwnerThere
  <2>. QED
    BY <1>1, <2>1, <2>2 DEF Holdings
<1>. QED
  BY <1>1, <1>2, <1>3

\* v has never been deleted
Early(v) == rev[v] = 0 \/ FirstOfItsName(v)

\* it has not been deleted before either
LEMMA EarlyBefore ==
    ASSUME BasicInv, [PNext]_pVars, NEW w \in VDBs, Early(w)'
    PROVE  Early(w)
<1>1. RefInv /\ [Next]_vars
  BY BasicStep DEF BasicInv
<1>2. rev[w] \in Nat
  BY <1>1 DEF RefInv, TypeInv, TypeOK
<1>3. CASE store'[w] = store[w] /\ rev'[w] = rev[w]
  BY <1>3 DEF Early, FirstOfItsName
<1>4. CASE rev'[w] = rev[w] + 1
  <2>1. store'[w] # NoVdb /\ store'[w].uid = 1
    BY <1>2, <1>4 DEF Early, FirstOfItsName
  <2>2. IsNew(w) \/ Rewritten(w)
    BY <1>1, <1>2, <1>4, <2>1, ObjectStep DEF Respecified, Redeployed, WrittenBack
  <2>. QED
    BY <1>2, <2>1, <2>2 DEF IsNew, Rewritten, Early, FirstOfItsName
<1>. QED
  BY <1>1, <1>3, <1>4, ObjectStep

\* until then its service, route and keystore stay
LEMMA EarlyKept ==
    ASSUME BasicInv, [PNext]_pVars, NEW w \in VDBs, NEW k \in {"service", "route", "keystore"},
           Early(w), objs[w][k] # NoObject
    PROVE  objs'[w][k] # NoObject
<1>1. /\ objs[w] \in Holdings /\ (Grows(w) \/ Collected(w))
      /\ k \in Kinds /\ k # "certificates"
  BY ObjsStep DEF BasicInv, OwnedTypeOK, Holdings, ObjsChange, Kinds
<1>2. CASE Grows(w)
  BY <1>1, <1>2 DEF Grows
<1>3. CASE Collected(w)
  <2>1. PICK j \in Kinds : /\ objs[w][j].owner # NoOwner /\ ~OwnerThere(w, j)
                           /\ objs'[w] = [objs[w] EXCEPT ![j] = NoObject]
    BY <1>3 DEF Collected
  <2>2. ASSUME j = k PROVE FALSE
    <3>1. objs[w][k].owner \in Nat \ {0} /\ objs[w][k].owner <= Youngest(w)
      BY <1>1, <2>1, <2>2 DEF Holdings, Object, NoOwner, BasicInv, OwnersAged
    <3>2. Youngest(w) <= rev[w]
      BY DEF BasicInv, CopiesAged
    <3>3. ~(store[w] # NoVdb /\ store[w].uid = objs[w][k].owner)
      BY <1>1, <2>1, <2>2 DEF OwnerThere
    <3>4. rev[w] \in Nat /\ Youngest(w) \in Nat
      BY DEF BasicInv, RefInv, TypeInv, TypeOK, Youngest, Stored
    <3>5. FirstOfItsName(w)
      BY <3>1, <3>2, <3>4 DEF Early
    <3>6. store[w] # NoVdb /\ store[w].uid = 1 /\ Youngest(w) = 1
      BY <3>5 DEF FirstOfItsName, Youngest
    <3>. QED
      BY <3>1, <3>3, <3>6
  <2>. QED
    BY <1>1, <2>1, <2>2 DEF Holdings
<1>. QED
  BY <1>1, <1>2, <1>3

-----------------------------------------------------------------------------
(* What the worker is about to write.                                       *)

\* the step of a handler leaves the store alone and ends in its result
LEMMA HandlesOne ==
    ASSUME PHandle
    PROVE  worker.pc = "handle" /\ \E o : Handled(o)
<1>1. CASE HandlersLeft
  BY <1>1 DEF HandlersLeft, HandleInitialize, HandleServiceImage, HandleDeployment, AtStep
<1>2. CASE RunCacheStore
  BY <1>2 DEF RunCacheStore, AtStep
<1>3. CASE BuildBuilderImage \/ MonitorBuilderImage
  BY <1>3 DEF BuildBuilderImage, MonitorBuilderImage, AtStep
<1>4. CASE CreateService
  BY <1>4 DEF CreateService, AtStep
<1>5. CASE CreateCertificate \/ PrometheusMonitor
  BY <1>5 DEF CreateCertificate, PrometheusMonitor, AtStep
<1>. QED
  BY <1>1, <1>2, <1>3, <1>4, <1>5 DEF PHandle

\* a target is a redeployment or is what a handler has made of the same copy
LEMMA TargetOrigin ==
    ASSUME BasicInv, [PNext]_pVars, worker'.pc = "update"
    PROVE  /\ worker'.inst.obj \in Vdb
           /\ \/ worker' = worker
              \/ worker'.target = RedeployVdb(worker'.inst.obj)
              \/ /\ PHandle /\ worker.pc = "handle" /\ UNCHANGED <<store, rev>>
                 /\ worker'.key = worker.key /\ worker'.inst = worker.inst
                 /\ Advanced(worker'.inst.obj, worker'.target)
<1>1. RefInv' /\ TypeOK
  BY BasicStep DEF BasicInv, RefInv, TypeInv
<1>2. worker'.inst.obj \in Vdb
  BY <1>1 DEF RefInv, TypeInv, TypeOK, Busy, Stored, Idle
<1>3. worker' # Idle
  BY DEF Idle
<1>4. \/ worker'.target = RedeployVdb(worker'.inst.obj)
      \/ Advanced(worker'.inst.obj, worker'.target)
  BY <1>1 DEF RefInv, WorkerOK
<1>5. CASE PLoop
  BY <1>2, <1>3, <1>5, LoopWorker DEF PLoop, OwnedLoop
<1>6. CASE PHandle
  <2>1. PICK o : worker.pc = "handle" /\ Handled(o)
    BY <1>6, HandlesOne
  <2>2. UNCHANGED <<store, rev>> /\ worker'.key = worker.key /\ worker'.inst = worker.inst
    BY <1>1, <1>3, <2>1, HandledWorker
  <2>. QED
    BY <1>2, <1>4, <1>6, <2>1, <2>2
<1>7. CASE PCrash
  BY <1>3, <1>7 DEF PCrash, CrashInCacheStore, CrashInBuilder, CrashInCreateService,
     Crash, Restart
<1>8. CASE Cluster \/ UNCHANGED pVars
  BY <1>2, <1>8 DEF Cluster, BuildersMove, BuilderMoves, ImportBaseImage,
     InstallInfinispan, CatchUp, Collect, IssueCertificate, pVars, vars
<1>. QED
  BY <1>5, <1>6, <1>7, <1>8 DEF PNext

\* the copy the worker holds is of a resource that has been there
LEMMA WorkersUid ==
    ASSUME BasicInv, worker.pc # "idle"
    PROVE  /\ worker.key \in VDBs /\ worker.inst \in Stored
           /\ worker.inst.uid \in 1..Youngest(worker.key)
           /\ Youngest(worker.key) \in Nat /\ rev[worker.key] \in Nat
           /\ Youngest(worker.key) <= rev[worker.key]
<1>1. TypeOK
  BY DEF BasicInv, RefInv, TypeInv
<1>2. worker.key \in VDBs /\ worker.inst \in Stored
  BY <1>1 DEF TypeOK, Busy, Idle
<1>3. worker.inst \in Aged[worker.key]
  BY DEF BasicInv, CopiesAged, Known
<1>4. worker.inst.uid \in 1..Youngest(worker.key)
  BY <1>2, <1>3 DEF Aged
<1>. QED
  BY <1>1, <1>2, <1>4 DEF BasicInv, CopiesAged, TypeOK, Youngest, Stored

-----------------------------------------------------------------------------
(* The cache store.                                                         *)

\* A secret for the pods is never without the identity it was made with:
\* stronger than PasswordsAgree, which says nothing before both are there.
CredentialsPaired ==
    \A v \in VDBs :
        LET i == objs[v]["identity"]
            c == objs[v]["credentials"]
        IN  store[v] # NoVdb /\ c # NoObject /\ c.owner = store[v].uid =>
                i # NoObject /\ i.owner = c.owner /\ i.value = c.value

\* every step keeps the pair together
LEMMA PairedStep ==
    ASSUME BasicInv, CredentialsPaired, [PNext]_pVars
    PROVE  CredentialsPaired'
<1>. SUFFICES ASSUME NEW v \in VDBs, store'[v] # NoVdb,
                     objs'[v]["credentials"] # NoObject,
                     objs'[v]["credentials"].owner = store'[v].uid
              PROVE  /\ objs'[v]["identity"] # NoObject
                     /\ objs'[v]["identity"].owner = objs'[v]["credentials"].owner
                     /\ objs'[v]["identity"].value = objs'[v]["credentials"].value
  BY DEF CredentialsPaired
<1>1. /\ "credentials" \in Kinds \ {"certificates"}
      /\ "identity" \in Kinds \ {"certificates"}
  BY DEF Kinds
<1>2. store[v] # NoVdb /\ store'[v].uid = store[v].uid
  BY <1>1, OwnerNotNew, NotNew
<1>3. CASE objs'[v]["credentials"] = objs[v]["credentials"]
  <2>1. /\ objs[v]["identity"] # NoObject
        /\ objs[v]["identity"].owner = objs[v]["credentials"].owner
        /\ objs[v]["identity"].value = objs[v]["credentials"].value
    BY <1>2, <1>3 DEF CredentialsPaired
  <2>2. objs'[v]["identity"] = objs[v]["identity"]
    BY <1>1, <1>2, <1>3, <2>1, LivingKept
  <2>. QED
    BY <1>3, <2>1, <2>2
<1>4. CASE objs'[v]["credentials"] # objs[v]["credentials"]
  <2>1. objs[v] \in Holdings /\ (Grows(v) \/ Collected(v))
    BY ObjsStep DEF BasicInv, OwnedTypeOK, Holdings, ObjsChange
  <2>2. ~Collected(v)
    BY <1>1, <1>4, <2>1 DEF Collected, Holdings
  <2>. QED
    BY <1>4, <2>1, <2>2 DEF Grows, Paired
<1>. QED
  BY <1>3, <1>4

\* The pods of a VirtualDatabase and its Infinispan have the same password,
\* whichever call failed, whenever the operator crashed between two of the
\* creations, and whatever an earlier resource of the same name left behind:
\* owners are told apart by their uid, and the name of the identity admits one
\* password only.
THEOREM PasswordsAlwaysAgree == PSpec => []PasswordsAgree
<1>1. PInit => CredentialsPaired
  BY DEF PInit, OwnedInit, Init, CredentialsPaired
<1>2. BasicInv /\ CredentialsPaired /\ [PNext]_pVars => BasicInv' /\ CredentialsPaired'
  BY BasicStep, PairedStep
<1>3. CredentialsPaired => PasswordsAgree
  BY DEF CredentialsPaired, PasswordsAgree
<1>. QED
  BY <1>1, <1>2, <1>3, BasicStart, PTL DEF PSpec

\* A cache store the worker is about to record is there, if its resource is.
StoreToRecord ==
    /\ worker.pc = "update"
    /\ worker.target.status.cacheStore /\ ~worker.inst.obj.status.cacheStore
    /\ store[worker.key] # NoVdb /\ store[worker.key].uid = worker.inst.uid
    => Equipped(objs[worker.key], worker.inst.uid)

StoreInv == BasicInv /\ RecordedStoreExists /\ StoreToRecord

\* the cache store of a resource stays while the resource does
LEMMA EquippedKept ==
    ASSUME BasicInv, [PNext]_pVars, NEW w \in VDBs, store[w] # NoVdb,
           Equipped(objs[w], store[w].uid)
    PROVE  Equipped(objs'[w], store[w].uid)
<1>1. \A k \in {"identity", "infinispan"} : k \in Kinds \ {"certificates"}
  BY DEF Kinds
<1>. QED
  BY <1>1, LivingKept DEF Equipped

\* what RunCacheStore records
LEMMA RecordedFields ==
    ASSUME NEW t \in Vdb, NEW stored,
           InPhase(Recorded(t, stored), S2IReady).status.cacheStore
    PROVE  t.status.cacheStore \/ stored
<1>. DEFINE c == t.status.cacheStore \/ stored
            u == [t EXCEPT !.status.cacheStore = c]
<1>1. c \in BOOLEAN
  BY Zenon
<1>2. Recorded(t, stored) = u
  BY DEF Recorded, Vdb, VdbStatus
<1>. HIDE DEF c
<1>3. u \in Vdb /\ u.status.cacheStore = c
  BY <1>1, CacheStoreFields DEF Alike
<1>. HIDE DEF u
<1>4. InPhase(u, S2IReady).status.cacheStore = u.status.cacheStore
  BY <1>3, InPhaseFields DEF Phases
<1>5. c
  BY <1>2, <1>3, <1>4, Zenon
<1>. QED
  BY <1>5, Zenon DEF c

\* the worker that has created a cache store is the one to record it
LEMMA StoreReported ==
    ASSUME BasicInv, [PNext]_pVars, PHandle, worker.pc = "handle",
           worker'.pc = "update", worker.inst.obj.status.phase = CreateCacheStore,
           worker'.target.status.cacheStore, ~worker.inst.obj.status.cacheStore
    PROVE  Equipped(objs'[worker.key], worker.inst.uid)
<1>. DEFINE t == worker.inst.obj
            v == worker.key
<1>1. TypeInv /\ TypeOK
  BY DEF BasicInv, RefInv, TypeInv
<1>2. BuildSteps[worker.step] = "CacheStore"
  BY <1>1, AtItsPhase
<1>3. RunCacheStore
  BY <1>2 DEF PHandle, HandlersLeft, HandleInitialize, HandleServiceImage,
     HandleDeployment, BuildBuilderImage, MonitorBuilderImage, CreateService,
     CreateCertificate, PrometheusMonitor, AtStep
<1>4. v \in VDBs /\ worker.inst \in Stored /\ t \in Vdb /\ objs[v] \in Holdings
  BY <1>3, WorkerHolds DEF RunCacheStore
<1>5. PICK r \in CacheStoreRuns(worker.inst, v) :
         /\ Left(v, r.objs)
         /\ Handled(Return(InPhase(Recorded(t, r.stored), S2IReady)))
  BY <1>3 DEF RunCacheStore
<1>6. worker'.target = InPhase(Recorded(t, r.stored), S2IReady)
  BY <1>1, <1>5, HandledWorker, ReturnTarget DEF Idle
<1>7. r.stored
  BY <1>4, <1>6, RecordedFields
<1>8. /\ Grown(objs[v], r.objs, worker.inst.uid) /\ Paired(objs[v], r.objs)
      /\ r.stored => Equipped(r.objs, worker.inst.uid)
  BY <1>4, CacheStoreRunFacts
<1>9. objs'[v] = r.objs
  BY <1>5, <1>8, LeftGrows
<1>. QED
  BY <1>7, <1>8, <1>9

\* what the worker records next, it still has
LEMMA StoreToRecordStep ==
    ASSUME StoreInv, [PNext]_pVars
    PROVE  StoreToRecord'
<1>. USE DEF StoreInv
<1>. SUFFICES ASSUME worker'.pc = "update", worker'.target.status.cacheStore,
                     ~worker'.inst.obj.status.cacheStore,
                     store'[worker'.key] # NoVdb,
                     store'[worker'.key].uid = worker'.inst.uid
              PROVE  Equipped(objs'[worker'.key], worker'.inst.uid)
  BY DEF StoreToRecord
<1>1. CASE worker' = worker
  <2>1. worker.key \in VDBs /\ worker.inst.uid \in 1..Youngest(worker.key)
    BY <1>1, WorkersUid
  <2>2. store[worker.key] # NoVdb /\ store[worker.key].uid = worker.inst.uid
    BY <1>1, <2>1, NotNew
  <2>3. Equipped(objs[worker.key], store[worker.key].uid)
    BY <1>1, <2>2 DEF StoreToRecord
  <2>. QED
    BY <1>1, <2>1, <2>2, <2>3, EquippedKept
<1>2. CASE worker'.target = RedeployVdb(worker'.inst.obj)
  <2>1. worker'.inst.obj \in Vdb
    BY TargetOrigin
  <2>2. worker'.target.status.cacheStore = worker'.inst.obj.status.cacheStore
    BY <1>2, <2>1, RedeployFields
  <2>. QED
    BY <2>2
<1>3. CASE /\ PHandle /\ worker.pc = "handle"
           /\ worker'.key = worker.key /\ worker'.inst = worker.inst
           /\ Advanced(worker'.inst.obj, worker'.target)
  <2>1. worker'.inst.obj \in Vdb
    BY TargetOrigin
  <2>2. Kept(worker'.inst.obj, worker'.target)
    BY <1>3, <2>1, AdvancedFacts
  <2>3. worker.inst.obj.status.phase = CreateCacheStore
    BY <1>3, <2>2 DEF Kept
  <2>. QED
    BY <1>3, <2>3, StoreReported
<1>. QED
  BY <1>1, <1>2, <1>3, TargetOrigin

\* and what is recorded is there
LEMMA StoreRecordedStep ==
    ASSUME StoreInv, [PNext]_pVars
    PROVE  RecordedStoreExists'
<1>. USE DEF StoreInv
<1>. SUFFICES ASSUME NEW w \in VDBs, store'[w] # NoVdb,
                     store'[w].obj.status.cacheStore
              PROVE  Equipped(objs'[w], store'[w].uid)
  BY DEF RecordedStoreExists, Equipped
<1>1. [Next]_vars /\ RefInv
  BY BasicStep DEF BasicInv
<1>2. store[w] # NoVdb => store[w].obj \in Vdb
  BY <1>1 DEF RefInv, TypeInv, TypeOK, Stored
<1>3. store[w] # NoVdb /\ store[w].obj.status.cacheStore =>
         Equipped(objs[w], store[w].uid)
  BY DEF RecordedStoreExists, Equipped
<1>4. CASE store'[w] = store[w]
  BY <1>3, <1>4, EquippedKept
<1>5. CASE IsNew(w)
  <2>1. store'[w].obj.status.cacheStore = FALSE
    BY <1>5, NewVdbFields DEF IsNew
  <2>. QED
    BY <2>1
<1>6. CASE Respecified(w)
  BY <1>3, <1>6, EquippedKept DEF Respecified, Rewritten
<1>7. CASE Redeployed(w)
  <2>1. store'[w].obj.status.cacheStore = store[w].obj.status.cacheStore
    BY <1>2, <1>7, RedeployFields DEF Redeployed, Rewritten
  <2>. QED
    BY <1>3, <1>7, <2>1, EquippedKept DEF Redeployed, Rewritten
<1>8. CASE WrittenBack(w)
  <2>1. Equipped(objs[w], store[w].uid)
    BY <1>3, <1>8 DEF WrittenBack, Rewritten, StoreToRecord
  <2>. QED
    BY <1>8, <2>1, EquippedKept DEF WrittenBack, Rewritten
<1>. QED
  BY <1>1, <1>4, <1>5, <1>6, <1>7, <1>8, ObjectStep

\* A cache store that the status of a VirtualDatabase names is there and is its
\* own, however late the status is written: the handler records it only after
\* the API server accepted the identity and the Infinispan, a run that finds
\* those of a deleted predecessor records nothing, and a status written for a
\* deleted resource is refused.
THEOREM RecordedStoresExist == PSpec => []RecordedStoreExists
<1>1. PInit => StoreInv
  BY BasicStart DEF PInit, OwnedInit, Init, Idle, StoreInv, RecordedStoreExists,
     StoreToRecord
<1>2. StoreInv /\ [PNext]_pVars => StoreInv'
  BY BasicStep, StoreToRecordStep, StoreRecordedStep DEF StoreInv
<1>3. StoreInv => RecordedStoreExists
  BY DEF StoreInv
<1>. QED
  BY <1>1, <1>2, <1>3, PTL DEF PSpec

-----------------------------------------------------------------------------
(* The service and the route.                                               *)

\* Of a VirtualDatabase that was never deleted, the operator does not see a
\* service, a route or a keystore that is gone.
NothingLost ==
    \A v \in VDBs : Early(v) =>
        \A k \in Lagging \cap {"service", "route", "keystore"} :
            seen[v][k] # NoObject => objs[v][k] # NoObject

\* what the worker is about to say of the service
ServiceToTell ==
    /\ worker.pc = "update"
    /\ worker.inst.obj.status.phase = ServiceImageFinished
    /\ worker.target.status.failure = ""
    /\ worker.target.status.phase = ServiceCreated
    /\ FirstOfItsName(worker.key)
    => objs[worker.key]["service"] # NoObject

\* and of the route is so
RouteToRecord ==
    /\ worker.pc = "update"
    /\ worker.target.status.route /\ ~worker.inst.obj.status.route
    /\ FirstOfItsName(worker.key)
    => objs[worker.key]["route"] # NoObject

\* and the keystore that the worker is about to say it has
KeystoreToMount ==
    /\ worker.pc = "update"
    /\ worker.inst.obj.status.phase = ServiceCreated
    /\ worker.target.status.phase = KeystoreCreated
    /\ FirstOfItsName(worker.key)
    => objs[worker.key]["keystore"] # NoObject

ExposedInv ==
    /\ BasicInv /\ NothingLost
    /\ ServiceOrFailure /\ ServiceToTell
    /\ RecordedRouteExists /\ RouteToRecord
    /\ MountedKeystoreExists /\ KeystoreToMount

\* what is seen stays as long as nothing is deleted
LEMMA NothingLostStep ==
    ASSUME BasicInv, NothingLost, [PNext]_pVars
    PROVE  NothingLost'
<1>. SUFFICES ASSUME NEW v \in VDBs, Early(v)',
                     NEW k \in Lagging \cap {"service", "route", "keystore"},
                     seen'[v][k] # NoObject
              PROVE  objs'[v][k] # NoObject
  BY DEF NothingLost
<1>1. Early(v)
  BY EarlyBefore
<1>2. seen'[v][k] \in {seen[v][k], objs[v][k], objs'[v][k]}
  BY SeenStep DEF SeenChange
<1>3. seen[v][k] # NoObject => objs[v][k] # NoObject
  BY <1>1 DEF NothingLost
<1>4. objs[v][k] # NoObject => objs'[v][k] # NoObject
  BY <1>1, EarlyKept
<1>. QED
  BY <1>2, <1>3, <1>4

\* so what a handler sees is there
LEMMA SeenThere ==
    ASSUME NothingLost, NEW v \in VDBs, Early(v), NEW k \in {"service", "route", "keystore"},
           Seen(v, k)
    PROVE  objs[v][k] # NoObject
BY DEF NothingLost, Seen

\* what CreateService tells
LEMMA ToldFields ==
    ASSUME NEW t \in Vdb, NEW try
    PROVE  /\ Told(t, try).status.failure = "" => ~try.failed
           /\ Told(t, try).status.route => t.status.route \/ try.routed
<1>. DEFINE f == IF try.failed THEN "expose" ELSE t.status.failure
            r == t.status.route \/ try.routed
            s == [t.status EXCEPT !.failure = f, !.route = r, !.phase = ServiceCreated]
<1>1. Told(t, try) = [t EXCEPT !.status.failure = f, !.status.route = r,
                               !.status.phase = ServiceCreated]
  BY DEF Told, Vdb, VdbStatus
<1>2. try.failed => f # ""
  OBVIOUS
<1>. HIDE DEF f, r
<1>3. Told(t, try).status = s
  BY <1>1 DEF Vdb, VdbStatus
<1>4. s.failure = f /\ s.route = r
  BY DEF Vdb, VdbStatus
<1>. HIDE DEF s
<1>5. Told(t, try).status.failure = f
  BY <1>3, <1>4
<1>6. Told(t, try).status.route => r
  BY <1>3, <1>4, Zenon
<1>7. r => t.status.route \/ try.routed
  BY Zenon DEF r
<1>. QED
  BY <1>2, <1>5, <1>6, <1>7

\* CreateService says that it has no failure, or that it has a route, only if
\* the service or the route is there
LEMMA ExposureReported ==
    ASSUME BasicInv, NothingLost, [PNext]_pVars, PHandle, worker.pc = "handle",
           worker'.pc = "update", Early(worker.key),
           worker.inst.obj.status.phase = ServiceImageFinished
    PROVE  /\ worker'.target.status.failure = "" =>
                 objs'[worker.key]["service"] # NoObject
           /\ worker'.target.status.route =>
                 \/ worker.inst.obj.status.route
                 \/ objs'[worker.key]["route"] # NoObject
<1>. DEFINE t == worker.inst.obj
            v == worker.key
<1>1. TypeInv /\ TypeOK
  BY DEF BasicInv, RefInv, TypeInv
<1>2. BuildSteps[worker.step] = "CreateService"
  BY <1>1, AtItsPhase
<1>3. CreateService
  BY <1>2 DEF PHandle, HandlersLeft, HandleInitialize, HandleServiceImage,
     HandleDeployment, BuildBuilderImage, MonitorBuilderImage, RunCacheStore,
     CreateCertificate, PrometheusMonitor, AtStep
<1>4. v \in VDBs /\ worker.inst \in Stored /\ t \in Vdb /\ objs[v] \in Holdings
  BY <1>3, WorkerHolds DEF CreateService
<1>5. PICK try \in CreateServiceTries(worker.inst, v) :
         Left(v, try.objs) /\ Handled(Return(Told(t, try)))
  BY <1>3 DEF CreateService
<1>6. worker'.target = Told(t, try)
  BY <1>1, <1>5, HandledWorker, ReturnTarget DEF Idle
<1>7. Sound(v, worker.inst.uid, try)
  BY <1>4, ServicesTried
<1>8. Grown(objs[v], try.objs, worker.inst.uid) /\ Paired(objs[v], try.objs)
  BY <1>7 DEF Sound, Paired
<1>9. objs'[v] = try.objs
  BY <1>5, <1>8, LeftGrows
<1>10. ASSUME NEW k \in {"service", "route"}, Seen(v, k)
       PROVE  try.objs[k] # NoObject
  <2>1. objs[v][k] # NoObject /\ k \in Kinds
    BY <1>4, <1>10, SeenThere DEF Kinds
  <2>. QED
    BY <1>8, <2>1 DEF Grown
<1>11. /\ Told(t, try).status.failure = "" => ~try.failed
       /\ Told(t, try).status.route => t.status.route \/ try.routed
  BY <1>4, ToldFields
<1>12. /\ ~try.failed => try.objs["service"] # NoObject
       /\ try.routed => try.objs["route"] # NoObject
  BY <1>7, <1>10 DEF Sound
<1>. QED
  BY <1>6, <1>9, <1>11, <1>12

\* CreateCertificate goes on only if the keystore is there
LEMMA KeystoreReported ==
    ASSUME BasicInv, NothingLost, [PNext]_pVars, PHandle, worker.pc = "handle",
           worker'.pc = "update", Early(worker.key),
           worker.inst.obj.status.phase = ServiceCreated,
           worker'.target.status.phase = KeystoreCreated
    PROVE  objs'[worker.key]["keystore"] # NoObject
<1>. DEFINE t == worker.inst.obj
            v == worker.key
            own == Own(worker.inst, 0)
            made == IF CertificatesSeen(v) THEN Created(objs[v], "keystore", own)
                    ELSE objs[v]
<1>1. TypeInv /\ TypeOK
  BY DEF BasicInv, RefInv, TypeInv
<1>2. BuildSteps[worker.step] = "CreateCertificate"
  BY <1>1, AtItsPhase
<1>3. CreateCertificate
  BY <1>2 DEF PHandle, HandlersLeft, HandleInitialize, HandleServiceImage,
     HandleDeployment, BuildBuilderImage, MonitorBuilderImage, RunCacheStore,
     CreateService, PrometheusMonitor, AtStep
<1>4. v \in VDBs /\ worker.inst \in Stored /\ objs[v] \in Holdings
  BY <1>3, WorkerHolds DEF CreateCertificate
<1>5. ~Handled(Fail(t))
  <2>1. SUFFICES ASSUME Handled(Fail(t)) PROVE FALSE
    OBVIOUS
  <2>2. worker'.target = Fail(t).target
    BY <1>1, <2>1, HandledWorker DEF Idle
  <2>. QED
    BY <2>2, ReturnTarget DEF ServiceCreated, KeystoreCreated
<1>6. \/ Seen(v, "keystore") /\ Left(v, objs[v])
      \/ Left(v, made) /\ made # objs[v]
  BY <1>3, <1>5, Zenon DEF CreateCertificate, Secured
<1>7. \A o : Left(v, o) => objs'[v] = o
  BY <1>4 DEF Left, BasicInv, OwnedTypeOK
<1>8. CASE Seen(v, "keystore") /\ Left(v, objs[v])
  BY <1>4, <1>7, <1>8, SeenThere
<1>9. CASE Left(v, made) /\ made # objs[v]
  <2>1. made = [objs[v] EXCEPT !["keystore"] = own]
    BY <1>9 DEF Created
  <2>2. own # NoObject
    BY <1>4, OwnObject DEF Stored
  <2>. QED
    BY <1>4, <1>7, <1>9, <2>1, <2>2 DEF Holdings, Kinds
<1>. QED
  BY <1>6, <1>8, <1>9

\* while the worker has a resource, it has been created
LEMMA FirstWithWorker ==
    ASSUME BasicInv, worker.pc # "idle", Early(worker.key)
    PROVE  FirstOfItsName(worker.key)
BY WorkersUid DEF Early

\* what the worker is about to tell stays so until it is told
LEMMA ToldStep ==
    ASSUME ExposedInv, [PNext]_pVars
    PROVE  ServiceToTell' /\ RouteToRecord' /\ KeystoreToMount'
<1>. USE DEF ExposedInv
<1>. SUFFICES ASSUME worker'.pc = "update", store'[worker'.key] # NoVdb,
                     store'[worker'.key].uid = 1
              PROVE  /\ /\ worker'.inst.obj.status.phase = ServiceImageFinished
                        /\ worker'.target.status.failure = ""
                        /\ worker'.target.status.phase = ServiceCreated
                        => objs'[worker'.key]["service"] # NoObject
                     /\ /\ worker'.target.status.route
                        /\ ~worker'.inst.obj.status.route
                        => objs'[worker'.key]["route"] # NoObject
                     /\ /\ worker'.inst.obj.status.phase = ServiceCreated
                        /\ worker'.target.status.phase = KeystoreCreated
                        => objs'[worker'.key]["keystore"] # NoObject
  BY DEF ServiceToTell, RouteToRecord, KeystoreToMount, FirstOfItsName
<1>1. CASE worker' = worker
  <2>1. worker.pc # "idle" /\ worker.key \in VDBs
    BY <1>1, WorkersUid
  <2>2. Early(worker.key)
    <3>1. PICK w \in VDBs : w = worker.key
      BY <2>1
    <3>2. Early(w)'
      BY <1>1, <3>1 DEF Early, FirstOfItsName
    <3>. QED
      BY <3>1, <3>2, EarlyBefore
  <2>3. FirstOfItsName(worker.key)
    BY <2>1, <2>2, FirstWithWorker
  <2>4. \A k \in {"service", "route", "keystore"} :
           objs[worker.key][k] # NoObject => objs'[worker.key][k] # NoObject
    BY <2>1, <2>2, EarlyKept
  <2>. QED
    BY <1>1, <2>3, <2>4 DEF ServiceToTell, RouteToRecord, KeystoreToMount
<1>2. CASE worker'.target = RedeployVdb(worker'.inst.obj)
  <2>1. worker'.inst.obj \in Vdb
    BY TargetOrigin
  <2>2. /\ worker'.target.status.phase = Initial
        /\ worker'.target.status.route = worker'.inst.obj.status.route
    BY <1>2, <2>1, RedeployFields
  <2>. QED
    BY <2>2 DEF Initial, ServiceCreated, KeystoreCreated
<1>3. CASE /\ PHandle /\ worker.pc = "handle" /\ UNCHANGED <<store, rev>>
           /\ worker'.key = worker.key /\ worker'.inst = worker.inst
           /\ Advanced(worker'.inst.obj, worker'.target)
  <2>1. worker'.inst.obj \in Vdb
    BY TargetOrigin
  <2>2. Kept(worker'.inst.obj, worker'.target)
    BY <1>3, <2>1, AdvancedFacts
  <2>3. /\ worker'.target.status.route /\ ~worker'.inst.obj.status.route
        => worker.inst.obj.status.phase = ServiceImageFinished
    BY <1>3, <2>2 DEF Kept
  <2>4. Early(worker.key)
    BY <1>3 DEF Early, FirstOfItsName
  <2>. QED
    BY <1>3, <2>3, <2>4, ExposureReported, KeystoreReported
<1>. QED
  BY <1>1, <1>2, <1>3, TargetOrigin

\* what has been told of the service stays so
LEMMA ServiceStep ==
    ASSUME ExposedInv, [PNext]_pVars
    PROVE  ServiceOrFailure'
<1>. USE DEF ExposedInv
<1>. SUFFICES ASSUME NEW w \in VDBs, FirstOfItsName(w)',
                     store'[w].obj.status.phase \in PastService,
                     store'[w].obj.status.failure = ""
              PROVE  objs'[w]["service"] # NoObject
  BY DEF ServiceOrFailure
<1>. DEFINE p == store[w].obj.status.phase
            q == store'[w].obj.status.phase
<1>1. [Next]_vars /\ RefInv
  BY BasicStep DEF BasicInv
<1>2. store[w] # NoVdb => store[w].obj \in Vdb
  BY <1>1 DEF RefInv, TypeInv, TypeOK, Stored
<1>3. Early(w)
  BY EarlyBefore DEF Early
<1>4. store'[w] # NoVdb /\ store'[w].uid = 1
  BY DEF FirstOfItsName
<1>5. ASSUME store[w] # NoVdb, store[w].uid = 1, p \in PastService,
             store[w].obj.status.failure = ""
      PROVE  objs'[w]["service"] # NoObject
  <2>1. objs[w]["service"] # NoObject
    BY <1>5 DEF ServiceOrFailure, FirstOfItsName
  <2>. QED
    BY <1>3, <2>1, EarlyKept
<1>6. Initial \notin PastService
  BY DEF PastService, Initial, ServiceCreated, KeystoreCreated, Deploying, Running
<1>7. CASE store'[w] = store[w]
  BY <1>4, <1>5, <1>7
<1>8. CASE IsNew(w)
  BY <1>6, <1>8, NewVdbFields DEF IsNew
<1>9. CASE Respecified(w)
  BY <1>4, <1>5, <1>9 DEF Respecified, Rewritten
<1>10. CASE Redeployed(w)
  BY <1>2, <1>6, <1>10, RedeployFields DEF Redeployed, Rewritten
<1>11. CASE WrittenBack(w)
  <2>1. /\ store[w] # NoVdb /\ store[w].uid = 1
        /\ PhaseStep(p, q) /\ Kept(store[w].obj, store'[w].obj)
    BY <1>2, <1>4, <1>11, AdvancedFacts DEF WrittenBack, Rewritten
  <2>2. \/ p \in PastService
        \/ p = ServiceImageFinished /\ q = ServiceCreated
    BY <2>1 DEF PhaseStep, PastService, Initial, CreateCacheStore, S2IReady,
       BuilderImage, BuilderImageFinished, BuilderImageFailed, ServiceImage,
       ServiceImageFinished, ServiceImageFailed, ServiceCreated, KeystoreCreated,
       Deploying, Running, Error
  <2>3. CASE p \in PastService
    <3>1. p \notin {Initial, BuilderImageFinished, ServiceImageFinished}
      BY <2>3 DEF PastService, Initial, BuilderImageFinished, ServiceImageFinished,
         ServiceCreated, KeystoreCreated, Deploying, Running
    <3>2. store[w].obj.status.failure = ""
      BY <2>1, <3>1 DEF Kept
    <3>. QED
      BY <1>5, <2>1, <2>3, <3>2
  <2>4. CASE p = ServiceImageFinished /\ q = ServiceCreated
    <3>1. objs[w]["service"] # NoObject
      BY <1>11, <2>1, <2>4 DEF WrittenBack, ServiceToTell, FirstOfItsName
    <3>. QED
      BY <1>3, <3>1, EarlyKept
  <2>. QED
    BY <2>2, <2>3, <2>4
<1>. QED
  BY <1>1, <1>4, <1>7, <1>8, <1>9, <1>10, <1>11, ObjectStep

\* and what has been told of the route
LEMMA RouteStep ==
    ASSUME ExposedInv, [PNext]_pVars
    PROVE  RecordedRouteExists'
<1>. USE DEF ExposedInv
<1>. SUFFICES ASSUME NEW w \in VDBs, FirstOfItsName(w)', store'[w].obj.status.route
              PROVE  objs'[w]["route"] # NoObject
  BY DEF RecordedRouteExists
<1>1. [Next]_vars /\ RefInv
  BY BasicStep DEF BasicInv
<1>2. store[w] # NoVdb => store[w].obj \in Vdb
  BY <1>1 DEF RefInv, TypeInv, TypeOK, Stored
<1>3. Early(w)
  BY EarlyBefore DEF Early
<1>4. store'[w] # NoVdb /\ store'[w].uid = 1
  BY DEF FirstOfItsName
<1>5. ASSUME store[w] # NoVdb, store[w].uid = 1, store[w].obj.status.route
      PROVE  objs'[w]["route"] # NoObject
  <2>1. objs[w]["route"] # NoObject
    BY <1>5 DEF RecordedRouteExists, FirstOfItsName
  <2>. QED
    BY <1>3, <2>1, EarlyKept
<1>6. CASE store'[w] = store[w]
  BY <1>4, <1>5, <1>6
<1>7. CASE IsNew(w)
  <2>1. store'[w].obj.status.route = FALSE
    BY <1>7, NewVdbFields DEF IsNew
  <2>. QED
    BY <2>1
<1>8. CASE Respecified(w)
  BY <1>4, <1>5, <1>8 DEF Respecified, Rewritten
<1>9. CASE Redeployed(w)
  <2>1. store'[w].obj.status.route = store[w].obj.status.route
    BY <1>2, <1>9, RedeployFields DEF Redeployed, Rewritten
  <2>. QED
    BY <1>4, <1>5, <1>9, <2>1 DEF Redeployed, Rewritten
<1>10. CASE WrittenBack(w)
  <2>1. store[w] # NoVdb /\ store[w].uid = 1
    BY <1>4, <1>10 DEF WrittenBack, Rewritten
  <2>2. CASE store[w].obj.status.route
    BY <1>5, <2>1, <2>2
  <2>3. CASE ~store[w].obj.status.route
    <3>1. objs[w]["route"] # NoObject
      BY <1>10, <2>1, <2>3 DEF WrittenBack, RouteToRecord, FirstOfItsName
    <3>. QED
      BY <1>3, <3>1, EarlyKept
  <2>. QED
    BY <2>2, <2>3
<1>. QED
  BY <1>1, <1>4, <1>6, <1>7, <1>8, <1>9, <1>10, ObjectStep

\* and the keystore of a resource that says it has one
LEMMA KeystoreStep ==
    ASSUME ExposedInv, [PNext]_pVars
    PROVE  MountedKeystoreExists'
<1>. USE DEF ExposedInv
<1>. DEFINE Secure == {KeystoreCreated, Deploying, Running}
<1>. SUFFICES ASSUME NEW w \in VDBs, FirstOfItsName(w)',
                     store'[w].obj.status.phase \in Secure
              PROVE  objs'[w]["keystore"] # NoObject
  BY DEF MountedKeystoreExists
<1>. DEFINE p == store[w].obj.status.phase
            q == store'[w].obj.status.phase
<1>1. [Next]_vars /\ RefInv
  BY BasicStep DEF BasicInv
<1>2. store[w] # NoVdb => store[w].obj \in Vdb
  BY <1>1 DEF RefInv, TypeInv, TypeOK, Stored
<1>3. Early(w)
  BY EarlyBefore DEF Early
<1>4. store'[w] # NoVdb /\ store'[w].uid = 1
  BY DEF FirstOfItsName
<1>5. ASSUME store[w] # NoVdb, store[w].uid = 1, p \in Secure
      PROVE  objs'[w]["keystore"] # NoObject
  <2>1. objs[w]["keystore"] # NoObject
    BY <1>5 DEF MountedKeystoreExists, FirstOfItsName
  <2>. QED
    BY <1>3, <2>1, EarlyKept
<1>6. Initial \notin Secure
  BY DEF Initial, KeystoreCreated, Deploying, Running
<1>7. CASE store'[w] = store[w]
  BY <1>4, <1>5, <1>7
<1>8. CASE IsNew(w)
  BY <1>6, <1>8, NewVdbFields DEF IsNew
<1>9. CASE Respecified(w)
  BY <1>4, <1>5, <1>9 DEF Respecified, Rewritten
<1>10. CASE Redeployed(w)
  BY <1>2, <1>6, <1>10, RedeployFields DEF Redeployed, Rewritten
<1>11. CASE WrittenBack(w)
  <2>1. store[w] # NoVdb /\ store[w].uid = 1 /\ PhaseStep(p, q)
    BY <1>2, <1>4, <1>11, AdvancedFacts DEF WrittenBack, Rewritten
  <2>2. \/ p \in Secure
        \/ p = ServiceCreated /\ q = KeystoreCreated
    BY <2>1 DEF PhaseStep, Initial, CreateCacheStore, S2IReady,
       BuilderImage, BuilderImageFinished, BuilderImageFailed, ServiceImage,
       ServiceImageFinished, ServiceImageFailed, ServiceCreated, KeystoreCreated,
       Deploying, Running, Error
  <2>3. CASE p \in Secure
    BY <1>5, <2>1, <2>3
  <2>4. CASE p = ServiceCreated /\ q = KeystoreCreated
    <3>1. objs[w]["keystore"] # NoObject
      BY <1>11, <2>1, <2>4 DEF WrittenBack, KeystoreToMount, FirstOfItsName
    <3>. QED
      BY <1>3, <3>1, EarlyKept
  <2>. QED
    BY <2>2, <2>3, <2>4
<1>. QED
  BY <1>1, <1>4, <1>7, <1>8, <1>9, <1>10, <1>11, ObjectStep

\* the invariant is one
LEMMA ExposedStart == PInit => ExposedInv
<1>. SUFFICES ASSUME PInit PROVE ExposedInv
  OBVIOUS
<1>1. /\ \A v \in VDBs : store[v] = NoVdb
      /\ worker.pc = "idle"
      /\ seen = [v \in VDBs |-> [k \in Lagging |-> objs[v][k]]]
  BY DEF PInit, OwnedInit, Init, Idle
<1>. QED
  BY <1>1, BasicStart DEF ExposedInv, NothingLost, ServiceOrFailure, ServiceToTell,
     RecordedRouteExists, RouteToRecord, MountedKeystoreExists, KeystoreToMount,
     FirstOfItsName

\* under every step
LEMMA ExposedStep == ExposedInv /\ [PNext]_pVars => ExposedInv'
<1>. SUFFICES ASSUME ExposedInv, [PNext]_pVars PROVE ExposedInv'
  OBVIOUS
<1>1. BasicInv' /\ NothingLost'
  BY BasicStep, NothingLostStep DEF ExposedInv
<1>. QED
  BY <1>1, ToldStep, ServiceStep, RouteStep, KeystoreStep DEF ExposedInv

\* A VirtualDatabase past "Service Created" that was never deleted and created
\* again has its service, or its status tells the failure, although the handler
\* reads a lagging cache, overwrites the phase Error it has just set, may fail
\* at any call and writes its status several steps later.
THEOREM ServicesExistOrFailureIsTold == PSpec => []ServiceOrFailure
<1>1. ExposedInv => ServiceOrFailure
  BY DEF ExposedInv
<1>. QED
  BY <1>1, ExposedStart, ExposedStep, PTL DEF PSpec

\* The route in the status of such a VirtualDatabase exists: it was created and
\* seen before it was recorded, and the garbage collector leaves it alone.
THEOREM RecordedRoutesExist == PSpec => []RecordedRouteExists
<1>1. ExposedInv => RecordedRouteExists
  BY DEF ExposedInv
<1>. QED
  BY <1>1, ExposedStart, ExposedStep, PTL DEF PSpec

\* The keystore that the Deployment of such a VirtualDatabase mounts exists:
\* CreateCertificate drops its errors but not the phase, a cache that lags shows
\* no keystore that is gone, and the garbage collector leaves it alone.
THEOREM MountedKeystoresExist == PSpec => []MountedKeystoreExists
<1>1. ExposedInv => MountedKeystoreExists
  BY DEF ExposedInv
<1>. QED
  BY <1>1, ExposedStart, ExposedStep, PTL DEF PSpec

=============================================================================
