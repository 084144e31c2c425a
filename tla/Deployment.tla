------------------------------ MODULE Deployment -----------------------------
(***************************************************************************)
(* The Deployment action in full: the Deployment object of a               *)
(* VirtualDatabase, the pods Kubernetes runs for it, and the handler that  *)
(* creates it, follows its rollout and, while the VirtualDatabase runs,    *)
(* keeps its replicas, environment and configuration in step.  Everything  *)
(* else is as in Reconciler; the image of a source is taken to exist when  *)
(* its build phase ends (ServiceBuild).                                    *)
(***************************************************************************)
EXTENDS Reconciler, EnvVars

CONSTANTS
    NoDeployment,     \* no Deployment, or no pods, of that name
    UserEnv,          \* Text -> the variables Spec.Env lists
    SourcesIn,        \* Text -> the data sources a DDL or Maven VDB names
    DataSources,      \* Spec.DataSources
    Revisions,        \* revisions of the ConfigMaps and Secrets referred to
    HasJaeger,        \* Spec.Jaeger names a Jaeger that exists
    TrustedGeneration,\* a rollout stops only in generations from this on: 4
    MaxConfigEdits,   \* bound: changes of a ConfigMap or Secret
    MaxDeployFaults   \* bound: calls of this handler that fail

ASSUME DeploymentAssumption ==
    /\ UserEnv \in [Text -> Seq(EnvVar)]
    /\ SourcesIn \in [Text -> Seq(Words)]
    /\ DataSources \in Seq(DataSource)
    /\ HasJaeger \in BOOLEAN
    /\ Revisions # {}
    /\ Revisions \X Text \subseteq ConfigDigests \ {NoConfigDigest}
    /\ {TrustedGeneration, MaxConfigEdits, MaxDeployFaults} \subseteq Nat

VARIABLES
    image,            \* VDBs -> the digest of the source behind name:latest
    config,           \* VDBs -> the revision of the ConfigMaps and Secrets
    dep,              \* VDBs -> the Deployment
    pods,             \* VDBs -> the pods that are available
    used              \* how much of each of this module's bounds is used

depVars == <<image, config, dep, pods, used>>
dVars == <<vars, depVars>>

Template == [image : Digest, env : Seq(EnvVar), configHash : ConfigDigests]
DeploymentObject == [owner : Nat, replicas : Nat,
                     template : Template, generation : Nat, stopped : BOOLEAN]

\* pods read the configuration when they start
Pods == [template : Template, config : Revisions]

DInit ==
    /\ Init
    /\ image = [v \in VDBs |-> <<>>]
    /\ config = [v \in VDBs |-> CHOOSE c \in Revisions : TRUE]
    /\ dep = [v \in VDBs |-> NoDeployment]
    /\ pods = [v \in VDBs |-> NoDeployment]
    /\ used = [config |-> 0, faults |-> 0]

Use(what, bound) == /\ used[what] < bound
                    /\ used' = [used EXCEPT ![what] = @ + 1]

-----------------------------------------------------------------------------
(* The handler.                                                             *)

\* the environments deploymentEnvironments may compute, by Spec.Env, by the
\* text whose data sources are configured, and with or without a cache store
EnvironmentsFor(e, src, cacheStore) ==
    LET jaeger == IF HasJaeger THEN JaegerEnvs ELSE <<>>
        ispn   == IF cacheStore THEN CredentialsAsEnv ELSE <<>>
    IN  {Combine(Combine(Combine(d, jaeger), ispn),
                 SpringProperties(SourcesIn[src], DataSources)) :
            d \in GetDefaultEnvs(UserEnv[e])}

Environments ==
    [e \in Text |-> [src \in Text |-> [cacheStore \in BOOLEAN |->
        EnvironmentsFor(e, src, cacheStore)]]]

\* FetchDdl: a Maven VDB brings its own DDL
SourceText(s) == IF s.maven # <<>> THEN s.maven ELSE s.ddl

DeploymentEnvironments(t) ==
    Environments[t.spec.env][SourceText(t.spec)][t.status.cacheStore]

BadEnvironment(t) == BadDataSources(SourcesIn[SourceText(t.spec)], DataSources)

\* the API server gives a Deployment that names no number of replicas one
GivenReplicas(n) == IF n = NoReplicas THEN 1 ELSE n

\* (mutant) the Deployment is not owned by its VirtualDatabase
BuildDeploymentUnowned(inst, env) ==
    [replicas   |-> GivenReplicas(inst.obj.spec.replicas),
     template   |-> [image |-> image[worker.key], env |-> Defaulted(env),
                     configHash |-> inst.obj.status.configDigest],
     generation |-> 1,
     stopped    |-> FALSE]

\* the image stream of the service is looked up locally, so the API server
\* replaces name:latest in a template by the image it names at that time
BuildDeployment(inst, env) ==
    [owner      |-> inst.uid,
     replicas   |-> GivenReplicas(inst.obj.spec.replicas),
     template   |-> [image      |-> image[worker.key],
                     env        |-> Defaulted(HTTPSettings(env)),
                     configHash |-> inst.obj.status.configDigest],
     generation |-> 1,
     stopped    |-> FALSE]

\* the API server counts the changes of a Deployment; the count matters up to
\* TrustedGeneration
Updated(d, e) ==
    IF e # d /\ d.generation < TrustedGeneration
    THEN [e EXCEPT !.generation = d.generation + 1] ELSE e

\* (mutant) an existing Deployment is left as it is
DeployedSame(inst, d) ==
    IF d # NoDeployment THEN {d}
    ELSE {BuildDeployment(inst, e) : e \in DeploymentEnvironments(inst.obj)}

\* The Deployments the handler may write: a new one, or the one that is there
\* with its image, which never reads name:latest, set to name:latest.
Deployed(inst, d) ==
    IF d # NoDeployment
    THEN {Updated(d, [d EXCEPT !.template.image = image[worker.key]])}
    ELSE IF BadEnvironment(inst.obj) THEN {}
    ELSE {BuildDeployment(inst, e) : e \in DeploymentEnvironments(inst.obj)}

Stays == UNCHANGED <<image, config, pods>>

\* Phase Keystore Created.  A call that fails may have taken effect.
CreateDeployment ==
    LET t == worker.inst.obj
        v == worker.key
        writes == Deployed(worker.inst, dep[v])
    IN  /\ AtStep("Deployment")
        /\ t.status.phase = KeystoreCreated
        /\ \/ /\ \E d \in writes : dep' = [dep EXCEPT ![v] = d]
              /\ Handled(Return(InPhase(t, Deploying)))
              /\ UNCHANGED used
           \/ /\ writes = {}
              /\ Handled(Fail(t))
              /\ UNCHANGED <<dep, used>>
           \/ /\ \E d \in writes \cup {dep[v]} : dep' = [dep EXCEPT ![v] = d]
              /\ Handled(Fail(t))
              /\ Use("faults", MaxDeployFaults)
        /\ Stays
        /\ UNCHANGED consoleLinks

\* Available is reported as long as enough pods run, those of an earlier
\* template included.
IsDeploymentInReadyState(v) == dep[v] # NoDeployment /\ pods[v] # NoDeployment

\* a rollout that stopped early in the life of a Deployment is not believed
IsDeploymentProgressing(d) == ~d.stopped \/ d.generation < TrustedGeneration

\* (mutant) a rollout that stopped starts over
MonitoredAgain(v) ==
    IF IsDeploymentInReadyState(v) THEN Running
    ELSE IF dep[v] # NoDeployment /\ ~IsDeploymentProgressing(dep[v])
    THEN KeystoreCreated ELSE Deploying

\* the phase of a VirtualDatabase whose Deployment is rolling out
Monitored(v) ==
    IF IsDeploymentInReadyState(v) THEN Running
    ELSE IF dep[v] # NoDeployment /\ ~IsDeploymentProgressing(dep[v]) THEN Error
    ELSE Deploying

\* Phase Deploying.  A Deployment that cannot be read, or is not there, looks
\* like one that has no conditions yet.
MonitorDeployment ==
    LET t == worker.inst.obj
    IN  /\ AtStep("Deployment")
        /\ t.status.phase = Deploying
        /\ \/ Handled(Return(InPhase(t, Monitored(worker.key)))) /\ UNCHANGED used
           \/ Handled(Return(t)) /\ Use("faults", MaxDeployFaults)
        /\ Stays
        /\ UNCHANGED <<dep, consoleLinks>>

\* the Deployment d with the replicas of t and environment env
Ensured(t, d, env) == Updated(d, [d EXCEPT !.replicas = GivenReplicas(t.spec.replicas),
                                           !.template.env = Defaulted(env)])

\* does ensureReplicas see replicas or variables that are not as they should be?
NeedsUpdate(t, d, env) == t.spec.replicas # d.replicas \/ env # d.template.env

\* the digest of the variables of s and of what they refer to, as it is now
ComputeConfigDigest(v, s) == <<config[v], s.env>>

\* What ensureReplicas makes of the resource and of the Deployment.  The
\* configuration is looked at only if there is nothing else to update, and its
\* digest is recorded in the resource before the Deployment is written.
EnsureRuns(t, v) ==
    LET c == ComputeConfigDigest(v, t.spec)
        d == dep[v]
    IN  {IF NeedsUpdate(t, d, env)
         THEN [target |-> t, dep |-> Ensured(t, d, env)]
         ELSE [target |-> [t EXCEPT !.status.configDigest = c],
               dep    |-> IF c = t.status.configDigest THEN d
                          ELSE Updated(d, [d EXCEPT !.template.configHash = c])] :
            env \in DeploymentEnvironments(t)}

\* Phase Running, with a Deployment that is ready.
EnsureReplicas ==
    LET t == worker.inst.obj
        v == worker.key
        runs == IF BadEnvironment(t) THEN {} ELSE EnsureRuns(t, v)
    IN  /\ AtStep("Deployment")
        /\ t.status.phase = Running
        /\ IsDeploymentInReadyState(v)
        /\ \/ /\ runs = {}
              /\ Handled(Fail(t))
              /\ UNCHANGED <<dep, used>>
           \/ /\ t.spec.replicas # NoReplicas
              /\ \E r \in runs : /\ dep' = [dep EXCEPT ![v] = r.dep]
                                 /\ Handled(Return(r.target))
              /\ UNCHANGED used
           \/ /\ t.spec.replicas # NoReplicas
              /\ \E r \in runs : /\ \/ dep' = [dep EXCEPT ![v] = r.dep]
                                    \/ UNCHANGED dep
                                 /\ Handled(Fail(r.target))
              /\ Use("faults", MaxDeployFaults)
           \/ /\ Handled(Fail(t))
              /\ Use("faults", MaxDeployFaults)
              /\ UNCHANGED dep
        /\ Stays
        /\ UNCHANGED consoleLinks

\* ensureReplicas dereferences the replicas of the resource
EnsurePanics ==
    /\ HandlerPanics
    /\ IsDeploymentInReadyState(worker.key)
    /\ ~BadEnvironment(worker.inst.obj)

\* Phase Running, with a Deployment that is not ready or not there.
NothingToEnsure ==
    /\ AtStep("Deployment")
    /\ worker.inst.obj.status.phase = Running
    /\ ~IsDeploymentInReadyState(worker.key)
    /\ Handled(Return(worker.inst.obj))
    /\ UNCHANGED <<depVars, consoleLinks>>

HandleDeploymentObject == \/ CreateDeployment \/ MonitorDeployment
                          \/ EnsureReplicas \/ NothingToEnsure

\* the operator crashes after it has written the Deployment
CrashInDeployment ==
    LET t == worker.inst.obj
        v == worker.key
    IN  /\ AtStep("Deployment")
        /\ \/ /\ t.status.phase = KeystoreCreated
              /\ \E d \in Deployed(worker.inst, dep[v]) : dep' = [dep EXCEPT ![v] = d]
           \/ /\ t.status.phase = Running
              /\ IsDeploymentInReadyState(v)
              /\ t.spec.replicas # NoReplicas
              /\ ~BadEnvironment(t)
              /\ \E r \in EnsureRuns(t, v) : dep' = [dep EXCEPT ![v] = r.dep]
    /\ Crash
    /\ Stays
    /\ UNCHANGED used

-----------------------------------------------------------------------------
(* The other handlers, where they touch this module's state.                *)

\* Initialize computes the digest of the configuration as it finds it
InitializeReads ==
    /\ HandleInitialize
    /\ worker'.pc = "update" /\ worker'.target.status.phase = CreateCacheStore =>
           worker'.target.status.configDigest \in
               {ComputeConfigDigest(worker.key, worker.inst.obj.spec), NoConfigDigest}
    /\ UNCHANGED depVars

\* a finished build has moved name:latest to the image of its source
ServiceImageBuilt ==
    /\ HandleServiceImage
    /\ LET done == /\ worker'.pc = "update"
                   /\ worker'.target.status.phase = ServiceImageFinished
       IN  image' = IF done THEN [image EXCEPT ![worker.key] =
                                     worker.inst.obj.status.digest]
                    ELSE image
    /\ UNCHANGED <<config, dep, pods, used>>

RestOfLoop ==
    \/ \E v \in VDBs : \/ User(v)
                       \/ Deliver(v) \/ Relist(v) \/ OwnedEvent(v) \/ DelayOver(v)
                       \/ Reconcile(v) \/ ReconcileReadFails(v)
    \/ Update
    \/ Crash
    \/ EnsurePanics
    \/ HandleCacheStore \/ HandleS2IBuilderImage \/ HandleCreateService
    \/ HandleCreateCertificate \/ HandlePrometheusMonitor

-----------------------------------------------------------------------------
(* Kubernetes and the users.                                                *)

RollingOut(v) == pods[v] # NoDeployment => pods[v].template # dep[v].template

\* the pods of the Deployment's template are available and the others gone
Rollout(v) ==
    /\ dep[v] # NoDeployment
    /\ RollingOut(v)
    /\ pods' = [pods EXCEPT ![v] = [template |-> dep[v].template, config |-> config[v]]]
    /\ dep' = [dep EXCEPT ![v].stopped = FALSE]
    /\ UNCHANGED <<vars, image, config, used>>

\* the rollout is past its deadline and reported to have stopped, or it makes
\* progress again
RolloutStops(v) ==
    /\ dep[v] # NoDeployment
    /\ RollingOut(v)
    /\ dep' = [dep EXCEPT ![v].stopped = ~@]
    /\ UNCHANGED <<vars, image, config, pods, used>>

\* the owner of the Deployment is gone, and so are the pods it owns
CollectDeployment(v) ==
    /\ dep[v] # NoDeployment
    /\ ~(store[v] # NoVdb /\ store[v].uid = dep[v].owner)
    /\ dep' = [dep EXCEPT ![v] = NoDeployment]
    /\ pods' = [pods EXCEPT ![v] = NoDeployment]
    /\ UNCHANGED <<vars, image, config, used>>

\* a user changes a ConfigMap or a Secret the VirtualDatabase refers to
EditConfig(v, c) ==
    /\ c # config[v]
    /\ Use("config", MaxConfigEdits)
    /\ config' = [config EXCEPT ![v] = c]
    /\ UNCHANGED <<vars, image, dep, pods>>

-----------------------------------------------------------------------------
DNext ==
    \/ RestOfLoop /\ UNCHANGED depVars
    \/ InitializeReads
    \/ ServiceImageBuilt
    \/ HandleDeploymentObject
    \/ CrashInDeployment
    \/ \E v \in VDBs : \/ Rollout(v) \/ RolloutStops(v) \/ CollectDeployment(v)
                       \/ \E c \in Revisions : EditConfig(v, c)

DSpec == DInit /\ [][DNext]_dVars

(* As in Reconciler, and the pods of a template start in the end.           *)
DFairness ==
    /\ \A v \in VDBs :
          /\ WF_dVars(Deliver(v) /\ UNCHANGED depVars)
          /\ WF_dVars(DelayOver(v) /\ UNCHANGED depVars)
          /\ SF_dVars(Reconcile(v) /\ UNCHANGED depVars)
          /\ WF_dVars(Rollout(v))
    /\ WF_dVars(\/ (\/ EnsurePanics
                    \/ HandleCacheStore \/ HandleS2IBuilderImage
                    \/ HandleCreateService \/ HandleCreateCertificate
                    \/ HandlePrometheusMonitor) /\ UNCHANGED depVars
                \/ InitializeReads \/ ServiceImageBuilt \/ HandleDeploymentObject)
    /\ WF_dVars((UpdateSucceeds \/ UpdateRejected) /\ UNCHANGED depVars)

DFairSpec == DSpec /\ DFairness

-----------------------------------------------------------------------------
(* Properties.                                                              *)

\* The Deployments and their pods have the fields the operator gives them.
DTypeOK ==
    /\ image \in [VDBs -> Digest]
    /\ config \in [VDBs -> Revisions]
    /\ dep \in [VDBs -> DeploymentObject \cup {NoDeployment}]
    /\ pods \in [VDBs -> Pods \cup {NoDeployment}]
    /\ used \in [{"config", "faults"} -> Nat]

Serving(v) == /\ store[v] # NoVdb
              /\ store[v].obj.status.phase = Running
              /\ IsDeploymentInReadyState(v)

\* what a list of variables means to the program that is started with it
Meaning(list) == [n \in {list[i].name : i \in DOMAIN list} |-> Get(list, n)]

\* What a list of all variables in the order of their authority means: those of
\* the user, of the proxy unless the user sets it up, the defaults in one of
\* their orders, Jaeger, the cache store, and the data sources, of whose
\* settings the last counts.
WantedFor(e, src, cacheStore) ==
    LET proxy   == IF UserDefinedProxy(UserEnv[e]) \/ ~ClusterDefinedProxy
                   THEN <<>> ELSE ClusterProxy
        own     == UserEnv[e] \o proxy
        jaeger  == IF HasJaeger THEN JaegerEnvs ELSE <<>>
        ispn    == IF cacheStore THEN CredentialsAsEnv ELSE <<>>
        sources == Seqs!Reverse(AllSettings(SourcesIn[src], DataSources))
    IN  {Meaning(Defaulted(own \o d \o jaeger \o ispn \o sources)) : d \in DefaultEnvs(own)}

Wanted ==
    [e \in Text |-> [src \in Text |-> [cacheStore \in BOOLEAN |->
        WantedFor(e, src, cacheStore)]]]

\* the environment a resource asks for
AsksFor(t, env) ==
    Meaning(env) \in Wanted[t.spec.env][SourceText(t.spec)][t.status.cacheStore]

\* Once users stop editing, the Deployment of a running VirtualDatabase has
\* the replicas and the environment its spec asks for, unless the names of its
\* data sources are refused with an error, or the spec names no number of
\* replicas because a replace dropped it (OperatorStaysUp): ensureReplicas
\* gets there through failed updates, redeployments and restarts, panics among
\* them, and merging the lists gives every variable the value of the first that
\* defines it.
SpecReachesDeployment ==
    \A v \in VDBs :
        <>[](Serving(v) /\ ~BadEnvironment(store[v].obj)
                        /\ store[v].obj.spec.replicas # NoReplicas =>
                /\ dep[v].replicas = store[v].obj.spec.replicas
                /\ AsksFor(store[v].obj, dep[v].template.env))

\* Whoever writes the environment of a Deployment, in whatever way, writes the
\* one that the copy of the resource it works on asks for, also when the write
\* is reported to have failed or is the last thing before a crash: five lists
\* merged by four functions give every variable the value of the first list
\* that defines it, and buildDeployment and ensureReplicas agree on it.
EnvironmentAsAsked ==
    [][\A v \in VDBs :
          /\ dep'[v] # NoDeployment
          /\ dep[v] # NoDeployment => dep'[v].template.env # dep[v].template.env
          => WorkingOn(v) /\ AsksFor(worker.inst.obj, dep'[v].template.env)]_dVars

\* The Deployment of a VirtualDatabase that is Deploying or Running is that of
\* the image of the source its status names, however stale the copy was that
\* the handlers worked on, and also if the Deployment was made for another
\* source, or by a predecessor of the same name.
DeploymentOfTheImage ==
    \A v \in VDBs :
        /\ store[v] # NoVdb
        /\ store[v].obj.status.phase \in {Deploying, Running}
        /\ dep[v] # NoDeployment
        => dep[v].template.image = store[v].obj.status.digest

\* Once users stop editing, the pods of a running VirtualDatabase are those of
\* the image of its source, although Running is reported while older pods are
\* still available.
ImageReachesPods ==
    \A v \in VDBs :
        <>[](Serving(v) => pods[v].template.image = store[v].obj.status.digest)

\* Once users stop editing, the template stops changing: ensureReplicas, which
\* finds something to update every time it runs because the API server
\* completes what it wrote, does not restart the pods again and again.
DeploymentSettles ==
    <>[][\A v \in VDBs : dep[v] # NoDeployment /\ dep'[v] # NoDeployment =>
                             dep'[v].template = dep[v].template]_dVars

\* Once ConfigMaps and Secrets stop changing, the pods of a running
\* VirtualDatabase were started with them as they are: ensureReplicas is there
\* "to see if any of the secrets or configmaps changed".
ConfigReachesPods ==
    \A v \in VDBs : <>[](Serving(v) => pods[v].config = config[v])

\* With its own Deployment and pods, the handler does what Reconciler lets the
\* Deployment action do, and nothing else.
DeploymentImplementsReconciler == Spec
=============================================================================
