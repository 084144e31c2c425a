# A TLA+ model of the Teiid operator

The operator turns a `VirtualDatabase` resource into a running Teiid server on
OpenShift: it builds a builder image and a service image, creates services,
routes, certificates and a Deployment, and keeps all of it in step with the
resource. It has no state of its own: everything it knows is in the cluster, it
reads it through caches that lag behind, and it may be stopped between any two
calls. This project models that control loop and the parts of it where the
order of calls matters, checks the models with TLC and proves the central
results with TLAPS.

File names below are relative to `src/pkg/controller/virtualdatabase/` unless
they start with `src/`.

## The system

| Component | State | Operations | Talks to |
|---|---|---|---|
| `VirtualDatabase` resource (`virtualdatabase_types.go`) | spec, written by users and once by Initialize (replicas); status, written by the operator; no status subresource, so any change is a new generation | create, edit, delete | API server |
| reconcile loop (`virtualdatabase_controller.go`) | one worker, its copy of the resource, the work queue | Reconcile: redeploy, or the first action that handles the phase; write back; requeue | API server, all actions |
| watches and filter (`watch.go`) | informer caches | enqueue on an event that passes the filter | loop |
| digest and redeployment (`digest.go`, `updater.go`) | `Status.Digest`, `Status.Version` | IsVdbUpdated, RedeployVdb | loop |
| Initialize (`initialize.go`) | | validate, default, first digests | ConfigMaps, Secrets |
| CacheStore (`cachestore.go`, `src/pkg/util/cachestore/`) | the Infinispan resource, the secret with its users and the secret the pods read | look for a configuration, else create all three with a new password | Infinispan operator |
| S2IBuilderImage (`s2i_builder_image.go`) | one BuildConfig and its builds, shared by all resources | request, retry, monitor | OpenShift builds |
| ServiceImage (`service_image.go`) | one BuildConfig with its DIGEST variable, and builds, per resource | request if the source changed, monitor | OpenShift builds |
| CreateService (`create-service.go`), console links (`src/pkg/util/openshift/webconsole.go`) | services, route, cluster-scoped link | create if the service is not there; unlink on deletion | API server |
| CreateCertificate (`create-certificates.go`) | keystore secret | create if not there | API server |
| Deployment (`deployment.go`, `default_envs.go`, `convert-ds-properties.go`) | Deployment | create, watch its conditions, replicas, environment, configuration digest | API server |
| PrometheusMonitor (`prometheus-monitor.go`) | ServiceMonitor | create if not there | Prometheus operator |
| payload (`service_image.go`, `pom.go`, `src/pkg/util/maven/`, `src/pkg/util/vdbutil/`, `src/pkg/util/zip/`) | files in `/tmp`, kept from one run to the next | fetch the DDL, assemble the Maven project and its settings | Maven repositories |
| pure helpers (`src/pkg/util/...`) | none | documents, variables, names | |

What is hard in this code:

* The loop works on a *stale copy* and writes the *whole object* back; only the
  API server's version check keeps it from overwriting an edit.
* After a successful write it does **not** ask to be called again: progress
  depends on its own write's event passing the filter of `watch.go`.
* A handler is a chain of calls to several servers without a transaction. Any
  call may fail, take effect and lose its answer, or be the last before a
  crash, and the retry starts again from the phase.
* The builds of the builder image belong to all resources at once.
* Owned objects of a deleted resource stay until the garbage collector runs,
  and the console link has no owner at all. A resource recreated under the same
  name meets them and takes them for its own.
* The existence of the first object of several (the service, the keystore) is
  what a retry takes for the existence of all of them.
* Maven repositories are tried in an order that changes with every loop, and
  somebody publishes a snapshot in between.

What makes each part correct: the loop never loses a wakeup or an edit; the
status converges to the last source; a version names one source; an image in
service is that of the source the status names; the pods have the image, the
environment, the replicas and the configuration the resource asks for and are
not restarted without reason; a build is requested once; the
shared image exists before anything is built on it and contains whatever will be
added to a project; the artifact in an image is the one the user named; a cache
store has one password and belongs to the resource that records it; what could
not be exposed is told in the status; no phase that waits for a build or a
certificate waits for ever; nothing is left behind. `PROJECT.json` lists the hazards
line by line with the properties that would catch them.

## Modules

| Module | Models |
|---|---|
| `VirtualDatabase` | the resource, its phases, digest and redeployment; for every action the set of results its `Handle` may return |
| `Lifecycle` | abstract specification: one atomic object; each operator write is a redeployment, or a handler's result, *for the object as it is now* |
| `Reconciler` | API server, watch with filter and relists, informer cache, work queue and timers, the worker inside Reconcile, console links, restarts, panic |
| `Versions` | `Reconciler` with a history of which source was deployed under which version |
| `OpenShiftBuilds` | the builds of one BuildConfig (external), run serially |
| `ServiceBuild` | `Reconciler` with the ServiceImage action in full |
| `BuilderImage` | `Reconciler` with the S2IBuilderImage action in full |
| `EnvVars` | lists of environment variables and their merging, proxy settings, defaults, data sources (pure) |
| `Deployment` | `Reconciler` with the Deployment action in full, the Deployment object and its pods |
| `OwnedObjects` | the objects created once per resource, with their owners; the cache that shows them late; the garbage collector |
| `CacheStore` | the CacheStore action in full |
| `Exposure` | the CreateService, CreateCertificate and PrometheusMonitor actions in full |
| `Provisioning` | `Reconciler` with `BuilderImage`, `CacheStore` and `Exposure` composed |
| `Maven` | coordinates, the dependencies of a project, repositories (pure) |
| `Payload` | where the DDL of one resource comes from, and what is sent to be built |
| `MCReconciler`, `MCVersions`, `MCServiceBuild`, `MCBuilderImage`, `MCDeployment`, `MCProvisioning`, `MCPayload` | small instances for TLC |
| `ReconcilerProofs`, `RefinementProofs`, `VersionProofs`, `BuildProofs`, `BuilderProofs`, `DeploymentProofs`, `ProvisioningProofs`, `PayloadProofs` | theorems and proofs |

`Provisioning`, `ServiceBuild` and `Deployment` each refine `Reconciler`, which
refines `Lifecycle`. `Payload` looks inside one step of the ServiceImage and
Deployment actions, the call of `FetchDdl` and the assembly of the payload, and
stands by itself: it shares no state with the loop but the spec.

### How state and actions correspond to the code

`store[v]` is the object in the API server with `uid`, `resourceVersion` and
`generation`; `watch[v]` holds the versions written and not yet seen; `cache[v]`
is the version `r.client.Get` returns. `queue` is the work queue without
duplicates; `delayed` holds names with a pending `RequeueAfter` or rate-limited
retry. `worker` is idle, about to call `Handle` of action `step` on its copy
`inst`, or about to write `target`. Reading the cache and deciding, running one
handler, and writing back are separate steps: users, the watch and crashes act
in between.

* `ReconcileDeleted`, `ReconcileReadFails`, `ReconcileUpdated` and
  `ReconcileActions` are the four ways through the head of Reconcile. `Handled`
  is what follows a `Handle`: write if `hasChanges`, otherwise **drop the
  error** and go on with the next action that accepts the phase, and at the end
  requeue after five seconds.
* `UpdateSucceeds`, `UpdateRejected` and `UpdateTimesOut` are the write: a
  conflict or failed call is retried, a lost answer means the write happened.
* `Enqueues` is the predicate of `watch.go`. The library never sets
  `DeleteStateUnknown`, so a deletion always passes.
* In `VirtualDatabase` what a handler finds in the cluster is a choice of
  results; the constant `Conditions` says which misfortunes an instance
  includes (`"route"`: the cluster has routes; `"infinispan"`; `"config missing"`
  and the like). `ServiceBuild`, `BuilderImage`, `Deployment` and `Provisioning`
  replace the choice by the handler's own chain of calls and are shown to
  implement `Reconciler`.
  Inside such a chain a failed call and a crash are separate: `FailedRuns` are
  the states a chain can stop in, `BuildServiceImage` returns the error from
  them, `CrashInBuild` loses the worker there.
* `Deployment` adds `dep[v]` (owner, replicas, pod template, generation, whether
  the rollout is reported to have stopped), `pods[v]` (the template and the
  revision of the configuration the available pods were started with),
  `config[v]` (the revision of the ConfigMaps and Secrets) and `image[v]` (the
  source behind `name:latest`). `CreateDeployment`, `MonitorDeployment` and
  `EnsureReplicas`/`NothingToEnsure` are the three branches of `Handle`;
  `EnsureRuns` is `ensureReplicas`: replicas and environment first, and the
  configuration digest only if neither differs. `Rollout`, `RolloutStops` and
  `CollectDeployment` are Kubernetes. The API server completes what it stores
  (`Defaulted`, `GivenReplicas`), and, because the operator creates the image stream with local
  lookup, resolves `name:latest` in a template to the image it names then: the
  code could not roll out a new image otherwise.
* `EnvVars` has one operator per function of `envvar.go`, `proxy.go`,
  `default_envs.go` and `convert-ds-properties.go`. Where Go ranges over a map
  (the Java properties of a proxy) `GetDefaultEnvs` is the set of results. A merge
  is the last of its `Stages`, one for each variable taken in. What the merged
  list should be is said a second way: `Wanted` writes all variables one after
  the other in the order of their authority and lets the first of a name count.
  The texts of variables are a constant set `Words` that contains those the
  operator itself writes, because the provers cannot show that a literal is one
  of `STRING`.

* `OwnedObjects` adds `objs[v][kind]`, the object in the API server with the uid
  of its owner and the one value that matters (a password; whether a service
  asks for a certificate), and `seen`, what the manager's client shows of the
  kinds in `Lagging`. `Created` is a creation (refused if the name is taken),
  `CatchUp` the cache, `Collect` the garbage collector, which takes any object
  whose owner is gone, one at a time and in any order. A restart lists anew.
* `RunCacheStore` is one run of the CacheStore handler; `NewCacheStore` lists
  what the cluster holds before and after each of the three creations, so that
  `NewStoreRuns` can stop at a refused or failed call (with or without effect)
  and `CrashInCacheStore` between any two. `InstallInfinispan` is an
  administrator.
* `CreateService` does everything after the lookup of the service: `Ensured` is
  `EnsureObject` with a lagging cache, `ServiceTries`, `ExternalTries` and
  `RouteTries` the services and the route with its bounded wait, `Told` what the
  handler writes to the status (`Error` is overwritten). `IssueCertificate` is
  OpenShift's service CA. `PrometheusMonitor` runs in every reconciliation,
  whatever the phase.
* `Provisioning` runs these with the builder image over the same store, cache
  and restarts; `Initialize`, the service image and the Deployment stay the
  choices of `Reconciler` there.
* In `Maven`, `ParseGAV` is the regular expression with its colons counted,
  `AddDependency` the first-mention rule, `GenerateVdbPom` the project of a
  resource and, with `all`, of the builder image; `NewRepository` reads the
  instructions after the `@` of a URL. Where Go ranges over the map of connection
  factories, the constant `FactoryOrder` is the order it takes.
* `Payload` has one step per request to a repository: `TryMetadata` is one
  iteration of `getSnapshotVersion`, `TryArtifact` one of `DownloadDependency`,
  each over the repositories not yet asked in any order. `Publish`, `Outage` and
  `Restore` are the repositories' owners. `UnzipAndRead` unpacks over what is
  there, reads, and goes on with the payload (`BuildWith`) or the environment of
  the pods (`DeployWith`). `Restart` empties `/tmp`.

Abstractions. A text (DDL, Maven coordinate, OpenAPI document with the
dependencies, build and runtime environment) is a sequence of numbers; the digest is the
concatenation the code hashes, SHA-256 being taken as free of collisions. A
version is `0` for `""`, a positive number for a numeral, `-1` for any other
string. Failure messages are kept apart only by cause. Routes and the cache
store are booleans in the status, and objects in `objs`. A random password is
one that no object has. The phase `""` is called `Initial`. The phase
`Deleting` is never set by the code and is left out. `Return`, `Fail` and the
`(mutant)` operators model no state; the latter are the faulty variants each
property is known to detect.

## Runs

| Run | Checks | Shows |
|---|---|---|
| `Reconciler` | `TypeOK`, `NoLostWakeup`, `ConsoleLinkRemoved`, `VersionNamesOneSource`, `ImplementsLifecycle` | the loop, with three user writes, one failed call or lost answer and one restart; exactly one version increment per change of a DDL |
| `ReconcilerUnruly` | `ImplementsLifecycle`, `DigestConverges`, `OperatorStaysUp` | the same refinement, that the last edit is noticed, and that nothing panics unless a replace drops the replicas, with unreadable or missing configuration, failing exposure, bad names and Maven sources, and one of an edit, a deletion, a replace without replicas and the panic it causes, a failed call, a restart, a broken watch |
| `ServiceBuild` | `SBTypeOK`, `UndisturbedImageMatchesDigest`, `BuildRequestedOnce`, `BuildPhaseEnds`, `ImplementsReconciler` | edits, deletion and recreation before garbage collection; failing calls, a crash at any call, unbuildable sources, a vanished builder tag; the wait for the service image ends |
| `BuilderImage` | `BuilderImageExists`, `BuilderBuiltOnce`, `BuilderImplementsReconciler` | two resources race for the shared image; a failing build, a crash at any call |
| `Provisioning` | `OwnedTypeOK`, `PasswordsAgree`, `RecordedStoreExists`, `ServiceOrFailure`, `RecordedRouteExists`, `MountedKeystoreExists`, `ProvisioningImplementsReconciler` | one resource, created, deleted and recreated while the garbage collector takes its time; a failing or lost call or a crash between two creations, or secrets the user has provided |
| `ProvisioningFair` | `ServiceOrFailure`, `BuilderPhaseEnds`, `CertificateWaitEnds`, `MonitorStays` | a service cache that lags, a failing builder build, a predecessor's objects: the waits end, although errors are dropped, and the monitor comes to stay |
| `Payload` | `ImageOfTheArtifactNamed`, `NoSpuriousFailure`, `PodsFitImage`, `UserVersionsWin`, `BuilderHasAll`, `SettingsObeyed` | DDL in the resource, a release, a snapshot and a fat jar, three repositories, an edit, an outage, a restart or a failing read |
| `Deployment` | `DTypeOK`, `EnvironmentAsAsked`, `DeploymentOfTheImage`, `SpecReachesDeployment`, `ImageReachesPods`, `DeploymentSettles`, `DeploymentImplementsReconciler` | an edit of source, environment and replicas, a refused data source, an edited ConfigMap, a replace without replicas and the panics it causes, a failing or lost update, a restart, stopped rollouts: the Deployment and its pods get to what the spec asks for and stay there, and on the way no environment is written that a copy did not ask for, and none is deployed with another source's image |

`Provisioning` has one source, so nothing is edited there; `ProvisioningFair` has
two.

Several properties have exceptions, each of them a case that TLC found, or that
a proof attempt came upon outside the instances TLC explores:

* `BuildPhaseEnds`: a resource recreated before the garbage collector ran adopts
  the BuildConfig of its predecessor, the collector then removes it with its
  builds, and the monitor waits for a build nobody will request; so it does
  when a failed call or a crash left no build at all.
* `ServiceOrFailure`, `RecordedRouteExists` and `MountedKeystoreExists` are about
  the first resource of a name: a later one may take its predecessor's service,
  route or keystore for its own, and nothing restores them once they are
  collected. The monitor is restored
  (`MonitorStays`), and the cache store is never taken over
  (`RecordedStoreExists`), because its creation is refused.
* `CertificateWaitEnds`: no certificate is issued when the service is gone or
  does not ask for one (a user's secret `n` prevents it, while the handler waits
  for `n-certificates`).
* `PodsFitImage`: another snapshot may be published between the fetch for the
  image and the fetch for the pods; and an archive without a DDL is given
  whatever was unpacked last.
* `ImageOfTheArtifactNamed`: an archive without a DDL is given that of an
  earlier archive.
* `NoSpuriousFailure`: `getSnapshotVersion` looks for the type of an artifact and
  not for its classifier, so two snapshots that differ in the classifier alone
  may be given each other's time stamp.
* `UndisturbedImageMatchesDigest`: a source no payload can be made of has its
  digest recorded before that turns out. If the write of the failure meets a
  conflict, or the resource is recreated, the next run finds nothing to build and
  takes the previous source's image (`BadDigests`).
* `OperatorStaysUp` and `SpecReachesDeployment`: a replace may drop the number of
  replicas from a running resource; `ensureReplicas` then panics before it writes
  anything, and again after every restart. The run `Deployment` has such
  replaces, and without the exception TLC finds `SpecReachesDeployment` violated
  by the endless restarts. A replace that changes the source as well
  is covered: Initialize supplies the number.
* `BuildRequestedOnce` is about the resource that owns the BuildConfig: one
  recreated under the same name counts its versions from the beginning.

Four runs show a disagreement between the code and what the repository says of
it; each is a finding in `PROJECT.json`:

* `ReconcilerRelist`: a watch that breaks while a resource is deleted and
  recreated delivers both as one update; with generation and phase unchanged
  the filter drops it, and the write does not "auto-queue".
* `ServiceBuildStale`: DIGEST is recorded before the build is requested; a
  crash in between leaves the previous source's image in service under the new
  digest.
* `BuilderImageRetry`: a resource that requests the retry of a failed builder
  build is declared failed by the old build while the new one waits.
* `DeploymentConfig`: the environment that `ensureReplicas` builds never equals
  the stored one, because the API server sets the `apiVersion` of its field
  references; it therefore never gets to "see if any of the secrets or
  configmaps changed", and pods keep the old values.

### Bounds

`MaxEdits` counts creations, edits and deletions: three allow
create-edit-edit, create-delete-create and create-edit-delete, which are the
shapes the hazards need (an edit behind a stale copy, a recreation under the
same name). One fault and one crash suffice to separate any two calls.
`MaxRelists` and `MaxReplaces` are 0 where a run is not about them. `MaxBuilds`
caps the list of builder builds: it grows by one for each failed build per
attempt, and an attempt on a stale copy can be repeated without limit; at the
cap a request is taken to be absorbed. `BuilderAssumption` keeps it below ten,
where the order of names is the order of numbers. `BuilderImage` follows
resources only up to the finished builder image (constraint `UpToBuilder`): the
later phases do not touch its state. One VDB is enough where resources share
nothing but the worker; `BuilderImage` has two. `ReconcilerUnruly` allows one
disturbance after the creation (constraint `OneDisturbance`) in exchange for all
the ways its handlers can end. `ServiceBuild` allows one of a failed call, a
vanished tag and a crash (its own `OneDisturbance`) and follows resources up to
the service image (`UpToImage`). `MCDeployment` bounds the sum of
disturbances (constraint `TwoDisturbances`): after the creation, two of an edit,
a deletion, a change of configuration and a failing call, or one replace or
restart. A replace may submit a spec without a number of replicas, with the same
source or another. `TrustedGeneration`, 4 in the code, is 2 there, so that rollouts stop
before and after it. The instance has a Jaeger, a cache store that may or may
not be there, a cluster-wide `NO_PROXY` (one Java property, hence one order: with
two, `DeploymentSettles` fails, see the hazard at `default_envs.go:34`), and a
user environment that overrides a data source and all field references, which
is the only way to reach the comparison of the configuration digest.
`VersionNamesOneSource` is checked for DDL sources only; a Maven version that is
not a numeral breaks it (hazard at `updater.go:44`).

In `MCProvisioning` three user writes allow create, delete and recreate.
`OneDisturbance` leaves room for one failed or lost call (`MaxOwnedFaults`),
failed builder build, crash or set of secrets provided by the user; with it
there is no recreation, and without it there is. `NoDeadEnds` stops where a
service image or a rollout failed, which this module does not follow;
`InfinispanFirst` has the Infinispan operator installed before the phase that
asks for it is over (later it makes no difference). `NoOwnedEvents` drops the
wakeups caused by owned objects: without them progress hangs on writes and
timers alone, which is the harder case. `CollectedFromTheEnds` lets the garbage
collector take the oldest or the newest leftover first, never one from the
middle. `Provisioning` has no lagging cache; `ProvisioningFair` has one for the
service, whose existence decides everything else, and its third write only
recreates (`ThenRecreated`). In `MCPayload` two publications allow a snapshot to
be replaced during a download, and with three repositories, one of them
customized with instructions, the two loops can disagree. `OneDisturbance`
allows one edit (`MaxEdits`), outage (`MaxOutages`), restart (`MaxRestarts`) or
failing read; `WhileInUse` has artifacts published only of what the resource
asks for and repositories fail only while they are used. Liveness is checked
within these constraints: a behaviour that leaves them is not followed.

Deadlock is not checked because the system may stop: with every resource
deleted and the bounds used up, nothing is left to do.

### Fairness

Weak fairness for watch deliveries, timers, the running handler and its write:
these are goroutines and servers that run when they can. Strong fairness for
taking a name from the work queue: it is first in, first out, and the worker is
not always idle. `ServiceBuild` and `BuilderImage` add that a build under way
ends (OpenShift bounds builds) and that the import of the base image succeeds;
without these the code waits for ever. `Deployment` adds that the pods of a
template become available in the end; its properties about pods need that.
`ProvisioningFair` adds that caches catch up (informers run all the time) and
that the service CA issues the certificates it is asked for; nothing is assumed
of the garbage collector.
Nothing is assumed of users, of faults,
of crashes, of events of owned objects, or of the outcome of a build.

## Proofs

All theorems hold for every set of resources, every set of user specs and every
value of the bounds, under the named assumptions: `VdbAssumption` (texts are
sequences, the digests include the empty one), `ReconcilerAssumption` (users
submit specs; the value for "no object" is not an object; bounds are numbers)
and, for `BuilderProofs`, `BuilderAssumption`, for `DeploymentProofs`,
`DeploymentAssumption` (a digest exists for every revision and environment; the
spec's variables and data sources are lists of such), `WordsAssumption` and
`ProxyAssumption` (the operator's own words are words; its environment has each
proxy variable at most once), for
`ProvisioningProofs`, besides that of the builder, `OwnedAssumption`,
`CacheStoreAssumption` and `ExposureAssumption` (the kinds of objects; every
OpenShift cluster has routes, and a creation may fail), for `BuildProofs`,
`ServiceBuildAssumption` (the value for "no BuildConfig" is not one), and for
`PayloadProofs`, `FactoryAssumption` (the loop over the connection factories
visits each of them) and `PayloadAssumption` (every repository has a URL; only
the classifier of a documented coordinate may be empty; no two snapshots have
the same time stamp; a resource has a DDL or names an artifact).

* `TypesHold`, `TypeCorrect`: `Spec => []TypeOK`, strengthened with
  `HandlesPhase` (the worker runs a handler only on a phase that handler
  accepts), without which `CASE` in the outcomes would leave its domain. One
  lemma per handler shows that its results are resources.
* `NoWakeupIsLost`: `MaxRelists = 0` implies `Spec => []NoLostWakeup`. The
  property says that *some* pending event enqueues, which is not inductive. The
  invariant `WakeupInv` says that *every* pending event passes the filter
  (`EventsPass`: consecutive versions differ in generation, or one is absent),
  that the last one is the stored version (`WatchInSync`), and that a resource
  with no pending event is queued, timed or worked on. The hypothesis is
  necessary: `ReconcilerRelist` violates the property without it.
* `LoopImplementsLifecycle`: `Spec => ImplementsLifecycle`. The invariant
  `RefInv` says that every copy (cache, watch, worker) with the current
  `resourceVersion` *is* the stored object (`CopiesOK`) and that the worker's
  target is the redeployment, or a handler's result, for its own copy
  (`WorkerOK`). The version check then turns a write into a step of
  `Lifecycle`, and a rejected one into a stutter.
* `ServiceBuildImplementsReconciler` and `BuilderImageImplementsReconciler`:
  the detailed handlers return only results `Reconciler` allows, so the
  theorems above carry over to them. The second needs that the list of builds
  is well typed and that a non-empty set of build numbers has a last one.
* `DeploymentRefines`: the same of the Deployment action. `ensureReplicas`
  records a digest it computed, which `Reconciler` allows only if it is one of
  the known digests; hence the invariant `DInv`, the types of `Reconciler` and
  of `config`, which every step keeps because it is a step of `Reconciler`.
* `ProvisioningRefines`: the composition of cache store, builder image,
  services, certificates and monitor implements `Reconciler`, so that types,
  wakeups and the life cycle hold of it too. The invariant `PInv` has the types
  of `Reconciler`, the well-typed list of builds, and `IspnOK`: Infinispan is
  deployed only in a cluster that may have it. The last is what makes a recorded
  cache store one that `Reconciler` allows; the types are kept because every
  step is one of `Reconciler`. There is one lemma per handler
  (`CacheStoreRefines`, `CreateServiceRefines`, ...).
* `BuiltOnce`: `BISpec => []BuilderBuiltOnce`, with the invariant `BuilderInv`:
  requests only append, a failed build stays failed, and `Requested` is 0 while
  there is a build and none failed.

* `LinksAreRemoved`: `Spec => []ConsoleLinkRemoved`. The property is about
  the time when the operator has nothing more to do; the invariant `ConsoleInv`
  says that the watch is in sync with the store and that every name the cache shows as
  missing is queued, or has no link and nobody working on it (`LinkInv`). Only
  with both is the link of a handler that was overtaken by the deletion removed.
* `StaysUp`: `Spec => OperatorStaysUp`, from `ReplicasKnown`, that every copy of a
  resource past its initialization has a number of replicas, as long as there
  was no replace. `LinksAreRemoved` needs it too.
* `VersionsNameSources`: `VSpec => []VersionNamesOneSource`, if every user spec
  is `Counted`: a DDL that names no version, so that the number is the operator's
  to choose. The hypothesis is necessary (hazard at `updater.go:44`). The
  invariant `VersionInv` says that no deployed version exceeds the one in the
  status, and that the one in the status goes with the digest in the status.
* `BuildsTyped`: `SBSpec => []SBTypeOK`, together with "no builds without a
  BuildConfig".
* `VersionsBuiltOnce`: `SBSpec => []BuildRequestedOnce`, under the same
  hypothesis. The difficulty is that the handler runs on stale copies. `Line`
  says in which order the copies of a resource may be: the versions not yet
  delivered carry the status of the stored one, since the operator writes it
  only after it has seen everything before it. `OnceInv` adds that versions grow
  from copy to copy (`CopiesCount`), that no build is of a later version than
  *any* copy, and that if the last build is of a copy's version, DIGEST is that
  copy's digest (`Covered`): then a run on whatever copy finds nothing to build.
* `UndisturbedImagesMatch`: `SBSpec => []UndisturbedImageMatchesDigest`. The
  invariant `ImageInv` has `Line` again; `CopiesBehind`, that a copy from before
  the request of the build is of the same source as the stored one, and that
  none is left when the image is ready; and `Promises`, that the last build is
  of the source DIGEST names and that what the stored status, or the status
  about to be written, says of the build is so.
* `NobodyPassesWithoutImage`: `BISpec => []BuilderImageExists`. The invariant
  adds that what the worker is about to report has happened (`Reported`), and
  rests on builds being appended and never lost.
* `DeploymentTypes`: `DSpec => []DTypeOK`, with the invariant `DTypes` (`DInv` and
  `DTypeOK`). It rests on the lists of variables: what a merge, the resolution of
  the data sources and the API server's defaults return is again a list of
  variables.
* `WritesWhatIsAsked`: `DSpec => EnvironmentAsAsked`, for lists of any length, any
  user environment, proxy and data sources. The lemmas say that merging two lists
  by `AddMissing` means the same as writing one after the other and letting the
  first of a name count (`SameMeaning`), and merging by `SetAll` the same with
  the second list reversed and first. Each is shown by least counterexample over
  the `Stages`: if a stage were wrong there would be a first wrong one
  (`LeastNatural`), whose predecessor is right. The four merges of
  `deploymentEnvironments` and the proxy that `buildDeployment` adds again come
  out as the concatenation of `Wanted`.
* `DeploysTheImage`: `DSpec => []DeploymentOfTheImage`. The handler that writes a
  Deployment runs on a copy, and `name:latest` is what a finished build left, for
  whatever source that was. `DeployedInv` has `Line` and `CopiesBehind`, as for
  the service image: when a source is redeployed every copy that could still
  deploy an earlier one is refused by the version check before its result
  counts. To them it adds `Matching`: from the phase in which the image is ready
  on, the digest in the stored status is that of `image[v]`, the status about to
  be written agrees with it, and once the resource is deploying so does the
  Deployment that is there, a predecessor's included.
* `OwnedObjectsTyped`, and with it the five invariants of `Provisioning`. All
  rest on the uids: a new one is larger than any that a copy or an owner
  reference still holds (`CopiesAged`, `OwnersAged`), so that nothing left behind
  can pass for one's own.
  * `PasswordsAlwaysAgree`: `CredentialsPaired`, credentials of a living owner
    exist only next to the identity of that owner with the same password.
  * `RecordedStoresExist`: `StoreInv`, what the worker is about to record was
    created for that very uid, and the collector leaves it alone while that
    resource lives.
  * `ServicesExistOrFailureIsTold`, `RecordedRoutesExist` and
    `MountedKeystoresExist`: `ExposedInv`, what the worker is about to tell is
    so, and of a resource never deleted the cache shows no service, route or
    keystore that is gone (`NothingLost`).
* `ImagesAreOfTheArtifactNamed`, `PodsAlwaysFitTheImage` and
  `SettingsAlwaysObeyed`, for any repositories, artifacts and resources, from
  `PayloadInv`: what the downloaded file, the unpacked directory and the call
  under way have to do with the coordinate they were made for.
* `NoDownloadFailsSpuriously`: `FetchInv` says that while a loop goes on, a
  repository that will answer is among those not yet asked.
* `UserVersionsAlwaysWin` and `BuilderAlwaysHasAll`, for dependency lists of any
  length. `AddDependencies` is a fold, and what it computes is shown by least
  counterexample: if a stage of the fold were wrong there would be a first wrong
  one (`LeastNatural`), whose predecessor is right. `PomInv` carries the result
  to the images that are built.

The lemmas about `Line` and `CopiesBehind` are in `RefinementProofs`; `BuildProofs`,
`VersionProofs` and `DeploymentProofs` build on them.

With these, every invariant, every action property and every refinement that a
passing run checks is also proved. The liveness
properties (`DigestConverges`, `BuildPhaseEnds`, `BuilderPhaseEnds`,
`CertificateWaitEnds`, `MonitorStays`, `SpecReachesDeployment`,
`ImageReachesPods`, `DeploymentSettles`) are out of the prover's reach and stay
with TLC.

## Plan

Done, in order: the resource and the loop; its life cycle and refinement;
versions; the service build; the builder image; the Deployment with its
environment; owned objects, cache store, exposure, certificates and monitor, and
their composition with the builder image; the payload and its Maven sources;
proofs of types, wakeups, all four refinements of the loop, the single builder
build, console links, versions, the service image, owned objects, the payload,
and the Deployment's environment and image. Nothing is left to prove but
liveness, which the prover cannot reach; the hazards without a property are
those `PROJECT.json` gives a reason for.

## Not modelled

The layout of documents (the XML of projects and settings, plugins included,
`application.properties`, `prometheus-config.yml`, archives), the DDL tokenizer,
keystore encoding, the console's YAML samples, the Jaeger client, logging, the
process start-up in `src/cmd/manager/main.go`, and generated code: none of them
keeps state or decides the order of steps. Their results, where control depends
on them, are constants or choices (`SourceTypes`, `BadNames`, a call that may
fail). Functions used nowhere in the operator (`maven.Run`,
`CacheStoreListener`, most of `src/pkg/util/util.go`) are left out. Namespaces
are left out: all resources are in one, so the ambiguous name of a console link
(hazard at `webconsole.go:80`) does not arise. Several operator replicas at once
are excluded by leader election. Reordered or lost watch events do not occur within one watch;
a broken watch is `Relist`.
