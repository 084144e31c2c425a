--------------------------- MODULE VirtualDatabase ---------------------------
(***************************************************************************)
(* The VirtualDatabase custom resource and the part of the operator that   *)
(* is a function of that resource alone: its phases, the digest of its     *)
(* source, the redeployment it undergoes when that digest changes, and,    *)
(* for every action of the reconcile loop, the set of results its Handle   *)
(* may return.                                                             *)
(*                                                                         *)
(* What a handler finds in the cluster (builds, secrets, deployments) is   *)
(* abstracted to a choice between its possible results; the modules that   *)
(* refine Reconciler replace that choice by the handler's own code.        *)
(***************************************************************************)
EXTENDS Integers, Sequences

CONSTANTS
    Text,            \* bodies of text a source is made of, <<>> being none
    GavVersion,      \* Text -> version in a Maven coordinate, 0: not a GAV
    ConfigDigests,   \* digests of the ConfigMaps and Secrets a VDB reads
    NoConfigDigest,  \* Status.ConfigDigest = ""
    Conditions       \* what specs ask for and clusters confront handlers with

(***************************************************************************)
(* A version is an integer: 0 stands for "", a positive number for its own *)
(* numeral and -1 for any other string, such as the Maven version 1.0-x.   *)
(***************************************************************************)
NoVersion == 0
Version   == {-1} \cup Nat

ASSUME VdbAssumption ==
    /\ Text \subseteq Seq(Nat)
    /\ GavVersion \in [Text -> Version]
    /\ NoConfigDigest \in ConfigDigests
    /\ Conditions \subseteq {"config missing", "config unreadable",
                             "infinispan", "route", "expose fails"}

-----------------------------------------------------------------------------
(* The phases of a VirtualDatabase, in the order a deployment visits them.  *)

Initial              == "Initial"
CreateCacheStore     == "Creating Cache Store"
S2IReady             == "Ready For S2I"
BuilderImage         == "Building Base Builder Image"
BuilderImageFinished == "Builder Image Finished"
BuilderImageFailed   == "Builder Image Failed"
ServiceImage         == "Building Service Image"
ServiceImageFinished == "Service Image Finished"
ServiceImageFailed   == "Service Image Failed"
ServiceCreated       == "Service Created"
KeystoreCreated      == "Keystore Created"
Deploying            == "Deploying"
Running              == "Running"
Error                == "Error"

Phases == {Initial, CreateCacheStore, S2IReady, BuilderImage,
           BuilderImageFinished, BuilderImageFailed, ServiceImage,
           ServiceImageFinished, ServiceImageFailed, ServiceCreated,
           KeystoreCreated, Deploying, Running, Error}

\* the phases from the end of the image build on
ImageReady == {ServiceImageFinished, ServiceCreated, KeystoreCreated,
               Deploying, Running}

\* Status.Failure, by what the message reports: the names in Spec.Env, a
\* missing ConfigMap or Secret, the service image, a service or route
Failures == {"", "env", "config", "build", "expose"}

NoReplicas == -1     \* Spec.Replicas = nil; 0 is a legal number of replicas

ExposeTypes == {"LoadBalancer", "NodePort", "Route", "ExposeVia3scale"}

\* openapi stands for the OpenAPI document and the dependencies; buildEnv for
\* Spec.Build.Env and env for Spec.Env, whose names are legal if validEnv.
VdbSpec == [ddl : Text, maven : Text, openapi : Text, buildEnv : Text,
            env : Text, version : Version, replicas : {NoReplicas} \cup Nat,
            validEnv : BOOLEAN, expose : Seq(ExposeTypes)]

Digest == Seq(Nat)   \* <<>> stands for Status.Digest = ""

VdbStatus == [phase : Phases, digest : Digest, version : Version,
              failure : Failures, configDigest : ConfigDigests,
              cacheStore : BOOLEAN, route : BOOLEAN]

Vdb == [spec : VdbSpec, status : VdbStatus]

\* the resource as its user creates it: no status
NewVdb(s) ==
    [spec   |-> s,
     status |-> [phase |-> Initial, digest |-> <<>>, version |-> NoVersion,
                 failure |-> "", configDigest |-> NoConfigDigest,
                 cacheStore |-> FALSE, route |-> FALSE]]

-----------------------------------------------------------------------------
OperatorVersion == <<0>>

\* The hash is taken of the fields' concatenation; SHA-256 is taken to have
\* no collisions, so the digest is the concatenation itself.
ComputeForVirtualDatabase(s) ==
    OperatorVersion \o s.ddl \o s.maven \o s.openapi

IsVdbUpdated(t) == ComputeForVirtualDatabase(t.spec) # t.status.digest

\* strconv.Atoi fails on "" and on a version that is not a numeral
IsNumeral(ver) == ver > 0

ImplicitVersion(t) == t.spec.ddl # <<>> /\ t.spec.version = NoVersion

\* (mutant) a redeployment that keeps the version
RedeployVdbSameVersion(t) ==
    [t EXCEPT !.status.phase  = Initial,
              !.status.digest = ComputeForVirtualDatabase(t.spec)]

RedeployVdb(t) ==
    [t EXCEPT !.status.phase   = Initial,
              !.status.digest  = ComputeForVirtualDatabase(t.spec),
              !.status.version =
                  IF ImplicitVersion(t) /\ IsNumeral(@) THEN @ + 1 ELSE @]

-----------------------------------------------------------------------------
(* The actions of the reconcile loop, in the order it tries them.           *)

BuildSteps == <<"Initialize", "CacheStore", "S2IBuilderImage", "ServiceImage",
                "CreateService", "CreateCertificate", "Deployment",
                "PrometheusMonitor">>

CanHandle(a, phase) ==
    CASE a = "Initialize"        -> phase = Initial
      [] a = "CacheStore"        -> phase = CreateCacheStore
      [] a = "S2IBuilderImage"   -> phase \in {S2IReady, BuilderImage}
      [] a = "ServiceImage"      -> phase \in {BuilderImageFinished, ServiceImage}
      [] a = "CreateService"     -> phase = ServiceImageFinished
      [] a = "CreateCertificate" -> phase = ServiceCreated
      [] a = "Deployment"        -> phase \in {KeystoreCreated, Deploying, Running}
      [] a = "PrometheusMonitor" -> phase = Running

(***************************************************************************)
(* A handler returns the target it has modified and whether it returned an *)
(* error.  XOutcomes(t) is the set of results of handler X on target t.    *)
(***************************************************************************)
Outcome == [target : Vdb, err : BOOLEAN]

Return(t) == [target |-> t, err |-> FALSE]
Fail(t)   == [target |-> t, err |-> TRUE]

InPhase(t, p) == [t EXCEPT !.status.phase = p]

\* (mutant) a number of replicas is not supplied
InitVdbUncounted(t) ==
    LET s == t.spec
        implicit == IF ImplicitVersion(t) /\ t.status.version = NoVersion
                    THEN 1 ELSE t.status.version
    IN  [t EXCEPT !.status.version =
                      IF s.maven # <<>> /\ GavVersion[s.maven] # NoVersion
                      THEN GavVersion[s.maven] ELSE implicit]

\* initializeAction.init: default replicas, and the version of the deployment
InitVdb(t) ==
    LET s == t.spec
        implicit == IF ImplicitVersion(t) /\ t.status.version = NoVersion
                    THEN 1 ELSE t.status.version
    IN  [t EXCEPT !.spec.replicas  = IF @ = NoReplicas THEN 1 ELSE @,
                  !.status.version =
                      IF s.maven # <<>> /\ GavVersion[s.maven] # NoVersion
                      THEN GavVersion[s.maven] ELSE implicit]

\* the target once Initialize has found everything the resource refers to;
\* the phase advances before the digest of the configuration is computed
Initialized(t, c) ==
    [InitVdb(t) EXCEPT !.status.failure      = "",
                       !.status.phase        = CreateCacheStore,
                       !.status.digest       = ComputeForVirtualDatabase(t.spec),
                       !.status.configDigest = c]

\* the failures to find what Spec.Env and the data sources refer to
ConfigMissing == IF "config missing" \in Conditions THEN {"config"} ELSE {}

\* the digests of what they refer to; none, with an error, if a read fails
ConfigRead == IF "config unreadable" \in Conditions THEN ConfigDigests
              ELSE ConfigDigests \ {NoConfigDigest}

InitializeOutcomes(t) ==
    IF ~t.spec.validEnv
    THEN {Fail([t EXCEPT !.status.failure = "env"])}
    ELSE {Return([t EXCEPT !.status.failure = f]) : f \in ConfigMissing}
         \cup {[target |-> Initialized(t, c), err |-> c = NoConfigDigest] :
                   c \in ConfigRead}

CacheStoreOutcomes(t) ==
    {Return(InPhase([t EXCEPT !.status.cacheStore = c], S2IReady)) :
        c \in {t.status.cacheStore, t.status.cacheStore \/ "infinispan" \in Conditions}}

S2IBuilderImageOutcomes(t) ==
    {Fail(t)} \cup
    {Return(InPhase(t, p)) :
        p \in IF t.status.phase = S2IReady THEN {BuilderImage}
              ELSE {BuilderImage, BuilderImageFinished, BuilderImageFailed}}

ServiceImageOutcomes(t) ==
    IF t.status.phase = BuilderImageFinished
    THEN {Return(InPhase(t, ServiceImage)),
          Fail(InPhase([t EXCEPT !.status.failure = "build"], Error))}
    ELSE {Fail(t)} \cup
         {Return(InPhase(t, p)) :
             p \in {ServiceImage, ServiceImageFinished, ServiceImageFailed}}

\* The target after the service, the external services and the route have been
\* tried: any of them may fail, and Status.Route is set with the route, which a
\* VirtualDatabase has if it is to be exposed and the cluster has routes.
Exposed(t) ==
    LET tried == {t} \cup {[t EXCEPT !.status.failure = f] :
                              f \in IF "expose fails" \in Conditions
                                    THEN {"expose"} ELSE {}}
        routed == IF "route" \in Conditions
                  THEN {[u EXCEPT !.status.route = TRUE] : u \in tried} ELSE {}
    IN  tried \cup routed

\* every failure is recorded, and the phase is then overwritten
CreateServiceOutcomes(t) ==
    {Return(InPhase(u, ServiceCreated)) : u \in Exposed(t)}

CreateCertificateOutcomes(t) ==
    {Return(InPhase(t, KeystoreCreated)), Fail(t)}

\* a ready deployment records the digest of the configuration it runs with
Redigested(t) ==
    IF t.spec.replicas = NoReplicas THEN {t}
    ELSE {t} \cup {[t EXCEPT !.status.configDigest = c] :
                       c \in ConfigDigests \ {NoConfigDigest}}

DeploymentOutcomes(t) ==
    CASE t.status.phase = KeystoreCreated ->
             {Return(InPhase(t, Deploying)), Fail(t)}
      [] t.status.phase = Deploying ->
             {Return(InPhase(t, p)) : p \in {Deploying, Running, Error}}
      [] t.status.phase = Running ->
             {Return(u) : u \in Redigested(t)} \cup {Fail(u) : u \in Redigested(t)}

\* ensureReplicas dereferences Spec.Replicas of a ready deployment
DeploymentPanics(t) ==
    t.status.phase = Running /\ t.spec.replicas = NoReplicas

PrometheusMonitorOutcomes(t) == {Return(t), Fail(t)}

Outcomes(a, t) ==
    CASE a = "Initialize"        -> InitializeOutcomes(t)
      [] a = "CacheStore"        -> CacheStoreOutcomes(t)
      [] a = "S2IBuilderImage"   -> S2IBuilderImageOutcomes(t)
      [] a = "ServiceImage"      -> ServiceImageOutcomes(t)
      [] a = "CreateService"     -> CreateServiceOutcomes(t)
      [] a = "CreateCertificate" -> CreateCertificateOutcomes(t)
      [] a = "Deployment"        -> DeploymentOutcomes(t)
      [] a = "PrometheusMonitor" -> PrometheusMonitorOutcomes(t)
=============================================================================
