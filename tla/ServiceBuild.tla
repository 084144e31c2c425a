---------------------------- MODULE ServiceBuild -----------------------------
(***************************************************************************)
(* The ServiceImage action in full: the BuildConfig of a VirtualDatabase,  *)
(* whose DIGEST variable remembers the source last sent to be built, the   *)
(* builds OpenShift runs for it, and the handler that triggers and then    *)
(* monitors them.  Everything else is as in Reconciler.                    *)
(*                                                                         *)
(* The handler is a chain of calls, any of which may fail or be the last   *)
(* before a crash; the BuildConfig and the builds survive it, and they are *)
(* garbage-collected some time after the VirtualDatabase that owns them.   *)
(***************************************************************************)
EXTENDS Reconciler, OpenShiftBuilds

CONSTANTS
    NoBC,             \* no BuildConfig of that name
    BadSources,       \* sources no payload can be made of (bad names, bad GAV)
    MaxCallFaults,    \* bound: calls of this handler that fail
    TagMayVanish      \* may the builder's image stream tag go away?

VARIABLES
    bc,               \* VDBs -> the BuildConfig: owner, DIGEST, Build.Env
    builds,           \* VDBs -> the builds, by build number
    builderTag,       \* does the builder's image stream tag exist?
    callFaults        \* how much of MaxCallFaults has been used

buildVars == <<bc, builds, builderTag, callFaults>>
sbVars == <<vars, buildVars>>

BuildConfig == [owner : Nat, digest : Digest, env : Text]
Build == [digest : Digest, version : Version, env : Text,
          phase : BuildPhases]

ASSUME ServiceBuildAssumption == NoBC \notin BuildConfig /\ MaxCallFaults \in Nat

SBInit ==
    /\ Init
    /\ bc = [v \in VDBs |-> NoBC]
    /\ builds = [v \in VDBs |-> <<>>]
    /\ builderTag = TRUE
    /\ callFaults = 0

-----------------------------------------------------------------------------
(* The handler.                                                             *)

\* what a chain of calls leaves behind: the BuildConfig, the builds, and how
\* many of its calls failed
Chain(b, bs, f) == [bc |-> b, builds |-> bs, faults |-> f]

\* (mutant) a BuildConfig without its controller reference
NewServiceBCUnowned(inst) == [digest |-> inst.obj.status.digest,
                              env |-> inst.obj.spec.buildEnv]

NewServiceBC(inst) == [owner |-> inst.uid, digest |-> inst.obj.status.digest,
                       env |-> inst.obj.spec.buildEnv]

NewBuild(inst, b) == [digest |-> ComputeForVirtualDatabase(inst.obj.spec),
                      version |-> inst.obj.status.version,
                      env |-> b.env, phase |-> "New"]

\* bc.Status.LastVersion, which instantiating a build increments
LastVersion(bs) == Len(bs)

\* (mutants) only the first build is needed; a build is always needed
NeedsBuildFirst(inst, b, bs)  == LastVersion(bs) = 0
NeedsBuildAlways(inst, b, bs) == TRUE

NeedsBuild(inst, b, bs) ==
    \/ LastVersion(bs) = 0
    \/ b.digest # inst.obj.status.digest

NoSource(s) == s.ddl = <<>> /\ s.maven = <<>>

\* the source is in no state to be built: an error before, or after, DIGEST
\* has been recorded
BadPayload(s) == s.ddl \in BadSources \/ s.maven \in BadSources

\* The runs of buildServiceImage that return nil: DIGEST is written first,
\* then the payload is built and sent.  Without the builder's tag nothing is
\* sent, and that is only a warning.
BuildRuns(inst, b, bs) ==
    IF NoSource(inst.obj.spec) THEN {}
    ELSE LET b1 == IF b = NoBC THEN NewServiceBC(inst) ELSE b
             b2 == [b1 EXCEPT !.digest = inst.obj.status.digest]
         IN  IF ~NeedsBuild(inst, b1, bs) THEN {Chain(b1, bs, 0)}
             ELSE IF BadPayload(inst.obj.spec) THEN {}
             ELSE IF ~builderTag THEN {Chain(b2, bs, 0)}
             ELSE {Chain(b2, Append(bs, NewBuild(inst, b2)), 0)}

\* The runs that return an error: the source is bad, or a call failed, at any
\* point of the chain; the request for a build may have been obeyed.
FailedRuns(inst, b, bs) ==
    IF NoSource(inst.obj.spec) THEN {Chain(b, bs, 0)}
    ELSE LET b1 == IF b = NoBC THEN NewServiceBC(inst) ELSE b
             b2 == [b1 EXCEPT !.digest = inst.obj.status.digest]
         IN  {Chain(b, bs, 1)}
             \cup (IF ~NeedsBuild(inst, b1, bs) THEN {}
                   ELSE {Chain(b1, bs, 1), Chain(b2, bs, 1)}
                        \cup (IF BadPayload(inst.obj.spec)
                              THEN {Chain(b2, bs, 0)}
                              ELSE IF builderTag
                              THEN {Chain(b2, Append(bs, NewBuild(inst, b2)), 1)}
                              ELSE {}))

Leave(chain) ==
    /\ bc' = [bc EXCEPT ![worker.key] = chain.bc]
    /\ builds' = [builds EXCEPT ![worker.key] = chain.builds]
    /\ callFaults' = callFaults + chain.faults
    /\ callFaults' <= MaxCallFaults
    /\ UNCHANGED builderTag

BuildServiceImage ==
    LET t == worker.inst.obj
        v == worker.key
    IN  /\ AtStep("ServiceImage")
        /\ t.status.phase = BuilderImageFinished
        /\ \/ \E c \in BuildRuns(worker.inst, bc[v], builds[v]) :
                 /\ Leave(c)
                 /\ Handled(Return(InPhase(t, ServiceImage)))
           \/ \E c \in FailedRuns(worker.inst, bc[v], builds[v]) :
                 /\ Leave(c)
                 /\ Handled(Fail(InPhase([t EXCEPT !.status.failure = "build"],
                                         Error)))
        /\ UNCHANGED consoleLinks

\* the operator crashes somewhere along the chain
CrashInBuild ==
    /\ AtStep("ServiceImage")
    /\ worker.inst.obj.status.phase = BuilderImageFinished
    /\ \E c \in FailedRuns(worker.inst, bc[worker.key], builds[worker.key]) :
          /\ bc' = [bc EXCEPT ![worker.key] = c.bc]
          /\ builds' = [builds EXCEPT ![worker.key] = c.builds]
    /\ Crash
    /\ UNCHANGED <<builderTag, callFaults>>

\* (mutants) a failed build is not noticed; it is reported as an Error
PhaseOfBuildsComplete(bs) ==
    IF bs # <<>> /\ bs[Len(bs)].phase = "Complete"
    THEN ServiceImageFinished ELSE ServiceImage
PhaseOfBuildsError(bs) ==
    IF bs # <<>> /\ bs[Len(bs)].phase = "Failed"
    THEN Error ELSE PhaseOfBuildsComplete(bs)

\* the phase that the latest build, by build number, puts the VDB in
PhaseOfBuilds(bs) ==
    IF bs = <<>> THEN ServiceImage
    ELSE CASE bs[Len(bs)].phase = "Complete" -> ServiceImageFinished
           [] bs[Len(bs)].phase = "Failed"   -> ServiceImageFailed
           [] OTHER                          -> ServiceImage

MonitorServiceImage ==
    LET t == worker.inst.obj
    IN  /\ AtStep("ServiceImage")
        /\ t.status.phase = ServiceImage
        /\ \/ /\ Handled(Return(InPhase(t, PhaseOfBuilds(builds[worker.key]))))
              /\ UNCHANGED callFaults
           \/ /\ Handled(Fail(t))
              /\ callFaults < MaxCallFaults
              /\ callFaults' = callFaults + 1
        /\ UNCHANGED <<bc, builds, builderTag, consoleLinks>>

-----------------------------------------------------------------------------
(* OpenShift runs the builds and collects what has lost its owner.          *)

BuildMoves(v, p) ==
    /\ MayMove(builds[v], p)
    /\ builds' = [builds EXCEPT ![v] = Moved(builds[v], p)]
    /\ UNCHANGED <<vars, bc, builderTag, callFaults>>

\* the owner of the BuildConfig is gone, and so are the builds it owns
CollectGarbage(v) ==
    /\ bc[v] # NoBC
    /\ ~(store[v] # NoVdb /\ store[v].uid = bc[v].owner)
    /\ bc' = [bc EXCEPT ![v] = NoBC]
    /\ builds' = [builds EXCEPT ![v] = <<>>]
    /\ UNCHANGED <<vars, builderTag, callFaults>>

\* an administrator removes the builder's image stream tag
LoseBuilderTag ==
    /\ TagMayVanish
    /\ builderTag
    /\ builderTag' = FALSE
    /\ UNCHANGED <<vars, bc, builds, callFaults>>

-----------------------------------------------------------------------------
OtherHandlers ==
    \/ HandleInitialize \/ HandleCacheStore \/ HandleS2IBuilderImage
    \/ HandleCreateService \/ HandleCreateCertificate
    \/ HandleDeployment \/ HandlePrometheusMonitor

SBNext ==
    \/ (Loop \/ OtherHandlers) /\ UNCHANGED buildVars
    \/ BuildServiceImage
    \/ CrashInBuild
    \/ MonitorServiceImage
    \/ \E v \in VDBs : \/ \E p \in BuildPhases : BuildMoves(v, p)
                       \/ CollectGarbage(v)
    \/ LoseBuilderTag

SBSpec == SBInit /\ [][SBNext]_sbVars

(* A build that is under way ends: OpenShift bounds its duration.           *)
SBFairness ==
    /\ \A v \in VDBs :
          /\ WF_sbVars(Deliver(v) /\ UNCHANGED buildVars)
          /\ WF_sbVars(DelayOver(v) /\ UNCHANGED buildVars)
          /\ SF_sbVars(Reconcile(v) /\ UNCHANGED buildVars)
          /\ WF_sbVars(\E p \in BuildPhases : BuildMoves(v, p))
    /\ WF_sbVars(\/ (OtherHandlers \/ HandlerPanics) /\ UNCHANGED buildVars
                 \/ BuildServiceImage \/ MonitorServiceImage)
    /\ WF_sbVars((UpdateSucceeds \/ UpdateRejected) /\ UNCHANGED buildVars)

SBFairSpec == SBSpec /\ SBFairness

-----------------------------------------------------------------------------
(* Properties.                                                              *)

\* The BuildConfigs and the builds have the fields the operator gives them.
SBTypeOK ==
    /\ bc \in [VDBs -> BuildConfig \cup {NoBC}]
    /\ builds \in [VDBs -> Seq(Build)]
    /\ builderTag \in BOOLEAN
    /\ callFaults \in 0..MaxCallFaults

\* the image the tag "latest" names: that of the last build that completed
Completed(v) == {i \in 1..Len(builds[v]) : builds[v][i].phase = "Complete"}
LatestImage(v) == builds[v][CHOOSE i \in Completed(v) :
                                \A j \in Completed(v) : j <= i]

ImageMatches(v) ==
    /\ store[v] # NoVdb
    /\ store[v].obj.status.phase \in ImageReady
    /\ bc[v] # NoBC
    => /\ Completed(v) # {}
       /\ LatestImage(v).digest = store[v].obj.status.digest

\* A VirtualDatabase past its image build has the image of the source its
\* status names by digest.  buildServiceImage skips the build when DIGEST
\* already has that value, and the monitor trusts the latest build there is.
ImageMatchesDigest == \A v \in VDBs : ImageMatches(v)

\* a call failed, the builder's tag was lost or the operator restarted
Disturbed == callFaults > 0 \/ ~builderTag \/ spent.crashes > 0

\* the digests of the sources no payload can be made of
BadDigests ==
    {ComputeForVirtualDatabase(s) :
        s \in {x \in [ddl : Text, maven : Text, openapi : Text] : BadPayload(x)}}

\* So it is through edits, conflicts, deletion before garbage collection and
\* recreation, as long as nothing interrupts the handler between recording
\* DIGEST and requesting the build.  The exception is a source no payload can
\* be made of: DIGEST is recorded before that turns out, and if the write of
\* the failure meets a conflict, or the resource is recreated, the retry finds
\* nothing to build and takes the image of the source before.
UndisturbedImageMatchesDigest ==
    ~Disturbed => \A v \in VDBs :
        \/ store[v] # NoVdb /\ store[v].obj.status.digest \in BadDigests
        \/ ImageMatches(v)

\* No version of a VirtualDatabase is sent to be built twice, by whatever
\* retries after a conflict, a failed call, a lost answer or a crash: DIGEST is
\* recorded before the build is requested.  This is about the builds of the
\* resource that owns the BuildConfig: one recreated under the same name counts
\* its versions from the beginning, in the BuildConfig of its predecessor.
BuildRequestedOnce ==
    \A v \in VDBs :
        store[v] # NoVdb /\ bc[v] # NoBC /\ store[v].uid = bc[v].owner =>
            \A i, j \in 1..Len(builds[v]) :
                builds[v][i].version = builds[v][j].version => i = j

\* A VirtualDatabase does not stay in "Building Service Image": its build ends
\* and the monitor moves it on, or it is edited or deleted.  The exceptions are
\* one that was recreated under its old name, took over the BuildConfig of its
\* predecessor and lost it to the garbage collector, and one whose handler was
\* interrupted after DIGEST was recorded and before there was any build.
BuildPhaseEnds ==
    \A v \in VDBs :
        (store[v] # NoVdb /\ store[v].obj.status.phase = ServiceImage) ~>
        \/ store[v] = NoVdb
        \/ store[v].obj.status.phase # ServiceImage
        \/ bc[v] = NoBC
        \/ Disturbed /\ builds[v] = <<>>

\* With its own calls and builds, the handler does what Reconciler lets the
\* ServiceImage action do, and nothing else.
ImplementsReconciler == Spec
=============================================================================
