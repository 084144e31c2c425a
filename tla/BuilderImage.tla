---------------------------- MODULE BuilderImage -----------------------------
(***************************************************************************)
(* The S2IBuilderImage action in full.  Every VirtualDatabase of the       *)
(* namespace is built on one builder image, made by one BuildConfig that   *)
(* they share: whoever comes first requests its build, and the others wait *)
(* for it.  Everything else is as in Reconciler.                           *)
(***************************************************************************)
EXTENDS Reconciler, OpenShiftBuilds, FiniteSets

CONSTANTS
    MaxBuilds,         \* bound: builds of the builder image; further requests
                       \* are taken to be absorbed by those already waiting
    MaxBuilderFaults   \* bound: calls of this handler that fail

\* Up to nine builds, the order of their names is that of their numbers.
ASSUME BuilderAssumption == MaxBuilds \in 1..9 /\ MaxBuilderFaults \in Nat

VARIABLES
    builder,           \* the builds of the builder image, by build number
    baseImage,         \* has the tag of the S2I base image been imported?
    builderFaults      \* how much of MaxBuilderFaults has been used

builderVars == <<builder, baseImage, builderFaults>>
biVars == <<vars, builderVars>>

BIInit == Init /\ builder = <<>> /\ baseImage = FALSE /\ builderFaults = 0

-----------------------------------------------------------------------------
(* The handler.                                                             *)

FailedBuilds(bs) == {i \in 1..Len(bs) : bs[i].phase = "Failed"}

\* (mutant) the build is requested without looking at LastVersion
RequestedAlways(bs) == 1

\* how many builds are requested: the first, or one for each failed build
Requested(bs) == IF bs = <<>> THEN 1 ELSE Cardinality(FailedBuilds(bs))

Request(n) ==
    LET room == MaxBuilds - Len(builder)
        made == IF n <= room THEN n ELSE room
    IN  builder' = builder \o [i \in 1..made |-> [phase |-> "New"]]

\* a call of the chain fails after n builds have been requested
FailsAfter(n) ==
    /\ n = 0 \/ baseImage
    /\ Request(n)
    /\ builderFaults < MaxBuilderFaults
    /\ builderFaults' = builderFaults + 1

BuildBuilderImage ==
    LET t == worker.inst.obj
    IN  /\ AtStep("S2IBuilderImage")
        /\ t.status.phase = S2IReady
        /\ \/ /\ baseImage
              /\ Request(Requested(builder))
              /\ Handled(Return(InPhase(t, BuilderImage)))
              /\ UNCHANGED builderFaults
           \/ /\ \/ ~baseImage /\ UNCHANGED <<builder, builderFaults>>
                 \/ \E n \in 0..Requested(builder) : FailsAfter(n)
              /\ Handled(Fail(t))
        /\ UNCHANGED <<baseImage, consoleLinks>>

\* the operator crashes somewhere along the chain
CrashInBuilder ==
    /\ AtStep("S2IBuilderImage")
    /\ worker.inst.obj.status.phase = S2IReady
    /\ baseImage
    /\ \E n \in 0..Requested(builder) : Request(n)
    /\ Crash
    /\ UNCHANGED <<baseImage, builderFaults>>

\* (mutants) any list of builds will do; a failed build is not noticed
PhaseOfBuilderAny(bs) == BuilderImageFinished
PhaseOfBuilderComplete(bs) ==
    IF \E i \in 1..Len(bs) : bs[i].phase = "Complete"
    THEN BuilderImageFinished ELSE BuilderImage
\* (mutant) a failed build is reported as an Error
PhaseOfBuilderError(bs) ==
    IF FailedBuilds(bs) # {} THEN Error ELSE PhaseOfBuilderComplete(bs)

\* the phase after the loop over all builds: the last one that has started
\* decides, and one that is New decides nothing
PhaseOfBuilder(bs) ==
    LET started == {i \in 1..Len(bs) : bs[i].phase # "New"}
        last == CHOOSE i \in started : \A j \in started : j <= i
    IN  IF started = {} THEN BuilderImage
        ELSE CASE bs[last].phase = "Complete" -> BuilderImageFinished
               [] bs[last].phase = "Failed"   -> BuilderImageFailed
               [] bs[last].phase = "Running"  -> BuilderImage

MonitorBuilderImage ==
    LET t == worker.inst.obj
    IN  /\ AtStep("S2IBuilderImage")
        /\ t.status.phase = BuilderImage
        /\ \/ /\ Handled(Return(InPhase(t, PhaseOfBuilder(builder))))
              /\ UNCHANGED <<builder, builderFaults>>
           \/ /\ Handled(Fail(t))
              /\ FailsAfter(0)
        /\ UNCHANGED <<baseImage, consoleLinks>>

-----------------------------------------------------------------------------
(* OpenShift.                                                               *)

BuilderMoves(p) ==
    /\ MayMove(builder, p)
    /\ builder' = Moved(builder, p)
    /\ UNCHANGED <<vars, baseImage, builderFaults>>

\* the import of the base image from its registry is over
ImportBaseImage ==
    /\ ~baseImage
    /\ baseImage' = TRUE
    /\ UNCHANGED <<vars, builder, builderFaults>>

-----------------------------------------------------------------------------
AfterBuilder ==
    \/ HandleInitialize \/ HandleCacheStore \/ HandleServiceImage
    \/ HandleCreateService \/ HandleCreateCertificate
    \/ HandleDeployment \/ HandlePrometheusMonitor

BINext ==
    \/ (Loop \/ AfterBuilder) /\ UNCHANGED builderVars
    \/ BuildBuilderImage
    \/ CrashInBuilder
    \/ MonitorBuilderImage
    \/ \E p \in BuildPhases : BuilderMoves(p)
    \/ ImportBaseImage

BISpec == BIInit /\ [][BINext]_biVars

(* Builds end, and the import of the base image succeeds.                   *)
BIFairness ==
    /\ \A v \in VDBs :
          /\ WF_biVars(Deliver(v) /\ UNCHANGED builderVars)
          /\ WF_biVars(DelayOver(v) /\ UNCHANGED builderVars)
          /\ SF_biVars(Reconcile(v) /\ UNCHANGED builderVars)
    /\ WF_biVars(\/ (AfterBuilder \/ HandlerPanics) /\ UNCHANGED builderVars
                 \/ BuildBuilderImage \/ MonitorBuilderImage)
    /\ WF_biVars((UpdateSucceeds \/ UpdateRejected) /\ UNCHANGED builderVars)
    /\ WF_biVars(\E p \in BuildPhases : BuilderMoves(p))
    /\ WF_biVars(ImportBaseImage)

BIFairSpec == BISpec /\ BIFairness

-----------------------------------------------------------------------------
(* Properties.                                                              *)

\* phases a VirtualDatabase reaches only with a builder image
PastBuilder == {BuilderImageFinished, ServiceImage, ServiceImageFinished,
                ServiceImageFailed, ServiceCreated, KeystoreCreated,
                Deploying, Running, Error}

\* No VirtualDatabase goes on to its service image before the builder image
\* exists: the phase is computed from a list of builds that belongs to all of
\* them, most of which some other VirtualDatabase requested.
BuilderImageExists ==
    \A v \in VDBs :
        store[v] # NoVdb /\ store[v].obj.status.phase \in PastBuilder =>
            \E i \in 1..Len(builder) : builder[i].phase = "Complete"

\* However many VirtualDatabases start at once, and whatever answers and
\* restarts are lost in between, the builder image is built once, unless its
\* build failed: nothing but LastVersion keeps a second request back.
BuilderBuiltOnce == FailedBuilds(builder) = {} => Len(builder) <= 1

\* A VirtualDatabase does not wait for the builder image for ever: the
\* handler's errors, which Reconcile drops, are retried until it is built,
\* and a build that another one requested is noticed too.
BuilderPhaseEnds ==
    \A v \in VDBs :
        (store[v] # NoVdb /\ store[v].obj.status.phase \in {S2IReady, BuilderImage}) ~>
        (store[v] = NoVdb \/ store[v].obj.status.phase \notin {S2IReady, BuilderImage})

\* "if in case nay previous build failed try again": a VirtualDatabase is
\* declared failed only once the builds that were requested have ended.
RetryDecides ==
    [][\A v \in VDBs :
          /\ store[v] # NoVdb /\ store'[v] # NoVdb
          /\ store[v].obj.status.phase = BuilderImage
          /\ store'[v].obj.status.phase = BuilderImageFailed
          => ~Building(builder)]_biVars

\* With its own calls and builds, the handler does what Reconciler lets the
\* S2IBuilderImage action do, and nothing else.
BuilderImplementsReconciler == Spec
=============================================================================
