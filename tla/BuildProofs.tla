----------------------------- MODULE BuildProofs -----------------------------
(***************************************************************************)
(* ServiceBuild implements Reconciler: the chain of calls that sends a     *)
(* source to be built, and the monitor of its builds, return only results  *)
(* that Reconciler lets the ServiceImage action return.  What is proved of *)
(* Reconciler's behaviours therefore holds of ServiceBuild's.              *)
(*                                                                         *)
(* On top of that: the types of BuildConfigs and builds; that no version   *)
(* is built twice; and that the image of a VirtualDatabase past its build  *)
(* is that of the source its status names.  The last two rest on the order *)
(* of the copies of a resource, from the worker's to the stored one.       *)
(***************************************************************************)
EXTENDS ServiceBuild, RefinementProofs

\* what the latest build says is a phase the monitor may report
LEMMA PhaseOfBuildsRange ==
    \A bs : PhaseOfBuilds(bs) \in {ServiceImage, ServiceImageFinished, ServiceImageFailed}
BY DEF PhaseOfBuilds

\* buildServiceImage, whether it returns nil or an error, is a run of the
\* ServiceImage action
LEMMA BuildRefines == BuildServiceImage => HandleServiceImage
<1>. SUFFICES ASSUME BuildServiceImage PROVE HandleServiceImage
  OBVIOUS
<1>. DEFINE t == worker.inst.obj
<1>1. AtStep("ServiceImage") /\ UNCHANGED consoleLinks
  BY DEF BuildServiceImage
<1>2. t.status.phase = BuilderImageFinished
  BY DEF BuildServiceImage
<1>3. \/ Handled(Return(InPhase(t, ServiceImage)))
      \/ Handled(Fail(InPhase([t EXCEPT !.status.failure = "build"], Error)))
  BY DEF BuildServiceImage
<1>4. /\ Return(InPhase(t, ServiceImage)) \in ServiceImageOutcomes(t)
      /\ Fail(InPhase([t EXCEPT !.status.failure = "build"], Error))
             \in ServiceImageOutcomes(t)
  BY <1>2 DEF ServiceImageOutcomes
<1>5. \E o \in ServiceImageOutcomes(t) : Handled(o)
  BY <1>3, <1>4
<1>. QED
  BY <1>1, <1>5 DEF HandleServiceImage

\* so is monitorServiceImage
LEMMA MonitorRefines == MonitorServiceImage => HandleServiceImage
<1>. SUFFICES ASSUME MonitorServiceImage PROVE HandleServiceImage
  OBVIOUS
<1>. DEFINE t == worker.inst.obj
            p == PhaseOfBuilds(builds[worker.key])
<1>1. AtStep("ServiceImage") /\ UNCHANGED consoleLinks
  BY DEF MonitorServiceImage
<1>2. t.status.phase = ServiceImage
  BY DEF MonitorServiceImage
<1>3. Handled(Return(InPhase(t, p))) \/ Handled(Fail(t))
  BY DEF MonitorServiceImage
<1>4. t.status.phase # BuilderImageFinished
  BY <1>2 DEF ServiceImage, BuilderImageFinished
<1>5. Return(InPhase(t, p)) \in ServiceImageOutcomes(t)
  <2>1. p \in {ServiceImage, ServiceImageFinished, ServiceImageFailed}
    BY PhaseOfBuildsRange
  <2>. QED
    BY <1>4, <2>1 DEF ServiceImageOutcomes
<1>6. Fail(t) \in ServiceImageOutcomes(t)
  BY <1>4 DEF ServiceImageOutcomes
<1>7. \E o \in ServiceImageOutcomes(t) : Handled(o)
  BY <1>3, <1>5, <1>6
<1>. QED
  BY <1>1, <1>7 DEF HandleServiceImage

\* every step, a crash in the middle of a chain of calls included, is one of
\* Reconciler
LEMMA BuildStep == [SBNext]_sbVars => [Next]_vars
<1>. SUFFICES ASSUME [SBNext]_sbVars PROVE [Next]_vars
  OBVIOUS
<1>1. CASE UNCHANGED sbVars
  BY <1>1 DEF sbVars
<1>2. CASE Loop \/ OtherHandlers
  BY <1>2 DEF Next, OtherHandlers, Handle
<1>3. CASE BuildServiceImage
  BY <1>3, BuildRefines DEF Next, Handle
<1>4. CASE CrashInBuild
  BY <1>4 DEF CrashInBuild, Next, Loop
<1>5. CASE MonitorServiceImage
  BY <1>5, MonitorRefines DEF Next, Handle
<1>6. CASE \E v \in VDBs : \/ \E p \in BuildPhases : BuildMoves(v, p)
                           \/ CollectGarbage(v)
  BY <1>6 DEF BuildMoves, CollectGarbage
<1>7. CASE LoseBuilderTag
  BY <1>7 DEF LoseBuilderTag
<1>. QED
  BY <1>1, <1>2, <1>3, <1>4, <1>5, <1>6, <1>7 DEF SBNext

\* Every behaviour of the operator with its BuildConfigs and builds, crashes
\* in the middle of a chain of calls included, is a behaviour of Reconciler.
THEOREM ServiceBuildImplementsReconciler == SBSpec => ImplementsReconciler
<1>1. SBInit => Init
  BY DEF SBInit
<1>. QED
  BY <1>1, BuildStep, PTL DEF SBSpec, ImplementsReconciler, Spec

-----------------------------------------------------------------------------
(* What the steps do to BuildConfigs and builds.                            *)

\* the BuildConfig a chain of calls works on, and that with DIGEST recorded
Adopted(inst, b) == IF b = NoBC THEN NewServiceBC(inst) ELSE b
Noted(inst, b) == [Adopted(inst, b) EXCEPT !.digest = inst.obj.status.digest]

\* A chain of calls leaves everything as it was, or creates the BuildConfig,
\* or records DIGEST, or requests the build as well; all but the first only if
\* a build is needed.
Ran(inst, b, bs, c) ==
    \/ c.bc = b /\ c.builds = bs
    \/ /\ NeedsBuild(inst, Adopted(inst, b), bs)
       /\ \/ c.bc \in {Adopted(inst, b), Noted(inst, b)} /\ c.builds = bs
          \/ /\ c.bc = Noted(inst, b)
             /\ c.builds = Append(bs, NewBuild(inst, Noted(inst, b)))

\* the chains are such runs
LEMMA ChainsRun ==
    ASSUME NEW inst, NEW b, NEW bs \in Seq(Build), b = NoBC => bs = <<>>,
           NEW c \in BuildRuns(inst, b, bs) \cup FailedRuns(inst, b, bs)
    PROVE  Ran(inst, b, bs, c) /\ c.faults \in {0, 1}
<1>. DEFINE s == inst.obj.spec
            b1 == Adopted(inst, b)
            b2 == Noted(inst, b)
            a == Append(bs, NewBuild(inst, b2))
            need == NeedsBuild(inst, b1, bs)
<1>1. ~need => b1 = b
  <2>1. b = NoBC => Len(bs) = 0
    OBVIOUS
  <2>. QED
    BY <2>1 DEF NeedsBuild, LastVersion, Adopted
<1>2. \A x, y, f : /\ Chain(x, y, f).bc = x /\ Chain(x, y, f).builds = y
                   /\ Chain(x, y, f).faults = f
  BY DEF Chain
<1>3. CASE c \in BuildRuns(inst, b, bs)
  <2>1. \/ ~need /\ c = Chain(b1, bs, 0)
        \/ need /\ c \in {Chain(b2, bs, 0), Chain(b2, a, 0)}
    BY <1>3 DEF BuildRuns, Adopted, Noted
  <2>. HIDE DEF b1, b2, a, need
  <2>2. \/ c.bc = b /\ c.builds = bs /\ c.faults = 0
        \/ need /\ c.bc = b2 /\ c.builds \in {bs, a} /\ c.faults = 0
    BY <1>1, <1>2, <2>1
  <2>. QED
    BY <2>2 DEF b1, b2, a, need, Ran
<1>4. CASE c \in FailedRuns(inst, b, bs)
  <2>1. \/ c \in {Chain(b, bs, 0), Chain(b, bs, 1)}
        \/ need /\ c \in {Chain(b1, bs, 1), Chain(b2, bs, 1), Chain(b2, bs, 0),
                          Chain(b2, a, 1)}
    BY <1>4 DEF FailedRuns, Adopted, Noted
  <2>. HIDE DEF b1, b2, a, need
  <2>2. /\ c.faults \in {0, 1}
        /\ \/ c.bc = b /\ c.builds = bs
           \/ need /\ c.bc \in {b1, b2} /\ c.builds = bs
           \/ need /\ c.bc = b2 /\ c.builds = a
    BY <1>2, <2>1
  <2>. QED
    BY <2>2 DEF b1, b2, a, need, Ran
<1>. QED
  BY <1>3, <1>4

\* the types of what the handler makes
LEMMA MadeTypes ==
    ASSUME NEW inst \in Stored, NEW b \in BuildConfig \cup {NoBC}
    PROVE  /\ Adopted(inst, b) \in BuildConfig
           /\ Noted(inst, b) \in BuildConfig
           /\ Noted(inst, b).owner = Adopted(inst, b).owner
           /\ Noted(inst, b).digest = inst.obj.status.digest
           /\ b = NoBC => Adopted(inst, b).owner = inst.uid
           /\ NewBuild(inst, Noted(inst, b)) \in Build
<1>1. inst.obj \in Vdb /\ inst.uid \in Nat
  BY DEF Stored
<1>2. /\ inst.obj.spec \in VdbSpec /\ inst.obj.status.digest \in Digest
      /\ inst.obj.status.version \in Version /\ inst.obj.spec.buildEnv \in Text
  BY <1>1 DEF Vdb, VdbStatus, VdbSpec
<1>3. ComputeForVirtualDatabase(inst.obj.spec) \in Digest
  BY <1>2, DigestType
<1>4. NewServiceBC(inst) \in BuildConfig /\ NewServiceBC(inst).owner = inst.uid
  BY <1>1, <1>2 DEF NewServiceBC, BuildConfig
<1>5. Adopted(inst, b) \in BuildConfig
  BY <1>4 DEF Adopted
<1>6. /\ Noted(inst, b) \in BuildConfig
      /\ Noted(inst, b).owner = Adopted(inst, b).owner
      /\ Noted(inst, b).digest = inst.obj.status.digest
  BY <1>2, <1>5 DEF Noted, BuildConfig
<1>7. NewBuild(inst, Noted(inst, b)) \in Build
  BY <1>2, <1>3, <1>6 DEF NewBuild, Build, BuildConfig, BuildPhases
<1>. QED
  BY <1>4, <1>5, <1>6, <1>7 DEF Adopted

\* moving a build changes its phase, and no build that has ended
LEMMA MovedFacts ==
    ASSUME NEW bs \in Seq(Build), NEW p \in BuildPhases, MayMove(bs, p)
    PROVE  /\ Moved(bs, p) \in Seq(Build)
           /\ Len(Moved(bs, p)) = Len(bs)
           /\ \A i \in 1..Len(bs) :
                 /\ Moved(bs, p)[i].version = bs[i].version
                 /\ Moved(bs, p)[i].digest = bs[i].digest
                 /\ bs[i].phase = "Complete" => Moved(bs, p)[i].phase = "Complete"
<1>. DEFINE k == Current(bs)
            m == Moved(bs, p)
<1>1. m = [bs EXCEPT ![k].phase = p]
  BY DEF Moved
<1>2. bs[k].phase # "Complete"
  BY DEF MayMove
<1>. HIDE DEF k, m
<1>3. Len(bs) \in Nat /\ DOMAIN bs = 1..Len(bs) /\ DOMAIN m = 1..Len(bs)
  BY <1>1
<1>4. ASSUME NEW i \in 1..Len(bs)
      PROVE  /\ m[i] \in Build
             /\ m[i].version = bs[i].version /\ m[i].digest = bs[i].digest
             /\ bs[i].phase = "Complete" => m[i].phase = "Complete"
  <2>1. bs[i] \in Build
    OBVIOUS
  <2>2. CASE i = k
    <3>1. m[i] = [bs[i] EXCEPT !.phase = p]
      BY <1>1, <1>3, <2>2
    <3>. QED
      BY <1>2, <2>1, <2>2, <3>1 DEF Build
  <2>3. CASE i # k
    BY <1>1, <1>3, <2>1, <2>3
  <2>. QED
    BY <2>2, <2>3
<1>5. m \in Seq(Build) /\ Len(m) = Len(bs)
  <2>1. m = [i \in 1..Len(bs) |-> m[i]]
    BY <1>1, <1>3
  <2>2. m \in [1..Len(bs) -> Build]
    BY <1>4, <2>1
  <2>. QED
    BY <1>3, <2>2
<1>. QED
  BY <1>4, <1>5 DEF m

\* types, and there are no builds without a BuildConfig
BuildTypes == SBTypeOK /\ \A v \in VDBs : bc[v] = NoBC => builds[v] = <<>>

\* A run of the handler on its copy of w, returning or crashing.
Runs(w) ==
    /\ AtStep("ServiceImage") /\ worker.key = w
    /\ worker.inst.obj.status.phase = BuilderImageFinished
    /\ \E c \in BuildRuns(worker.inst, bc[w], builds[w])
                \cup FailedRuns(worker.inst, bc[w], builds[w]) :
          bc'[w] = c.bc /\ builds'[w] = c.builds
    /\ UNCHANGED <<store, rev>>

\* a build of w moves on, or all are collected; the loop does nothing
Moves(w) == /\ \E p \in BuildPhases : MayMove(builds[w], p)
                                      /\ builds'[w] = Moved(builds[w], p)
            /\ bc'[w] = bc[w] /\ UNCHANGED vars
Collected(w) == /\ ~(store[w] # NoVdb /\ store[w].uid = bc[w].owner)
                /\ bc'[w] = NoBC /\ builds'[w] = <<>> /\ UNCHANGED vars

\* what a step does to the BuildConfig and the builds of w
LEMMA EffectStep ==
    ASSUME TypeInv, SBTypeOK, [SBNext]_sbVars, NEW w \in VDBs
    PROVE  \/ bc'[w] = bc[w] /\ builds'[w] = builds[w]
           \/ Runs(w) \/ Moves(w) \/ Collected(w)
<1>. USE DEF SBTypeOK
<1>. DEFINE Same == bc'[w] = bc[w] /\ builds'[w] = builds[w]
<1>1. CASE UNCHANGED sbVars
  BY <1>1 DEF sbVars, buildVars
<1>2. CASE (Loop \/ OtherHandlers) /\ UNCHANGED buildVars
  BY <1>2 DEF buildVars
<1>3. CASE BuildServiceImage
  <2>1. /\ AtStep("ServiceImage") /\ worker.key \in VDBs
        /\ worker.inst.obj.status.phase = BuilderImageFinished
    BY <1>3, WorkerBusy DEF BuildServiceImage, AtStep, TypeInv
  <2>2. PICK c \in BuildRuns(worker.inst, bc[worker.key], builds[worker.key])
                   \cup FailedRuns(worker.inst, bc[worker.key], builds[worker.key]) :
           Leave(c) /\ UNCHANGED <<store, rev>>
    BY <1>3 DEF BuildServiceImage, Handled, kubeVars
  <2>3. CASE w = worker.key
    BY <2>1, <2>2, <2>3 DEF Leave, Runs
  <2>4. CASE w # worker.key
    BY <2>1, <2>2, <2>4 DEF Leave
  <2>. QED
    BY <2>3, <2>4
<1>4. CASE CrashInBuild
  <2>1. /\ AtStep("ServiceImage") /\ worker.key \in VDBs
        /\ worker.inst.obj.status.phase = BuilderImageFinished
        /\ UNCHANGED <<store, rev>>
    BY <1>4, WorkerBusy DEF CrashInBuild, AtStep, TypeInv, Crash, Restart
  <2>2. PICK c \in FailedRuns(worker.inst, bc[worker.key], builds[worker.key]) :
           /\ bc' = [bc EXCEPT ![worker.key] = c.bc]
           /\ builds' = [builds EXCEPT ![worker.key] = c.builds]
    BY <1>4 DEF CrashInBuild
  <2>3. CASE w = worker.key
    BY <2>1, <2>2, <2>3 DEF Runs
  <2>4. CASE w # worker.key
    BY <2>1, <2>2, <2>4
  <2>. QED
    BY <2>3, <2>4
<1>5. CASE MonitorServiceImage
  BY <1>5 DEF MonitorServiceImage
<1>6. ASSUME NEW v \in VDBs, NEW p \in BuildPhases, BuildMoves(v, p)
      PROVE  Same \/ Moves(w)
  BY <1>6 DEF BuildMoves, Moves
<1>7. ASSUME NEW v \in VDBs, CollectGarbage(v)
      PROVE  Same \/ Collected(w)
  BY <1>7 DEF CollectGarbage, Collected
<1>8. CASE LoseBuilderTag
  BY <1>8 DEF LoseBuilderTag
<1>. QED
  BY <1>1, <1>2, <1>3, <1>4, <1>5, <1>6, <1>7, <1>8 DEF SBNext

\* the variables keep their domains, and the counter its bound
LEMMA ShapeStep ==
    ASSUME TypeInv, BuildTypes, [SBNext]_sbVars
    PROVE  /\ bc' = [v \in VDBs |-> bc'[v]]
           /\ builds' = [v \in VDBs |-> builds'[v]]
           /\ builderTag' \in BOOLEAN
           /\ callFaults' \in 0..MaxCallFaults
<1>1. /\ bc \in [VDBs -> BuildConfig \cup {NoBC}] /\ builds \in [VDBs -> Seq(Build)]
      /\ builderTag \in BOOLEAN /\ callFaults \in 0..MaxCallFaults
      /\ MaxCallFaults \in Nat
  BY ServiceBuildAssumption DEF BuildTypes, SBTypeOK
<1>2. CASE BuildServiceImage
  <2>1. worker.key \in VDBs
    BY <1>2, WorkerBusy DEF BuildServiceImage, AtStep, TypeInv
  <2>2. PICK c \in BuildRuns(worker.inst, bc[worker.key], builds[worker.key])
                   \cup FailedRuns(worker.inst, bc[worker.key], builds[worker.key]) :
           Leave(c)
    BY <1>2 DEF BuildServiceImage
  <2>3. c.faults \in {0, 1}
    BY <1>1, <2>1, <2>2, ChainsRun DEF BuildTypes
  <2>4. /\ callFaults' = callFaults + c.faults /\ callFaults' <= MaxCallFaults
        /\ builderTag' = builderTag
    BY <2>2 DEF Leave
  <2>5. callFaults' \in 0..MaxCallFaults
    BY <1>1, <2>3, <2>4
  <2>6. bc' = [v \in VDBs |-> bc'[v]] /\ builds' = [v \in VDBs |-> builds'[v]]
    BY <1>1, <2>2 DEF Leave
  <2>. QED
    BY <1>1, <2>4, <2>5, <2>6
<1>3. CASE CrashInBuild
  BY <1>1, <1>3 DEF CrashInBuild
<1>4. CASE MonitorServiceImage
  BY <1>1, <1>4 DEF MonitorServiceImage
<1>5. CASE \E v \in VDBs : \/ \E p \in BuildPhases : BuildMoves(v, p)
                           \/ CollectGarbage(v)
  BY <1>1, <1>5 DEF BuildMoves, CollectGarbage
<1>6. CASE LoseBuilderTag
  BY <1>1, <1>6 DEF LoseBuilderTag
<1>7. CASE UNCHANGED buildVars
  BY <1>1, <1>7 DEF buildVars
<1>. QED
  BY <1>2, <1>3, <1>4, <1>5, <1>6, <1>7 DEF SBNext, sbVars

\* the types hold
LEMMA BuildTypesStep ==
    ASSUME TypeInv, BuildTypes, [SBNext]_sbVars
    PROVE  BuildTypes'
<1>1. ASSUME NEW w \in VDBs
      PROVE  /\ bc'[w] \in BuildConfig \cup {NoBC}
             /\ builds'[w] \in Seq(Build)
             /\ bc'[w] = NoBC => builds'[w] = <<>>
  <2>. DEFINE b == bc[w]
              bs == builds[w]
  <2>1. /\ b \in BuildConfig \cup {NoBC} /\ bs \in Seq(Build)
        /\ b = NoBC => bs = <<>>
    BY DEF BuildTypes, SBTypeOK
  <2>2. CASE Runs(w)
    <3>. DEFINE x == worker.inst
    <3>1. x \in Stored
      BY <2>2, WorkerBusy DEF Runs, AtStep, TypeInv
    <3>2. PICK c \in BuildRuns(x, b, bs) \cup FailedRuns(x, b, bs) :
             bc'[w] = c.bc /\ builds'[w] = c.builds
      BY <2>2 DEF Runs
    <3>. HIDE DEF b, bs, x
    <3>3. Ran(x, b, bs, c)
      BY <2>1, <3>2, ChainsRun
    <3>4. /\ Adopted(x, b) \in BuildConfig /\ Noted(x, b) \in BuildConfig
          /\ NewBuild(x, Noted(x, b)) \in Build
      BY <2>1, <3>1, MadeTypes
    <3>5. NoBC \notin BuildConfig
      BY ServiceBuildAssumption
    <3>6. Append(bs, NewBuild(x, Noted(x, b))) \in Seq(Build)
      BY <2>1, <3>4
    <3>. QED
      BY <2>1, <3>2, <3>3, <3>4, <3>5, <3>6 DEF Ran
  <2>3. CASE Moves(w)
    <3>1. PICK p \in BuildPhases : MayMove(bs, p) /\ builds'[w] = Moved(bs, p)
      BY <2>3 DEF Moves
    <3>2. builds'[w] \in Seq(Build) /\ Len(builds'[w]) = Len(bs) /\ bc'[w] = b
      BY <2>1, <2>3, <3>1, MovedFacts DEF Moves
    <3>3. bs = <<>> => builds'[w] = <<>>
      BY <2>1, <3>2, EmptySeq
    <3>. QED
      BY <2>1, <3>2, <3>3
  <2>4. CASE Collected(w)
    BY <2>4 DEF Collected
  <2>5. CASE bc'[w] = b /\ builds'[w] = bs
    BY <2>1, <2>5
  <2>. QED
    BY <2>2, <2>3, <2>4, <2>5, EffectStep DEF BuildTypes
<1>. QED
  BY <1>1, ShapeStep DEF BuildTypes, SBTypeOK

\* initially there is nothing
LEMMA BuildTypesInit == SBInit => BuildTypes
BY ServiceBuildAssumption, EmptySeq DEF SBInit, BuildTypes, SBTypeOK

\* The BuildConfigs and the builds keep the fields the operator gives them,
\* whatever fails, crashes or is collected, for any bounds; in particular the
\* last DIGEST is always there to be compared, and every BuildConfig has the
\* owner the garbage collector goes by.
THEOREM BuildsTyped == SBSpec => []SBTypeOK
<1>1. SBInit => TypeInv /\ BuildTypes
  BY TypeInit, BuildTypesInit DEF SBInit
<1>2. TypeInv /\ BuildTypes /\ [SBNext]_sbVars => (TypeInv /\ BuildTypes)'
  BY TypeStep, BuildTypesStep, BuildStep
<1>3. BuildTypes => SBTypeOK
  BY DEF BuildTypes
<1>. QED
  BY <1>1, <1>2, <1>3, PTL DEF SBSpec

-----------------------------------------------------------------------------
(* No version is built twice.                                               *)

\* from status a to status b no version is reused for another digest
Grown(a, b) ==
    /\ a.version <= b.version
    /\ a.version > 0 /\ a.version = b.version => a.digest = b.digest

\* the copies of resources whose versions the operator counts
Numbered(s) ==
    /\ Counted(s.obj.spec)
    /\ s.obj.status.version \in Nat
    /\ s.obj.status.phase # Initial => s.obj.status.version > 0

Counts == [v \in VDBs |->
             {s \in Stored :
                /\ Numbered(s)
                /\ store[v] # NoVdb /\ s.uid = store[v].uid =>
                      Grown(s.obj.status, store[v].obj.status)}]

CopiesCount == Known(Counts, store, cache, watch, worker)

\* the operator has seen nothing but the living resource v
Seen(v) ==
    /\ cache[v] # NoVdb /\ cache[v].uid = store[v].uid
    /\ WorkingOn(v) => worker.inst.uid = store[v].uid

\* the BuildConfig is that of the living resource v
Own(v) == bc[v] # NoBC /\ store[v] # NoVdb /\ bc[v].owner = store[v].uid

OwnersSeen == \A v \in VDBs :
                 /\ bc[v] # NoBC => bc[v].owner <= Youngest(v)
                 /\ Own(v) => Seen(v)

\* No build is of a later version than the status st, and if the last is of
\* that version, DIGEST says so.
Covers(b, bs, st) ==
    \A i \in 1..Len(bs) :
        /\ bs[i].version \in Nat \ {0} /\ bs[i].version <= st.version
        /\ i = Len(bs) /\ bs[i].version = st.version => b.digest = st.digest

Covered == [v \in VDBs |->
              {s \in Stored : Own(v) /\ s.uid = store[v].uid =>
                                 Covers(bc[v], builds[v], s.obj.status)}]

Ascending(bs) ==
    \A i, j \in 1..Len(bs) : i < j => bs[i].version < bs[j].version

OnceInv ==
    /\ RefInv /\ CopiesAged /\ Line /\ CopiesCount /\ BuildTypes /\ OwnersSeen
    /\ Known(Covered, store, cache, watch, worker)
    /\ \A v \in VDBs : Own(v) => Ascending(builds[v])

\* growth goes on
LEMMA GrownFacts ==
    ASSUME NEW a, NEW b, NEW c,
           a.version \in Nat, b.version \in Nat, c.version \in Nat
    PROVE  Grown(a, a) /\ (Grown(a, b) /\ Grown(b, c) => Grown(a, c))
BY DEF Grown

\* what is stored: its version is counted, and has grown if the resource is
\* not a new one
LEMMA StoredCounts ==
    ASSUME RefInv, CopiesCount, \A s \in UserSpecs : Counted(s),
           NEW v \in VDBs, NEW s \in Stored, Stores(v, s)
    PROVE  /\ Numbered(s)
           /\ store[v] = NoVdb => s.uid = rev[v] + 1
           /\ store[v] # NoVdb => /\ s.uid = store[v].uid
                                  /\ Grown(store[v].obj.status, s.obj.status)
<1>. DEFINE r == store[v]
            t == r.obj
            n == t.status.version
<1>1. TypeOK /\ WorkerOK /\ s # NoVdb
  BY StoredIsResource DEF RefInv, TypeInv
<1>2. r # NoVdb => /\ r \in Stored /\ t \in Vdb /\ Numbered(r)
                   /\ Counted(t.spec) /\ n \in Nat
                   /\ t.status.phase # Initial => n > 0
  BY <1>1, StoredIsResource DEF TypeOK, CopiesCount, Known, Counts, Numbered
<1>3. CASE UserCreated(v, s)
  <2>1. PICK u \in UserSpecs :
           s = [uid |-> rev[v] + 1, rv |-> rev[v] + 1, gen |-> 1, obj |-> NewVdb(u)]
    BY <1>3 DEF UserCreated
  <2>2. s.obj = NewVdb(u) /\ s.uid = rev[v] + 1
    BY <2>1
  <2>3. /\ s.obj.spec = u /\ s.obj.status.version = 0
        /\ s.obj.status.phase = Initial
    BY <2>2, NewVdbFields DEF NoVersion
  <2>. QED
    BY <1>3, <2>2, <2>3 DEF UserCreated, Numbered
<1>4. CASE UserEdited(v, s)
  <2>1. r # NoVdb
    BY <1>4 DEF UserEdited
  <2>2. PICK u \in VdbSpec :
           /\ s = NewVersion(v, [t EXCEPT !.spec = u])
           /\ \E y \in UserSpecs : u = [y EXCEPT !.replicas = u.replicas]
    BY <1>4 DEF UserEdited
  <2>3. s.obj = [t EXCEPT !.spec = u] /\ s.uid = r.uid
    BY <2>2, NewVersionFields
  <2>4. s.obj.spec = u /\ s.obj.status = t.status
    BY <1>2, <2>1, <2>3 DEF Vdb
  <2>5. Counted(u)
    <3>1. PICK y \in UserSpecs : u = [y EXCEPT !.replicas = u.replicas]
      BY <2>2
    <3>2. y \in VdbSpec /\ Counted(y)
      BY ReconcilerAssumption
    <3>. QED
      BY <3>1, <3>2 DEF Counted, VdbSpec
  <2>. QED
    BY <1>2, <2>1, <2>3, <2>4, <2>5, GrownFacts DEF Numbered
<1>5. CASE WorkerUpdated(v, s)
  <2>. DEFINE u == s.obj
  <2>1. /\ r # NoVdb /\ worker.pc = "update" /\ worker.inst = r
        /\ u = worker.target /\ s.uid = r.uid
    BY <1>5, NewVersionFields DEF WorkerUpdated
  <2>2. \/ u = RedeployVdb(t)
        \/ ~IsVdbUpdated(t) /\ Advanced(t, u)
    BY <1>1, <2>1 DEF WorkerOK
  <2>3. CASE u = RedeployVdb(t)
    <3>1. /\ u.spec = t.spec /\ u.status.phase = Initial
          /\ u.status.version = IF n > 0 THEN n + 1 ELSE n
      BY <1>2, <2>1, <2>3, RedeployFields DEF Counted, ImplicitVersion, IsNumeral
    <3>. HIDE DEF n
    <3>2. u.status.version \in Nat /\ n <= u.status.version
          /\ (n > 0 => n # u.status.version)
      BY <1>2, <2>1, <3>1
    <3>. HIDE DEF u
    <3>3. Grown(t.status, u.status)
      BY <3>2 DEF Grown, n
    <3>. QED
      BY <1>2, <2>1, <3>1, <3>2, <3>3 DEF Numbered, u
  <2>4. CASE ~IsVdbUpdated(t) /\ Advanced(t, u) /\ t.status.phase # Initial
    <3>1. /\ u.spec = t.spec /\ u.status.version = n
          /\ u.status.digest = t.status.digest
      BY <1>2, <2>1, <2>4, AdvancedFacts DEF Kept
    <3>. QED
      BY <1>2, <2>1, <2>4, <3>1 DEF Numbered, Grown
  <2>5. CASE ~IsVdbUpdated(t) /\ Advanced(t, u) /\ t.status.phase = Initial
    <3>1. Begun(t, u) \/ (Alike(t, u) /\ u.status.phase = Initial)
      BY <1>2, <2>1, <2>5, AdvancedFacts
    <3>2. CASE Alike(t, u) /\ u.status.phase = Initial
      BY <1>2, <2>1, <3>2 DEF Alike, Numbered, Grown
    <3>3. CASE Begun(t, u)
      <4>1. u.status.digest = t.status.digest /\ u.status.version = DeployedAs(t)
        BY <2>5, <3>3 DEF Begun, IsVdbUpdated
      <4>2. Counted(u.spec)
        BY <1>2, <2>1, <3>3 DEF Counted, Begun
      <4>3. u.status.version = IF n = 0 THEN 1 ELSE n
        BY <1>2, <2>1, <4>1 DEF DeployedAs, Counted, ImplicitVersion, NoVersion
      <4>. HIDE DEF n
      <4>4. u.status.version \in Nat /\ u.status.version > 0 /\ n <= u.status.version
        BY <1>2, <2>1, <4>3
      <4>. QED
        BY <2>1, <4>1, <4>2, <4>4 DEF Numbered, Grown, n
    <3>. QED
      BY <3>1, <3>2, <3>3
  <2>. QED
    BY <2>2, <2>3, <2>4, <2>5
<1>. QED
  BY <1>1, <1>3, <1>4, <1>5 DEF Stores, UserDeleted

\* the store of w in one step: nothing, gone, new or grown
LEMMA CountedStep ==
    ASSUME RefInv, CopiesCount, \A s \in UserSpecs : Counted(s), [Next]_vars,
           NEW w \in VDBs, store'[w] # NoVdb
    PROVE  /\ store'[w] \in Stored /\ Numbered(store'[w])
           /\ store[w] = NoVdb => store'[w].uid = rev[w] + 1
           /\ store[w] # NoVdb =>
                 /\ store[w] \in Stored
                 /\ store'[w].uid = store[w].uid
                 /\ Grown(store[w].obj.status, store'[w].obj.status)
<1>1. TypeOK /\ TypeOK'
  BY RefStep DEF RefInv, TypeInv
<1>2. /\ store'[w] \in Stored
      /\ store[w] # NoVdb => store[w] \in Stored /\ Numbered(store[w])
  BY <1>1 DEF TypeOK, CopiesCount, Known, Counts
<1>3. ASSUME NEW s, Stores(w, s)
      PROVE  store'[w] = s
  BY <1>1, <1>3 DEF Stores, Write, TypeOK
<1>4. CASE store'[w] = store[w]
  BY <1>2, <1>4, GrownFacts DEF Numbered
<1>. QED
  BY <1>2, <1>3, <1>4, StoredCounts, CopyStep

\* every copy counts
LEMMA CountsStep ==
    ASSUME RefInv, CopiesAged, CopiesCount, \A s \in UserSpecs : Counted(s),
           [Next]_vars
    PROVE  CopiesCount'
<1>. DEFINE S == [v \in VDBs |-> Counts[v] \cap Aged[v]]
<1>1. Known(S, store, cache, watch, worker)
  <2>1. worker.pc # "idle" => worker.key \in VDBs
    BY WorkerBusy DEF RefInv, TypeInv
  <2>. QED
    BY <2>1 DEF CopiesAged, CopiesCount, Known
<1>2. ASSUME NEW w \in VDBs
      PROVE  S[w] \subseteq Counts'[w] /\ store'[w] \in Counts'[w] \cup {NoVdb}
  <2>1. CASE store'[w] = NoVdb
    BY <2>1 DEF Counts
  <2>2. CASE store'[w] # NoVdb
    <3>1. /\ store'[w] \in Stored /\ Numbered(store'[w])
          /\ store[w] = NoVdb => store'[w].uid = rev[w] + 1
          /\ store[w] # NoVdb =>
                /\ store'[w].uid = store[w].uid
                /\ Grown(store[w].obj.status, store'[w].obj.status)
      BY <2>2, CountedStep
    <3>2. store'[w].obj.status.version \in Nat
      BY <3>1 DEF Numbered
    <3>3. store'[w] \in Counts'[w]
      BY <3>1, <3>2, GrownFacts DEF Counts
    <3>4. ASSUME NEW s \in S[w], s.uid = store'[w].uid
          PROVE  Grown(s.obj.status, store'[w].obj.status)
      <4>1. s \in Counts[w] /\ s.uid \in 1..Youngest(w)
        BY DEF Aged
      <4>2. store[w] # NoVdb
        <5>1. rev[w] \in Nat
          BY DEF RefInv, TypeInv, TypeOK
        <5>. QED
          BY <3>1, <3>4, <4>1, <5>1 DEF Youngest
      <4>3. /\ Numbered(s) /\ s.uid = store[w].uid
            /\ Grown(s.obj.status, store[w].obj.status)
        BY <3>1, <3>4, <4>1, <4>2 DEF Counts
      <4>4. Numbered(store[w])
        BY <4>2 DEF CopiesCount, Known, Counts
      <4>. QED
        BY <3>1, <3>2, <4>2, <4>3, <4>4, GrownFacts DEF Numbered
    <3>. QED
      BY <3>3, <3>4 DEF Counts
  <2>. QED
    BY <2>1, <2>2
<1>. HIDE DEF S
<1>. QED
  BY <1>1, <1>2, KnownStep DEF CopiesCount

\* what has seen the living resource goes on seeing it
LEMMA SeenStep ==
    ASSUME RefInv, Line, [Next]_vars, NEW w \in VDBs, Seen(w),
           store[w] # NoVdb, store'[w] # NoVdb, store'[w].uid = store[w].uid
    PROVE  Seen(w)'
<1>. DEFINE r == store[w]
            q == watch[w]
<1>1. TypeOK
  BY DEF RefInv, TypeInv
<1>2. ASSUME NEW s, Stores(w, s)
      PROVE  Seen(w)'
  <2>1. cache' = cache /\ (worker' = worker \/ worker' = Idle)
    BY <1>2 DEF Stores
  <2>. QED
    BY <2>1 DEF Seen, WorkingOn, Idle
<1>3. CASE Sees(w)
  <2>1. q # <<>> /\ cache'[w] = Head(q) /\ worker' = worker
    BY <1>3 DEF Sees
  <2>2. q \in Seq(Stored \cup {NoVdb})
    BY <1>1 DEF TypeOK
  <2>3. 1 \in 1..Len(q) /\ cache'[w] = q[1]
    BY <2>1, <2>2
  <2>4. Precedes(cache[w], q[1], r)
    BY <2>3 DEF Line, InLine
  <2>. QED
    BY <2>1, <2>3, <2>4 DEF Precedes, Seen, WorkingOn
<1>4. CASE Lists(w)
  BY <1>4 DEF Lists, Seen, WorkingOn, Idle
<1>5. CASE Keeps(w)
  <2>1. cache'[w] = cache[w]
    BY <1>5 DEF Keeps
  <2>2. WorkingOn(w)' => \/ WorkingOn(w) /\ worker'.inst = worker.inst
                         \/ worker'.inst = cache[w]
    BY <1>5 DEF Keeps, WorkingOn, Idle
  <2>. QED
    BY <2>1, <2>2 DEF Seen
<1>. QED
  BY <1>2, <1>3, <1>4, <1>5, CopyStep

\* the BuildConfig keeps its owner; a new one is owned by the copy at hand
LEMMA OwnerStep ==
    ASSUME TypeInv, BuildTypes, [SBNext]_sbVars, NEW w \in VDBs, bc'[w] # NoBC
    PROVE  \/ bc[w] # NoBC /\ bc'[w].owner = bc[w].owner
           \/ /\ Runs(w) /\ bc[w] = NoBC /\ builds[w] = <<>>
              /\ bc'[w].owner = worker.inst.uid
<1>. DEFINE b == bc[w]
            bs == builds[w]
            x == worker.inst
<1>1. /\ b \in BuildConfig \cup {NoBC} /\ bs \in Seq(Build)
      /\ b = NoBC => bs = <<>>
  BY DEF BuildTypes, SBTypeOK
<1>2. CASE Runs(w)
  <2>1. x \in Stored
    BY <1>2, WorkerBusy DEF Runs, AtStep, TypeInv
  <2>2. PICK c \in BuildRuns(x, b, bs) \cup FailedRuns(x, b, bs) : bc'[w] = c.bc
    BY <1>2 DEF Runs
  <2>. HIDE DEF b, bs, x
  <2>3. Ran(x, b, bs, c)
    BY <1>1, <2>2, ChainsRun
  <2>4. /\ Noted(x, b).owner = Adopted(x, b).owner
        /\ b = NoBC => Adopted(x, b).owner = x.uid
        /\ b # NoBC => Adopted(x, b) = b
    BY <1>1, <2>1, MadeTypes DEF Adopted
  <2>5. bc'[w] \in {b, Adopted(x, b), Noted(x, b)}
    BY <2>2, <2>3 DEF Ran
  <2>6. CASE b # NoBC
    BY <2>4, <2>5, <2>6 DEF b
  <2>7. CASE b = NoBC
    BY <1>1, <1>2, <2>4, <2>5, <2>7 DEF b, bs, x
  <2>. QED
    BY <2>6, <2>7
<1>3. CASE b = bc'[w]
  BY <1>3
<1>. QED
  BY <1>2, <1>3, EffectStep DEF Moves, Collected, BuildTypes

\* The BuildConfig that is now that of the living resource was so before, or
\* is made by the handler from a copy of that resource; and the operator has
\* seen it.
LEMMA OwnStep ==
    ASSUME RefInv, CopiesAged, Line, BuildTypes, OwnersSeen, [SBNext]_sbVars,
           NEW w \in VDBs, Own(w)'
    PROVE  /\ store[w] # NoVdb /\ store'[w].uid = store[w].uid
           /\ Own(w) \/ builds[w] = <<>>
           /\ Runs(w) => worker.inst.uid = store[w].uid
           /\ Seen(w)'
<1>1. TypeOK /\ TypeInv /\ [Next]_vars
  BY BuildStep DEF RefInv, TypeInv
<1>2. bc'[w] # NoBC /\ store'[w] # NoVdb /\ bc'[w].owner = store'[w].uid
  BY DEF Own
<1>3. /\ store[w] = NoVdb => store'[w].uid = rev[w] + 1
      /\ store[w] # NoVdb => store'[w].uid = store[w].uid
  BY <1>1, <1>2, ObjectStep
     DEF IsNew, Respecified, Redeployed, WrittenBack, Rewritten
<1>4. CASE bc[w] # NoBC /\ bc'[w].owner = bc[w].owner
  <2>1. bc[w].owner <= Youngest(w) /\ bc[w].owner \in Nat
    BY <1>4 DEF OwnersSeen, BuildTypes, SBTypeOK, BuildConfig
  <2>2. rev[w] \in Nat
    BY <1>1 DEF TypeOK
  <2>3. store[w] # NoVdb
    BY <1>2, <1>3, <1>4, <2>1, <2>2 DEF Youngest
  <2>4. Own(w)
    BY <1>2, <1>3, <1>4, <2>3 DEF Own
  <2>5. Seen(w)
    BY <2>4 DEF OwnersSeen
  <2>6. Seen(w)'
    BY <1>1, <1>2, <1>3, <2>3, <2>5, SeenStep
  <2>7. Runs(w) => WorkingOn(w)
    BY DEF Runs, AtStep, WorkingOn
  <2>. QED
    BY <1>3, <2>3, <2>4, <2>5, <2>6, <2>7 DEF Seen
<1>5. CASE /\ Runs(w) /\ bc[w] = NoBC /\ builds[w] = <<>>
           /\ bc'[w].owner = worker.inst.uid
  <2>1. store'[w] = store[w] /\ WorkingOn(w)
    BY <1>5 DEF Runs, AtStep, WorkingOn
  <2>2. store[w] # NoVdb /\ worker.inst.uid = store[w].uid
    BY <1>2, <1>5, <2>1
  <2>3. cache[w] # NoVdb /\ cache[w].uid = store[w].uid
    BY <2>1, <2>2 DEF Line, InLine
  <2>4. Seen(w)
    BY <2>2, <2>3 DEF Seen
  <2>5. Seen(w)'
    BY <1>1, <1>2, <1>3, <2>2, <2>4, SeenStep
  <2>. QED
    BY <1>3, <1>5, <2>2, <2>5
<1>. QED
  BY <1>1, <1>2, <1>4, <1>5, OwnerStep

LEMMA OwnersSeenStep ==
    ASSUME RefInv, CopiesAged, Line, BuildTypes, OwnersSeen, [SBNext]_sbVars
    PROVE  OwnersSeen'
<1>. SUFFICES ASSUME NEW w \in VDBs, bc'[w] # NoBC
              PROVE  bc'[w].owner <= Youngest(w)'
  BY OwnStep DEF OwnersSeen, Own
<1>1. TypeOK /\ TypeInv /\ [Next]_vars /\ TypeOK'
  BY BuildStep, RefStep DEF RefInv, TypeInv
<1>2. /\ Youngest(w) <= Youngest(w)'
      /\ Youngest(w) \in Nat /\ Youngest(w)' \in Nat
  <2>1. Youngest(w) <= Youngest(w)'
    BY <1>1, AgedStep
  <2>2. /\ rev[w] \in Nat /\ rev'[w] \in Nat
        /\ store[w] # NoVdb => store[w].uid \in Nat
        /\ store'[w] # NoVdb => store'[w].uid \in Nat
    BY <1>1 DEF TypeOK, Stored
  <2>. QED
    BY <2>1, <2>2 DEF Youngest
<1>3. CASE bc[w] # NoBC /\ bc'[w].owner = bc[w].owner
  <2>1. bc[w].owner <= Youngest(w) /\ bc[w].owner \in Nat
    BY <1>3 DEF OwnersSeen, BuildTypes, SBTypeOK, BuildConfig
  <2>. QED
    BY <1>2, <1>3, <2>1
<1>4. CASE Runs(w) /\ bc'[w].owner = worker.inst.uid
  <2>1. worker.key = w /\ worker.pc # "idle"
    BY <1>4 DEF Runs, AtStep
  <2>2. worker.inst.uid \in 1..Youngest(w)
    BY <2>1 DEF CopiesAged, Known, Aged
  <2>. QED
    BY <1>2, <1>4, <2>2
<1>. QED
  BY <1>1, <1>3, <1>4, OwnerStep

\* what covers a status covers what it grows into, with DIGEST recorded or
\* not, and with one more build of that status
LEMMA CoversFacts ==
    ASSUME NEW b, NEW bs \in Seq(Build), NEW b2, NEW x, NEW st, NEW su,
           st.version \in Nat \ {0}, su.version \in Nat, Grown(st, su),
           Covers(b, bs, st), b2.digest = st.digest, x.version = st.version
    PROVE  /\ Covers(b2, bs, su)
           /\ Covers(b2, Append(bs, x), su)
<1>1. /\ Len(bs) \in Nat /\ Len(Append(bs, x)) = Len(bs) + 1
      /\ Append(bs, x)[Len(bs) + 1] = x
      /\ \A i \in 1..Len(bs) : Append(bs, x)[i] = bs[i]
  OBVIOUS
<1>2. Covers(b2, bs, su)
  BY <1>1 DEF Covers, Grown
<1>3. ASSUME NEW i \in 1..(Len(bs) + 1)
      PROVE  /\ Append(bs, x)[i].version \in Nat \ {0}
             /\ Append(bs, x)[i].version <= su.version
             /\ i = Len(bs) + 1 /\ Append(bs, x)[i].version = su.version =>
                   b2.digest = su.digest
  <2>1. CASE i = Len(bs) + 1
    BY <1>1, <2>1 DEF Grown
  <2>2. CASE i \in 1..Len(bs)
    BY <1>1, <1>2, <2>2 DEF Covers
  <2>. QED
    BY <1>1, <2>1, <2>2
<1>. HIDE DEF Grown
<1>. QED
  BY <1>1, <1>2, <1>3 DEF Covers

LEMMA CoversGrown ==
    ASSUME NEW b, NEW bs \in Seq(Build), NEW st, NEW su,
           st.version \in Nat, su.version \in Nat, Grown(st, su), Covers(b, bs, st)
    PROVE  Covers(b, bs, su)
<1>1. Len(bs) \in Nat
  OBVIOUS
<1>. QED
  BY <1>1 DEF Covers, Grown

\* what a run of the handler leaves covers every copy s of the living
\* resource that is no older than the handler's
LEMMA RunCovers ==
    ASSUME TypeInv, BuildTypes, NEW w \in VDBs, Runs(w), NEW s \in Stored,
           worker.inst.obj.status.version \in Nat \ {0},
           s.obj.status.version \in Nat,
           Grown(worker.inst.obj.status, s.obj.status),
           Covers(bc[w], builds[w], worker.inst.obj.status),
           Covers(bc[w], builds[w], s.obj.status)
    PROVE  Covers(bc'[w], builds'[w], s.obj.status)
<1>. DEFINE b == bc[w]
            bs == builds[w]
            x == worker.inst
<1>1. /\ b \in BuildConfig \cup {NoBC} /\ bs \in Seq(Build)
      /\ b = NoBC => bs = <<>>
  BY DEF BuildTypes, SBTypeOK
<1>2. x \in Stored
  BY WorkerBusy DEF Runs, AtStep, TypeInv
<1>3. PICK c \in BuildRuns(x, b, bs) \cup FailedRuns(x, b, bs) :
         bc'[w] = c.bc /\ builds'[w] = c.builds
  BY DEF Runs
<1>4. Ran(x, b, bs, c)
  BY <1>1, <1>3, ChainsRun
<1>5. /\ Noted(x, b).digest = x.obj.status.digest
      /\ NewBuild(x, Noted(x, b)).version = x.obj.status.version
      /\ b # NoBC => Adopted(x, b) = b
  BY <1>1, <1>2, MadeTypes DEF Adopted, NewBuild
<1>. DEFINE n == Noted(x, b)
            y == NewBuild(x, n)
<1>6. Covers(n, bs, s.obj.status) /\ Covers(n, Append(bs, y), s.obj.status)
  <2>. HIDE DEF n, y
  <2>. QED
    BY <1>1, <1>5, CoversFacts DEF n, y
<1>7. Covers(Adopted(x, b), bs, s.obj.status)
  <2>1. bs = <<>> => Covers(Adopted(x, b), bs, s.obj.status)
    BY DEF Covers
  <2>2. b = NoBC => bs = <<>>
    BY <1>1
  <2>3. b # NoBC => Adopted(x, b) = b
    BY <1>5
  <2>. QED
    BY <2>1, <2>2, <2>3, Zenon
<1>. QED
  BY <1>3, <1>4, <1>6, <1>7 DEF Ran

\* copies no older than the one the worker holds, of the resource it is of
Fresh == [v \in VDBs |->
            {s \in Stored :
               WorkingOn(v) /\ store[v] # NoVdb /\ worker.inst.uid = store[v].uid
                  => (s.uid = store[v].uid =>
                        Grown(worker.inst.obj.status, s.obj.status))}]

\* no copy is older than the worker's
LEMMA FreshKnown ==
    ASSUME RefInv, Line, CopiesCount
    PROVE  Known(Fresh, store, cache, watch, worker)
<1>. DEFINE x == worker.inst
<1>0. /\ worker.pc # "idle" => worker.key \in VDBs /\ WorkingOn(worker.key)
      /\ TypeOK
  BY WorkerBusy DEF RefInv, TypeInv, WorkingOn
<1>1. ASSUME NEW v \in VDBs, WorkingOn(v), store[v] # NoVdb, x.uid = store[v].uid
      PROVE  /\ Grown(x.obj.status, x.obj.status)
             /\ Grown(x.obj.status, store[v].obj.status)
             /\ Grown(x.obj.status, cache[v].obj.status)
             /\ \A j \in 1..Len(watch[v]) :
                   watch[v][j] # NoVdb /\ watch[v][j].uid = store[v].uid =>
                      Grown(x.obj.status, watch[v][j].obj.status)
  <2>1. x \in Counts[v]
    BY <1>1 DEF CopiesCount, Known, WorkingOn
  <2>2. /\ x.obj.status.version \in Nat
        /\ Grown(x.obj.status, store[v].obj.status)
    BY <1>1, <2>1 DEF Counts, Numbered
  <2>3. Grown(x.obj.status, x.obj.status)
    BY <2>2, GrownFacts
  <2>4. /\ cache[v].obj.status \in {x.obj.status, store[v].obj.status}
        /\ \A j \in 1..Len(watch[v]) :
              watch[v][j] # NoVdb /\ watch[v][j].uid = store[v].uid =>
                 watch[v][j].obj.status = store[v].obj.status
    BY <1>1 DEF Line, InLine
  <2>. HIDE DEF x
  <2>. QED
    BY <2>2, <2>3, <2>4
<1>2. ASSUME NEW v \in VDBs
      PROVE  /\ store[v] \in Fresh[v] \cup {NoVdb}
             /\ cache[v] \in Fresh[v] \cup {NoVdb}
             /\ \A i \in 1..Len(watch[v]) : watch[v][i] \in Fresh[v] \cup {NoVdb}
             /\ WorkingOn(v) => worker.inst \in Fresh[v]
  <2>1. /\ store[v] \in Stored \cup {NoVdb} /\ cache[v] \in Stored \cup {NoVdb}
        /\ \A i \in 1..Len(watch[v]) : watch[v][i] \in Stored \cup {NoVdb}
        /\ WorkingOn(v) => worker.inst \in Stored
    BY <1>0, WorkerBusy DEF TypeOK, WorkingOn
  <2>2. CASE WorkingOn(v) /\ store[v] # NoVdb /\ x.uid = store[v].uid
    BY <1>1, <2>1, <2>2 DEF Fresh
  <2>3. CASE ~(WorkingOn(v) /\ store[v] # NoVdb /\ x.uid = store[v].uid)
    <3>1. \A s \in Stored : s \in Fresh[v]
      BY <2>3 DEF Fresh
    <3>. HIDE DEF Fresh
    <3>. QED
      BY <2>1, <3>1
  <2>. QED
    BY <2>2, <2>3
<1>. QED
  BY <1>0, <1>2 DEF Known

\* in a run of the handler for the living resource, its copy is of a counted
\* version, and covered
LEMMA RunFacts ==
    ASSUME OnceInv, NEW w \in VDBs, Runs(w), store[w] # NoVdb,
           worker.inst.uid = store[w].uid, Own(w) \/ builds[w] = <<>>
    PROVE  /\ worker.inst \in Stored
           /\ worker.inst.obj.status.version \in Nat \ {0}
           /\ Covers(bc[w], builds[w], worker.inst.obj.status)
<1>1. /\ worker.key = w /\ worker.pc # "idle"
      /\ worker.inst.obj.status.phase = BuilderImageFinished
  BY DEF Runs, AtStep
<1>2. /\ worker.inst \in Counts[w]
      /\ worker.inst \in Covered[w]
  BY <1>1 DEF OnceInv, CopiesCount, Known
<1>3. worker.inst \in Stored /\ Numbered(worker.inst)
  BY <1>2 DEF Counts
<1>4. worker.inst.obj.status.version \in Nat \ {0}
  <2>1. BuilderImageFinished # Initial
    BY DEF BuilderImageFinished, Initial
  <2>2. /\ worker.inst.obj.status.version \in Nat
        /\ worker.inst.obj.status.version > 0
    BY <1>1, <1>3, <2>1 DEF Numbered
  <2>. QED
    BY <2>2
<1>5. CASE Own(w)
  BY <1>2, <1>3, <1>4, <1>5 DEF Covered
<1>6. CASE builds[w] = <<>>
  BY <1>3, <1>4, <1>6 DEF Covers
<1>. QED
  BY <1>3, <1>4, <1>5, <1>6

\* every copy stays covered
LEMMA CoveredStep ==
    ASSUME OnceInv, \A s \in UserSpecs : Counted(s), [SBNext]_sbVars
    PROVE  Known(Covered', store', cache', watch', worker')
<1>. DEFINE S == [v \in VDBs |-> (Counts[v] \cap Covered[v]) \cap (Aged[v] \cap Fresh[v])]
<1>0. /\ RefInv /\ CopiesAged /\ Line /\ CopiesCount /\ BuildTypes /\ OwnersSeen
      /\ TypeInv /\ [Next]_vars
  BY BuildStep DEF OnceInv, RefInv
<1>1. Known(S, store, cache, watch, worker)
  <2>1. worker.pc # "idle" => worker.key \in VDBs
    BY <1>0, WorkerBusy DEF TypeInv
  <2>2. /\ Known(Fresh, store, cache, watch, worker)
        /\ Known(Covered, store, cache, watch, worker)
        /\ Known(Counts, store, cache, watch, worker)
        /\ Known(Aged, store, cache, watch, worker)
    BY <1>0, FreshKnown DEF OnceInv, CopiesCount, CopiesAged
  <2>. QED
    BY <2>1, <2>2 DEF Known
<1>2. ASSUME NEW w \in VDBs, NEW s \in S[w], Own(w)', s.uid = store'[w].uid
      PROVE  Covers(bc'[w], builds'[w], s.obj.status)
  <2>. DEFINE b == bc[w]
              bs == builds[w]
              x == worker.inst
  <2>1. /\ s \in Counts[w] /\ s \in Covered[w] /\ s \in Fresh[w]
        /\ s \in Stored /\ s.obj.status.version \in Nat
    BY DEF Counts, Numbered
  <2>2. /\ store[w] # NoVdb /\ store'[w].uid = store[w].uid
        /\ Own(w) \/ bs = <<>>
        /\ Runs(w) => x.uid = store[w].uid
    BY <1>0, <1>2, OwnStep
  <2>3. bs \in Seq(Build)
    BY <1>0 DEF BuildTypes, SBTypeOK
  <2>4. Covers(b, bs, s.obj.status)
    <3>1. CASE Own(w)
      BY <1>2, <2>1, <2>2, <3>1 DEF Covered
    <3>2. CASE bs = <<>>
      BY <3>2 DEF Covers
    <3>. QED
      BY <2>2, <3>1, <3>2
  <2>5. CASE Runs(w)
    <3>1. /\ x.obj.status.version \in Nat \ {0}
          /\ Covers(b, bs, x.obj.status)
      BY <2>2, <2>5, RunFacts
    <3>2. Grown(x.obj.status, s.obj.status)
      BY <1>2, <2>1, <2>2, <2>5 DEF Fresh, Runs, AtStep, WorkingOn
    <3>. QED
      BY <1>0, <2>1, <2>4, <2>5, <3>1, <3>2, RunCovers
  <2>6. CASE Moves(w)
    <3>1. PICK p \in BuildPhases : MayMove(bs, p) /\ builds'[w] = Moved(bs, p)
      BY <2>6 DEF Moves
    <3>2. /\ Len(builds'[w]) = Len(bs) /\ bc'[w] = b
          /\ \A i \in 1..Len(bs) : builds'[w][i].version = bs[i].version
      BY <2>3, <2>6, <3>1, MovedFacts DEF Moves
    <3>. QED
      BY <2>4, <3>2 DEF Covers
  <2>7. CASE bc'[w] = b /\ builds'[w] = bs
    BY <2>4, <2>7
  <2>8. ~Collected(w)
    BY <1>2 DEF Collected, Own
  <2>. QED
    BY <1>0, <2>5, <2>6, <2>7, <2>8, EffectStep DEF BuildTypes
<1>3. ASSUME NEW w \in VDBs, store'[w] # NoVdb, Own(w)'
      PROVE  Covers(bc'[w], builds'[w], store'[w].obj.status)
  <2>1. /\ store[w] # NoVdb /\ store'[w].uid = store[w].uid
        /\ Own(w) \/ builds[w] = <<>>
    BY <1>0, <1>3, OwnStep
  <2>2. store[w] \in S[w]
    BY <1>1, <2>1 DEF Known
  <2>. HIDE DEF S
  <2>3. CASE store'[w] = store[w]
    BY <1>2, <1>3, <2>2, <2>3
  <2>4. CASE store'[w] # store[w]
    <3>1. bc'[w] = bc[w] /\ builds'[w] = builds[w]
      BY <1>0, <2>4, EffectStep DEF Runs, Moves, Collected, vars, BuildTypes
    <3>2. /\ Grown(store[w].obj.status, store'[w].obj.status)
          /\ Numbered(store'[w])
      BY <1>0, <1>3, <2>1, CountedStep
    <3>3. Numbered(store[w]) /\ store[w] \in Covered[w]
      BY <2>2 DEF S, Counts
    <3>4. builds[w] \in Seq(Build)
      BY <1>0 DEF BuildTypes, SBTypeOK
    <3>5. Covers(bc[w], builds[w], store[w].obj.status)
      <4>1. CASE Own(w)
        BY <3>3, <4>1 DEF Covered
      <4>2. CASE builds[w] = <<>>
        BY <4>2 DEF Covers
      <4>. QED
        BY <2>1, <4>1, <4>2
    <3>. QED
      BY <3>1, <3>2, <3>3, <3>4, <3>5, CoversGrown DEF Numbered
  <2>. QED
    BY <2>3, <2>4
<1>4. TypeOK'
  BY <1>0, RefStep DEF RefInv, TypeInv
<1>5. ASSUME NEW w \in VDBs
      PROVE  S[w] \subseteq Covered'[w] /\ store'[w] \in Covered'[w] \cup {NoVdb}
  <2>1. store'[w] \in Stored \cup {NoVdb} /\ \A s \in S[w] : s \in Stored
    BY <1>4 DEF TypeOK, Counts
  <2>. HIDE DEF S
  <2>2. Covered'[w] = {s \in Stored : Own(w)' /\ s.uid = store'[w].uid =>
                                 Covers(bc'[w], builds'[w], s.obj.status)}
    BY DEF Covered
  <2>. QED
    BY <1>2, <1>3, <2>1, <2>2
<1>. HIDE DEF S
<1>. QED
  BY <1>0, <1>1, <1>5, KnownStep

\* the versions of the builds go on ascending
LEMMA AscendingStep ==
    ASSUME OnceInv, [SBNext]_sbVars, NEW w \in VDBs, Own(w)'
    PROVE  Ascending(builds'[w])
<1>. DEFINE b == bc[w]
            bs == builds[w]
            x == worker.inst
<1>0. /\ RefInv /\ CopiesAged /\ Line /\ BuildTypes /\ OwnersSeen
      /\ TypeInv /\ [Next]_vars
  BY BuildStep DEF OnceInv, RefInv
<1>1. /\ store[w] # NoVdb /\ (Own(w) \/ bs = <<>>)
      /\ Runs(w) => x.uid = store[w].uid
  BY <1>0, OwnStep
<1>2. /\ b \in BuildConfig \cup {NoBC} /\ bs \in Seq(Build)
      /\ b = NoBC => bs = <<>>
  BY <1>0 DEF BuildTypes, SBTypeOK
<1>3. Ascending(bs)
  BY <1>1 DEF OnceInv, Ascending
<1>4. CASE Runs(w)
  <2>. DEFINE n == Noted(x, b)
              y == NewBuild(x, n)
  <2>1. PICK c \in BuildRuns(x, b, bs) \cup FailedRuns(x, b, bs) :
           bc'[w] = c.bc /\ builds'[w] = c.builds
    BY <1>4 DEF Runs
  <2>2. Ran(x, b, bs, c)
    BY <1>2, <2>1, ChainsRun
  <2>3. /\ x.obj.status.version \in Nat \ {0}
        /\ Covers(b, bs, x.obj.status)
    BY <1>0, <1>1, <1>4, OwnStep, RunFacts
  <2>4. y.version = x.obj.status.version
    BY DEF NewBuild
  <2>5. builds'[w] = bs \/ (NeedsBuild(x, Adopted(x, b), bs) /\ builds'[w] = Append(bs, y))
    BY <2>1, <2>2 DEF Ran
  <2>6. NeedsBuild(x, Adopted(x, b), bs) =>
           \A i \in 1..Len(bs) : bs[i].version < y.version
    <3>1. SUFFICES ASSUME NeedsBuild(x, Adopted(x, b), bs), NEW i \in 1..Len(bs)
                   PROVE  bs[i].version < x.obj.status.version
      BY <2>4
    <3>2. Len(bs) \in Nat /\ Len(bs) \in 1..Len(bs)
      BY <1>2
    <3>3. b # NoBC /\ Adopted(x, b) = b
      BY <1>2, <3>2 DEF Adopted
    <3>4. b.digest # x.obj.status.digest
      BY <3>1, <3>2, <3>3 DEF NeedsBuild, LastVersion
    <3>5. /\ bs[Len(bs)].version \in Nat /\ bs[i].version \in Nat
          /\ bs[Len(bs)].version < x.obj.status.version
      BY <2>3, <3>2, <3>4 DEF Covers
    <3>6. bs[i].version <= bs[Len(bs)].version
      BY <1>3, <3>2, <3>5 DEF Ascending
    <3>. QED
      BY <2>3, <3>5, <3>6
  <2>. HIDE DEF y, n, b, x
  <2>7. /\ Len(Append(bs, y)) = Len(bs) + 1 /\ Len(bs) \in Nat
        /\ Append(bs, y)[Len(bs) + 1] = y
        /\ \A i \in 1..Len(bs) : Append(bs, y)[i] = bs[i]
    BY <1>2
  <2>8. (\A i \in 1..Len(bs) : bs[i].version < y.version) => Ascending(Append(bs, y))
    BY <1>3, <2>7 DEF Ascending
  <2>. QED
    BY <1>3, <2>5, <2>6, <2>8
<1>5. CASE Moves(w)
  <2>1. PICK p \in BuildPhases : MayMove(bs, p) /\ builds'[w] = Moved(bs, p)
    BY <1>5 DEF Moves
  <2>2. /\ Len(builds'[w]) = Len(bs)
        /\ \A i \in 1..Len(bs) : builds'[w][i].version = bs[i].version
    BY <1>2, <1>5, <2>1, MovedFacts
  <2>. QED
    BY <1>3, <2>2 DEF Ascending
<1>6. CASE builds'[w] = bs
  BY <1>3, <1>6
<1>7. ~Collected(w)
  BY DEF Collected, Own
<1>. QED
  BY <1>0, <1>4, <1>5, <1>6, <1>7, EffectStep DEF BuildTypes

\* initially there are neither copies nor builds
LEMMA OnceInit == SBInit => OnceInv
<1>. SUFFICES ASSUME SBInit PROVE OnceInv
  OBVIOUS
<1>1. Init /\ RefInv /\ Line /\ BuildTypes
  BY RefInit, LineInit, BuildTypesInit DEF SBInit
<1>2. /\ \A v \in VDBs : /\ store[v] = NoVdb /\ cache[v] = NoVdb /\ rev[v] = 0
                         /\ watch[v] = <<>> /\ bc[v] = NoBC
      /\ worker.pc = "idle"
  BY <1>1 DEF SBInit, Init, Idle
<1>3. \A S : Known(S, store, cache, watch, worker)
  BY <1>2 DEF Known
<1>4. CopiesAged
  BY <1>2, <1>3 DEF CopiesAged, Youngest
<1>5. OwnersSeen /\ \A v \in VDBs : ~Own(v)
  BY <1>2 DEF OwnersSeen, Own
<1>. QED
  BY <1>1, <1>3, <1>4, <1>5 DEF OnceInv, CopiesCount

LEMMA OnceStep ==
    ASSUME OnceInv, \A s \in UserSpecs : Counted(s), [SBNext]_sbVars
    PROVE  OnceInv'
<1>1. /\ RefInv /\ CopiesAged /\ Line /\ CopiesCount /\ BuildTypes /\ OwnersSeen
      /\ TypeInv /\ [Next]_vars
  BY BuildStep DEF OnceInv, RefInv
<1>2. RefInv'
  BY <1>1, RefStep
<1>3. CopiesAged' /\ Line' /\ CopiesCount'
  BY <1>1, AgedStep, LineStep, CountsStep
<1>4. BuildTypes' /\ OwnersSeen'
  BY <1>1, BuildTypesStep, OwnersSeenStep
<1>. QED
  BY <1>2, <1>3, <1>4, CoveredStep, AscendingStep DEF OnceInv

\* No version of a VirtualDatabase is sent to be built twice while the resource
\* that owns the BuildConfig lives, whatever retries after a conflict, a failed
\* call, a lost answer or a crash, for any number of edits and faults, if the
\* operator counts the versions itself.
THEOREM VersionsBuiltOnce ==
    ASSUME \A s \in UserSpecs : Counted(s)
    PROVE  SBSpec => []BuildRequestedOnce
<1>1. OnceInv /\ [SBNext]_sbVars => OnceInv'
  <2>1. CASE OnceInv /\ [SBNext]_sbVars
    BY <2>1, OnceStep
  <2>. QED
    BY <2>1
<1>2. OnceInv => BuildRequestedOnce
  <2>. SUFFICES ASSUME OnceInv, NEW v \in VDBs,
                       store[v] # NoVdb, bc[v] # NoBC, store[v].uid = bc[v].owner,
                       NEW i \in 1..Len(builds[v]), NEW j \in 1..Len(builds[v]),
                       builds[v][i].version = builds[v][j].version
                PROVE  i = j
    BY DEF BuildRequestedOnce
  <2>1. Own(v)
    BY DEF Own
  <2>2. Ascending(builds[v]) /\ builds[v] \in Seq(Build) /\ store[v] \in Covered[v]
    BY <2>1 DEF OnceInv, BuildTypes, SBTypeOK, Known
  <2>3. builds[v][i].version \in Nat
    BY <2>1, <2>2 DEF Covered, Covers
  <2>4. i \in Nat /\ j \in Nat
    BY <2>2
  <2>. QED
    BY <2>2, <2>3, <2>4 DEF Ascending
<1>. QED
  BY <1>1, <1>2, OnceInit, PTL DEF SBSpec

-----------------------------------------------------------------------------
(* The image is that of the digest.                                         *)

\* the source with digest d has been sent to be built, and is built
Sent(b, bs, d) ==
    b = NoBC \/ d \in BadDigests \/ (b.digest = d /\ bs # <<>>)
Built(b, bs, d) ==
    /\ Sent(b, bs, d)
    /\ b = NoBC \/ d \in BadDigests \/ bs[Len(bs)].phase = "Complete"

\* what status st promises
Promised(b, bs, st) ==
    /\ st.phase = ServiceImage => Sent(b, bs, st.digest)
    /\ st.phase \in ImageReady => Built(b, bs, st.digest)

\* the last build is of the source DIGEST names
Faithful(b, bs) ==
    bs # <<>> => /\ b # NoBC
                 /\ b.digest \in BadDigests \/ bs[Len(bs)].digest = b.digest

Promises ==
    ~Disturbed =>
      \A v \in VDBs :
        /\ Faithful(bc[v], builds[v])
        /\ store[v] # NoVdb =>
             /\ Promised(bc[v], builds[v], store[v].obj.status)
             /\ WillWrite(v) => Promised(bc[v], builds[v], worker.target.status)

ImageInv == RefInv /\ CopiesAged /\ Line /\ BuildTypes /\ CopiesBehind /\ Promises

\* what has been disturbed stays so
LEMMA DisturbedStays ==
    ASSUME TypeInv, BuildTypes, [SBNext]_sbVars, ~Disturbed'
    PROVE  ~Disturbed /\ callFaults = 0 /\ callFaults' = 0 /\ builderTag
<1>1. /\ TypeOK /\ [Next]_vars /\ callFaults \in Nat /\ callFaults' \in Nat
  BY BuildStep, BuildTypesStep, ServiceBuildAssumption
     DEF TypeInv, BuildTypes, SBTypeOK
<1>2. /\ spent["crashes"] \in Nat /\ spent'["crashes"] \in Nat
      /\ spent["crashes"] <= spent'["crashes"]
  BY <1>1, SpentGrows
<1>3. callFaults <= callFaults' /\ (builderTag' => builderTag)
  <2>1. CASE BuildServiceImage
    <3>1. worker.key \in VDBs
      BY <2>1, WorkerBusy DEF BuildServiceImage, AtStep, TypeInv
    <3>2. PICK c \in BuildRuns(worker.inst, bc[worker.key], builds[worker.key])
                   \cup FailedRuns(worker.inst, bc[worker.key], builds[worker.key]) :
             Leave(c)
      BY <2>1 DEF BuildServiceImage
    <3>3. c.faults \in {0, 1}
      BY <3>1, <3>2, ChainsRun DEF BuildTypes, SBTypeOK
    <3>4. callFaults' = callFaults + c.faults /\ builderTag' = builderTag
      BY <3>2 DEF Leave
    <3>. QED
      BY <1>1, <3>3, <3>4
  <2>2. CASE MonitorServiceImage
    BY <1>1, <2>2 DEF MonitorServiceImage
  <2>3. CASE \/ UNCHANGED buildVars \/ CrashInBuild \/ LoseBuilderTag
             \/ \E v \in VDBs : \/ \E p \in BuildPhases : BuildMoves(v, p)
                                \/ CollectGarbage(v)
    BY <1>1, <2>3 DEF buildVars, CrashInBuild, LoseBuilderTag, BuildMoves,
       CollectGarbage
  <2>. QED
    BY <2>1, <2>2, <2>3 DEF SBNext, sbVars
<1>. QED
  BY <1>1, <1>2, <1>3 DEF Disturbed

\* What a run of the handler that nothing interrupts leaves: all as it was, or
\* DIGEST recorded and a build of that source the last one, unless no payload
\* can be made of it.
Cleanly(x, b, bs, b2, bs2) ==
    \/ b2 = b /\ bs2 = bs
    \/ /\ b2 # NoBC /\ b2.digest = x.obj.status.digest
       /\ \/ /\ bs2 # <<>>
             /\ bs2[Len(bs2)].digest = x.obj.status.digest
          \/ bs2 = bs /\ x.obj.status.digest \in BadDigests

\* a run that returns nil leaves a build of the source requested
LEMMA CleanRuns ==
    ASSUME NEW x \in Stored, ~IsVdbUpdated(x.obj), builderTag,
           NEW b \in BuildConfig \cup {NoBC}, NEW bs \in Seq(Build),
           b = NoBC => bs = <<>>, NEW c \in BuildRuns(x, b, bs)
    PROVE  /\ Cleanly(x, b, bs, c.bc, c.builds)
           /\ Sent(c.bc, c.builds, x.obj.status.digest)
<1>. DEFINE n == Noted(x, b)
            y == NewBuild(x, n)
            a == Append(bs, y)
            need == NeedsBuild(x, Adopted(x, b), bs)
<1>1. \A u, v, f : Chain(u, v, f).bc = u /\ Chain(u, v, f).builds = v
  BY DEF Chain
<1>2. \/ ~need /\ c = Chain(Adopted(x, b), bs, 0)
      \/ c = Chain(n, a, 0)
  BY DEF BuildRuns, Adopted, Noted
<1>3. n # NoBC /\ n.digest = x.obj.status.digest /\ y \in Build
  BY MadeTypes, ServiceBuildAssumption
<1>4. y.digest = x.obj.status.digest
  BY DEF NewBuild, IsVdbUpdated
<1>5. CASE c = Chain(n, a, 0)
  <2>1. c.bc = n /\ c.builds = a
    BY <1>1, <1>5
  <2>. HIDE DEF n, y
  <2>2. Len(a) = Len(bs) + 1 /\ a[Len(a)] = y /\ a # <<>>
    BY <1>3
  <2>. QED
    BY <1>3, <1>4, <2>1, <2>2 DEF Cleanly, Sent
<1>6. CASE ~need /\ c = Chain(Adopted(x, b), bs, 0)
  <2>1. Len(bs) # 0 /\ Adopted(x, b).digest = x.obj.status.digest
    BY <1>6 DEF NeedsBuild, LastVersion
  <2>2. bs # <<>>
    BY <2>1
  <2>3. b # NoBC /\ Adopted(x, b) = b
    BY <2>2 DEF Adopted
  <2>4. c.bc = b /\ c.builds = bs
    BY <1>1, <1>6, <2>3
  <2>. QED
    BY <2>1, <2>2, <2>3, <2>4 DEF Cleanly, Sent
<1>. QED
  BY <1>2, <1>5, <1>6

\* the digest of a source no payload can be made of is a bad one
LEMMA BadDigest ==
    ASSUME NEW s \in VdbSpec, BadPayload(s)
    PROVE  ComputeForVirtualDatabase(s) \in BadDigests
<1>. DEFINE x == [ddl |-> s.ddl, maven |-> s.maven, openapi |-> s.openapi]
<1>1. x \in [ddl : Text, maven : Text, openapi : Text]
  BY DEF VdbSpec
<1>2. BadPayload(x) /\ ComputeForVirtualDatabase(x) = ComputeForVirtualDatabase(s)
  BY DEF BadPayload, ComputeForVirtualDatabase
<1>. HIDE DEF x
<1>. QED
  BY <1>1, <1>2 DEF BadDigests

\* a run that returns an error although no call failed
LEMMA CleanFailures ==
    ASSUME NEW x \in Stored, ~IsVdbUpdated(x.obj),
           NEW b \in BuildConfig \cup {NoBC}, NEW bs \in Seq(Build),
           NEW c \in FailedRuns(x, b, bs), c.faults = 0
    PROVE  Cleanly(x, b, bs, c.bc, c.builds)
<1>. DEFINE s == x.obj.spec
            n == Noted(x, b)
            b1 == Adopted(x, b)
            a == Append(bs, NewBuild(x, n))
<1>1. \A u, v, f : /\ Chain(u, v, f).bc = u /\ Chain(u, v, f).builds = v
                   /\ Chain(u, v, f).faults = f
  BY DEF Chain
<1>2. \/ c = Chain(b, bs, 0) \/ c = Chain(b, bs, 1)
      \/ c \in {Chain(b1, bs, 1), Chain(n, bs, 1), Chain(n, a, 1)}
      \/ BadPayload(s) /\ c = Chain(n, bs, 0)
  BY DEF FailedRuns, Adopted, Noted
<1>3. n # NoBC /\ n.digest = x.obj.status.digest
  BY MadeTypes, ServiceBuildAssumption
<1>4. BadPayload(s) => x.obj.status.digest \in BadDigests
  <2>1. s \in VdbSpec
    BY DEF Stored, Vdb
  <2>. QED
    BY <2>1, BadDigest DEF IsVdbUpdated
<1>. HIDE DEF n, b1, a, s
<1>5. \/ c.bc = b /\ c.builds = bs
      \/ BadPayload(s) /\ c.bc = n /\ c.builds = bs
  BY <1>1, <1>2
<1>. QED
  BY <1>3, <1>4, <1>5 DEF Cleanly

\* what a step that disturbs nothing does to the BuildConfig and the builds
LEMMA CleanStep ==
    ASSUME RefInv, BuildTypes, [SBNext]_sbVars, ~Disturbed', NEW w \in VDBs
    PROVE  \/ bc'[w] = bc[w] /\ builds'[w] = builds[w]
           \/ Moves(w) \/ Collected(w)
           \/ /\ BuildServiceImage /\ worker.key = w
              /\ Cleanly(worker.inst, bc[w], builds[w], bc'[w], builds'[w])
<1>. USE DEF BuildTypes, SBTypeOK
<1>. DEFINE Same == bc'[w] = bc[w] /\ builds'[w] = builds[w]
<1>0. /\ TypeInv /\ TypeOK /\ WorkerOK
      /\ callFaults = 0 /\ callFaults' = 0 /\ builderTag
  BY DisturbedStays DEF RefInv, TypeInv
<1>1. CASE UNCHANGED buildVars
  BY <1>1 DEF buildVars
<1>2. CASE BuildServiceImage
  <2>. DEFINE v == worker.key
              x == worker.inst
  <2>1. /\ v \in VDBs /\ x \in Stored /\ ~IsVdbUpdated(x.obj)
    BY <1>0, <1>2, WorkerBusy DEF BuildServiceImage, AtStep, WorkerOK
  <2>2. PICK c : /\ Leave(c)
                 /\ \/ c \in BuildRuns(x, bc[v], builds[v])
                    \/ c \in FailedRuns(x, bc[v], builds[v])
    BY <1>2 DEF BuildServiceImage
  <2>3. c.faults \in {0, 1} /\ callFaults' = callFaults + c.faults
    BY <2>1, <2>2, ChainsRun DEF Leave
  <2>4. c.faults = 0
    BY <1>0, <2>3
  <2>5. Cleanly(x, bc[v], builds[v], c.bc, c.builds)
    BY <1>0, <2>1, <2>2, <2>4, CleanRuns, CleanFailures
  <2>6. CASE v = w
    BY <1>2, <2>2, <2>5, <2>6 DEF Leave
  <2>7. CASE v # w
    BY <2>2, <2>7 DEF Leave
  <2>. QED
    BY <2>6, <2>7
<1>3. ~CrashInBuild
  <2>1. SUFFICES ASSUME CrashInBuild PROVE FALSE
    OBVIOUS
  <2>2. spent'["crashes"] = spent["crashes"] + 1 /\ spent["crashes"] \in Nat
    BY <1>0, <2>1, LimitNames DEF CrashInBuild, Crash, Spend, TypeOK
  <2>. QED
    BY <2>2 DEF Disturbed
<1>4. CASE MonitorServiceImage \/ LoseBuilderTag
  BY <1>4 DEF MonitorServiceImage, LoseBuilderTag
<1>5. ASSUME NEW v \in VDBs, NEW p \in BuildPhases, BuildMoves(v, p)
      PROVE  Same \/ Moves(w)
  BY <1>5 DEF BuildMoves, Moves
<1>6. ASSUME NEW v \in VDBs, CollectGarbage(v)
      PROVE  Same \/ Collected(w)
  BY <1>6 DEF CollectGarbage, Collected
<1>. QED
  BY <1>1, <1>2, <1>3, <1>4, <1>5, <1>6 DEF SBNext, sbVars

\* running or collecting builds keeps promises
LEMMA PromiseKept ==
    ASSUME BuildTypes, NEW w \in VDBs, NEW st, Promised(bc[w], builds[w], st),
           \/ bc'[w] = bc[w] /\ builds'[w] = builds[w]
           \/ Moves(w) \/ Collected(w)
    PROVE  Promised(bc'[w], builds'[w], st)
<1>. DEFINE bs == builds[w]
<1>1. CASE Moves(w)
  <2>1. bs \in Seq(Build)
    BY DEF BuildTypes, SBTypeOK
  <2>2. PICK p \in BuildPhases : MayMove(bs, p) /\ builds'[w] = Moved(bs, p)
    BY <1>1 DEF Moves
  <2>3. /\ builds'[w] \in Seq(Build) /\ Len(builds'[w]) = Len(bs) /\ bc'[w] = bc[w]
        /\ \A i \in 1..Len(bs) : bs[i].phase = "Complete" =>
                                    builds'[w][i].phase = "Complete"
    BY <1>1, <2>1, <2>2, MovedFacts DEF Moves
  <2>4. bs # <<>> => builds'[w] # <<>> /\ Len(bs) \in 1..Len(bs)
    BY <2>1, <2>3
  <2>5. \A d : Sent(bc[w], bs, d) => Sent(bc'[w], builds'[w], d)
    BY <2>3, <2>4 DEF Sent
  <2>6. \A d : Built(bc[w], bs, d) => Built(bc'[w], builds'[w], d)
    <3>. SUFFICES ASSUME NEW d, Built(bc[w], bs, d), bc[w] # NoBC, d \notin BadDigests
                  PROVE  builds'[w][Len(builds'[w])].phase = "Complete"
      BY <2>3, <2>5 DEF Built
    <3>1. bs # <<>> /\ bs[Len(bs)].phase = "Complete"
      BY DEF Built, Sent
    <3>. QED
      BY <2>3, <2>4, <3>1
  <2>. QED
    BY <2>5, <2>6 DEF Promised
<1>2. CASE Collected(w)
  BY <1>2 DEF Collected, Promised, Built, Sent
<1>3. CASE bc'[w] = bc[w] /\ builds'[w] = builds[w]
  BY <1>3
<1>. QED
  BY <1>1, <1>2, <1>3

\* DIGEST goes on naming the source of the last build
LEMMA FaithfulStep ==
    ASSUME RefInv, BuildTypes, [SBNext]_sbVars, ~Disturbed', NEW w \in VDBs,
           Faithful(bc[w], builds[w])
    PROVE  Faithful(bc'[w], builds'[w])
<1>. DEFINE bs == builds[w]
<1>1. CASE Moves(w)
  <2>1. bs \in Seq(Build)
    BY DEF BuildTypes, SBTypeOK
  <2>2. PICK p \in BuildPhases : MayMove(bs, p) /\ builds'[w] = Moved(bs, p)
    BY <1>1 DEF Moves
  <2>3. /\ builds'[w] \in Seq(Build) /\ Len(builds'[w]) = Len(bs) /\ bc'[w] = bc[w]
        /\ \A i \in 1..Len(bs) : builds'[w][i].digest = bs[i].digest
    BY <1>1, <2>1, <2>2, MovedFacts DEF Moves
  <2>4. builds'[w] # <<>> => bs # <<>> /\ Len(bs) \in 1..Len(bs)
    BY <2>1, <2>3
  <2>. QED
    BY <2>3, <2>4 DEF Faithful
<1>2. CASE Collected(w)
  BY <1>2 DEF Collected, Faithful
<1>3. CASE bc'[w] = bc[w] /\ builds'[w] = bs
  BY <1>3
<1>4. CASE Cleanly(worker.inst, bc[w], bs, bc'[w], builds'[w])
  BY <1>4 DEF Cleanly, Faithful
<1>. QED
  BY <1>1, <1>2, <1>3, <1>4, CleanStep

\* the stored status promises what is so
LEMMA StoredPromise ==
    ASSUME ImageInv, [SBNext]_sbVars, ~Disturbed', NEW w \in VDBs, store'[w] # NoVdb
    PROVE  Promised(bc'[w], builds'[w], store'[w].obj.status)
<1>0. /\ RefInv /\ BuildTypes /\ TypeInv /\ TypeOK /\ [Next]_vars /\ ~Disturbed
  BY BuildStep, DisturbedStays DEF ImageInv, RefInv, TypeInv
<1>1. \A st : st.phase = Initial => Promised(bc'[w], builds'[w], st)
  BY DistinctPhases DEF Promised
<1>2. store[w] # NoVdb =>
         /\ Promised(bc[w], builds[w], store[w].obj.status)
         /\ WillWrite(w) => Promised(bc[w], builds[w], worker.target.status)
  BY <1>0 DEF ImageInv, Promises
<1>3. CASE BuildServiceImage /\ worker.key = w
           /\ Cleanly(worker.inst, bc[w], builds[w], bc'[w], builds'[w])
  <2>. DEFINE x == worker.inst
              d == store[w].obj.status.digest
  <2>1. /\ store'[w] = store[w] /\ WorkingOn(w)
        /\ x.obj.status.phase = BuilderImageFinished
    BY <1>3 DEF BuildServiceImage, Handled, kubeVars, AtStep, WorkingOn
  <2>2. CASE store[w].obj.status.phase = Initial
    BY <1>1, <2>1, <2>2
  <2>3. CASE store[w].obj.status.phase # Initial
    <3>1. /\ store[w].obj.status.phase \notin ImageReady
          /\ store[w].obj.status.phase = ServiceImage => x.obj.status.digest = d
      BY <2>1, <2>3 DEF ImageInv, CopiesBehind, Behind
    <3>2. store[w].obj.status.phase = ServiceImage => Sent(bc'[w], builds'[w], d)
      <4>1. SUFFICES ASSUME store[w].obj.status.phase = ServiceImage
                     PROVE  Sent(bc'[w], builds'[w], d)
        OBVIOUS
      <4>2. Sent(bc[w], builds[w], d) /\ x.obj.status.digest = d
        BY <1>2, <2>1, <3>1, <4>1 DEF Promised
      <4>. QED
        BY <1>3, <4>2 DEF Cleanly, Sent
    <3>. QED
      BY <2>1, <3>1, <3>2 DEF Promised
  <2>. QED
    BY <2>2, <2>3
<1>4. CASE \/ bc'[w] = bc[w] /\ builds'[w] = builds[w]
           \/ Moves(w) \/ Collected(w)
  <2>1. \A st : Promised(bc[w], builds[w], st) => Promised(bc'[w], builds'[w], st)
    BY <1>0, <1>4, PromiseKept
  <2>2. CASE store'[w] = store[w] \/ Respecified(w)
    BY <1>2, <2>1, <2>2 DEF Respecified, Rewritten
  <2>3. CASE IsNew(w)
    <3>1. PICK u \in UserSpecs : store'[w].obj = NewVdb(u)
      BY <2>3 DEF IsNew
    <3>. QED
      BY <1>1, <3>1, NewVdbFields
  <2>4. CASE Redeployed(w)
    <3>1. store[w].obj \in Vdb
      BY <1>0, <2>4 DEF Redeployed, Rewritten, TypeOK, Stored
    <3>. QED
      BY <1>1, <2>4, <3>1, RedeployFields DEF Redeployed
  <2>5. CASE WrittenBack(w)
    BY <1>2, <2>1, <2>5 DEF WrittenBack, Rewritten, WillWrite, WorkingOn
  <2>. QED
    BY <1>0, <2>2, <2>3, <2>4, <2>5, ObjectStep
<1>. QED
  BY <1>0, <1>3, <1>4, CleanStep

\* The handler the worker is at, for the phases of the ServiceImage action.
LEMMA AtServiceImage ==
    ASSUME TypeInv, worker.pc = "handle",
           worker.inst.obj.status.phase \in {BuilderImageFinished, ServiceImage}
    PROVE  ~OtherHandlers
<1>1. BuildSteps[worker.step] = "ServiceImage"
  BY AtItsPhase
<1>. QED
  BY <1>1 DEF OtherHandlers, HandleInitialize, HandleCacheStore,
     HandleS2IBuilderImage, HandleCreateService, HandleCreateCertificate,
     HandleDeployment, HandlePrometheusMonitor, AtStep

\* the other handlers lead past the image only from past the image
LEMMA OtherPhases ==
    ASSUME NEW p, NEW q, PhaseStep(p, q), p \notin {BuilderImageFinished, ServiceImage}
    PROVE  q # ServiceImage /\ (q \in ImageReady => p \in ImageReady)
BY DEF PhaseStep, ImageReady, Initial, CreateCacheStore, S2IReady, BuilderImage,
   BuilderImageFinished, BuilderImageFailed, ServiceImage, ServiceImageFinished,
   ServiceImageFailed, ServiceCreated, KeystoreCreated, Deploying, Running, Error

\* what the worker is about to write over the stored version promises what is so
LEMMA TargetPromise ==
    ASSUME ImageInv, [SBNext]_sbVars, ~Disturbed', NEW w \in VDBs,
           store'[w] # NoVdb, WillWrite(w)'
    PROVE  Promised(bc'[w], builds'[w], worker'.target.status)
<1>. DEFINE x == worker.inst
            t == worker.inst.obj
            u == worker'.target
<1>0. /\ RefInv /\ BuildTypes /\ TypeInv /\ TypeOK /\ CopiesOK /\ [Next]_vars
      /\ ~Disturbed /\ callFaults = 0 /\ callFaults' = 0 /\ builderTag
      /\ RefInv' /\ WorkerOK'
  BY BuildStep, DisturbedStays, RefStep DEF ImageInv, RefInv, TypeInv
<1>1. \A st : st.phase \notin ImageReady \cup {ServiceImage} =>
                 Promised(bc'[w], builds'[w], st)
  BY DEF Promised
<1>2. store[w] # NoVdb =>
         /\ Promised(bc[w], builds[w], store[w].obj.status)
         /\ WillWrite(w) => Promised(bc[w], builds[w], worker.target.status)
  BY <1>0 DEF ImageInv, Promises
<1>3. WorkingOn(w)' /\ worker'.pc = "update" /\ worker'.inst.rv = store'[w].rv
  BY DEF WillWrite
<1>4. CASE worker' = worker
  <2>1. store'[w] = store[w] /\ WillWrite(w)
    BY <1>0, <1>4, WaitsToWrite
  <2>3. Promised(bc[w], builds[w], u.status)
    BY <1>2, <1>4, <2>1
  <2>4. ~BuildServiceImage
    BY <2>1 DEF BuildServiceImage, AtStep, WillWrite
  <2>. QED
    BY <1>0, <2>3, <2>4, CleanStep, PromiseKept
<1>5. ASSUME worker.pc = "handle", NEW o, Handled(o)
      PROVE  /\ store[w] # NoVdb /\ worker.key = w /\ x = store[w]
             /\ worker'.inst = x /\ u = o.target /\ t \in Vdb
  BY <1>0, <1>5, HandlesStored
<1>6. CASE Loop
  <2>1. ASSUME u = RedeployVdb(worker'.inst.obj)
        PROVE  Promised(bc'[w], builds'[w], u.status)
    <3>1. worker'.inst.obj \in Vdb
      <4>1. TypeOK'
        BY <1>0 DEF RefInv, TypeInv
      <4>. QED
        BY <1>3, <4>1 DEF TypeOK, Busy, Idle, Stored
    <3>2. u.status.phase = Initial
      BY <2>1, <3>1, RedeployFields
    <3>. QED
      BY <1>1, <3>2, DistinctPhases
  <2>. QED
    BY <1>3, <1>4, <1>6, <2>1, LoopWorker DEF WorkingOn, Idle
<1>7. CASE OtherHandlers /\ UNCHANGED buildVars
  <2>1. Handle
    BY <1>7 DEF OtherHandlers, Handle
  <2>2. PICK o : Handled(o)
    BY <1>0, <2>1, HandlerOutcome
  <2>3. worker.pc = "handle"
    BY <1>0, <2>1, HandlerOutcome
  <2>4. /\ store[w] # NoVdb /\ x = store[w] /\ worker'.inst = x /\ t \in Vdb
    BY <1>5, <2>2, <2>3
  <2>5. t.status.phase \notin {BuilderImageFinished, ServiceImage}
    BY <1>0, <1>7, <2>3, AtServiceImage
  <2>6. CASE u = RedeployVdb(t)
    BY <1>1, <2>4, <2>6, RedeployFields, DistinctPhases
  <2>7. CASE Advanced(t, u)
    <3>1. PhaseStep(t.status.phase, u.status.phase) /\ Kept(t, u)
      BY <2>4, <2>7, AdvancedFacts
    <3>2. /\ u.status.phase # ServiceImage
          /\ u.status.phase \in ImageReady => t.status.phase \in ImageReady
      BY <2>5, <3>1, OtherPhases
    <3>3. t.status.phase \in ImageReady => u.status.digest = t.status.digest
      BY <3>1, DistinctPhases DEF Kept
    <3>4. Promised(bc[w], builds[w], t.status)
      BY <1>2, <2>4
    <3>5. bc' = bc /\ builds' = builds
      BY <1>7 DEF buildVars
    <3>. QED
      BY <3>2, <3>3, <3>4, <3>5 DEF Promised
  <2>. QED
    BY <1>0, <1>3, <2>4, <2>6, <2>7 DEF WorkerOK
<1>8. CASE BuildServiceImage
  <2>1. worker.pc = "handle"
    BY <1>8 DEF BuildServiceImage, AtStep
  <2>2. ASSUME Handled(Fail(InPhase([t EXCEPT !.status.failure = "build"], Error)))
        PROVE  Promised(bc'[w], builds'[w], u.status)
    <3>. DEFINE t2 == [t EXCEPT !.status.failure = "build"]
    <3>1. u = InPhase(t2, Error) /\ t \in Vdb
      BY <1>5, <2>1, <2>2, ReturnTarget
    <3>2. t2 \in Vdb
      BY <3>1, FailureFields DEF Alike, Failures
    <3>. HIDE DEF t2
    <3>3. u.status.phase = Error
      BY <3>1, <3>2, InPhaseFields DEF Phases
    <3>. QED
      BY <1>1, <3>3, DistinctPhases
  <2>3. ASSUME NEW c \in BuildRuns(x, bc[worker.key], builds[worker.key]), Leave(c),
               Handled(Return(InPhase(t, ServiceImage)))
        PROVE  Promised(bc'[w], builds'[w], u.status)
    <3>1. u = InPhase(t, ServiceImage) /\ t \in Vdb /\ worker.key = w
      BY <1>5, <2>1, <2>3, ReturnTarget
    <3>2. u.status.phase = ServiceImage /\ u.status.digest = t.status.digest
      BY <3>1, InPhaseFields DEF Alike, Phases
    <3>3. x \in Stored /\ ~IsVdbUpdated(x.obj)
      BY <1>0, <2>1, WorkerBusy DEF RefInv, WorkerOK
    <3>4. /\ bc[w] \in BuildConfig \cup {NoBC} /\ builds[w] \in Seq(Build)
          /\ bc[w] = NoBC => builds[w] = <<>>
          /\ bc'[w] = c.bc /\ builds'[w] = c.builds
      BY <1>0, <2>3, <3>1 DEF BuildTypes, SBTypeOK, Leave
    <3>5. Sent(bc'[w], builds'[w], t.status.digest)
      BY <1>0, <2>3, <3>1, <3>3, <3>4, CleanRuns
    <3>. QED
      BY <3>2, <3>5, DistinctPhases DEF Promised
  <2>. QED
    BY <1>8, <2>2, <2>3 DEF BuildServiceImage
<1>9. CASE MonitorServiceImage
  <2>. DEFINE q == PhaseOfBuilds(builds[worker.key])
  <2>1. /\ worker.pc = "handle" /\ bc' = bc /\ builds' = builds
        /\ t.status.phase = ServiceImage /\ Handled(Return(InPhase(t, q)))
    BY <1>0, <1>9 DEF MonitorServiceImage, AtStep
  <2>2. u = InPhase(t, q) /\ t \in Vdb /\ worker.key = w /\ x = store[w] /\ store[w] # NoVdb
    BY <1>5, <2>1, ReturnTarget
  <2>3. q \in {ServiceImage, ServiceImageFinished, ServiceImageFailed}
    BY PhaseOfBuildsRange
  <2>4. u.status.phase = q /\ u.status.digest = t.status.digest
    <3>. HIDE DEF q
    <3>. QED
      BY <2>2, <2>3, InPhaseFields DEF Alike, Phases
  <2>5. Sent(bc[w], builds[w], t.status.digest)
    BY <1>2, <2>1, <2>2 DEF Promised
  <2>6. q = ServiceImageFinished => builds[w][Len(builds[w])].phase = "Complete"
    BY <2>2 DEF PhaseOfBuilds, ServiceImage, ServiceImageFinished, ServiceImageFailed
  <2>7. q = ServiceImageFinished => Built(bc[w], builds[w], t.status.digest)
    BY <2>5, <2>6 DEF Built
  <2>. HIDE DEF q
  <2>. QED
    BY <2>1, <2>3, <2>4, <2>5, <2>7, DistinctPhases DEF Promised
<1>10. CASE CrashInBuild
  BY <1>3, <1>10 DEF CrashInBuild, Crash, Restart, WorkingOn, Idle
<1>11. CASE \/ UNCHANGED sbVars \/ LoseBuilderTag
            \/ \E v \in VDBs : \/ \E p \in BuildPhases : BuildMoves(v, p)
                               \/ CollectGarbage(v)
  BY <1>4, <1>11 DEF sbVars, vars, LoseBuilderTag, BuildMoves, CollectGarbage
<1>. QED
  BY <1>6, <1>7, <1>8, <1>9, <1>10, <1>11 DEF SBNext

\* initially there is nothing to promise
LEMMA ImageInit == SBInit => ImageInv
<1>. SUFFICES ASSUME SBInit PROVE ImageInv
  OBVIOUS
<1>1. OnceInv
  BY OnceInit
<1>2. /\ \A v \in VDBs : store[v] = NoVdb /\ builds[v] = <<>>
  BY DEF SBInit, Init
<1>. QED
  BY <1>1, <1>2 DEF OnceInv, ImageInv, CopiesBehind, Promises, Faithful

LEMMA ImageStep ==
    ASSUME ImageInv, [SBNext]_sbVars
    PROVE  ImageInv'
<1>1. RefInv /\ CopiesAged /\ Line /\ BuildTypes /\ CopiesBehind /\ TypeInv /\ [Next]_vars
  BY BuildStep DEF ImageInv, RefInv
<1>2. RefInv' /\ CopiesAged' /\ Line' /\ BuildTypes' /\ CopiesBehind'
  BY <1>1, RefStep, AgedStep, LineStep, BuildTypesStep, BehindStep
<1>3. ASSUME ~Disturbed', NEW w \in VDBs
      PROVE  Faithful(bc'[w], builds'[w])
  <2>1. ~Disturbed
    BY <1>1, <1>3, DisturbedStays
  <2>2. Faithful(bc[w], builds[w])
    BY <2>1 DEF ImageInv, Promises
  <2>. QED
    BY <1>1, <1>3, <2>2, FaithfulStep
<1>. QED
  BY <1>2, <1>3, StoredPromise, TargetPromise DEF ImageInv, Promises

\* As long as nothing interrupts the handler between recording DIGEST and
\* requesting the build, a VirtualDatabase past its image build has the image
\* of the source its status names, unless no payload can be made of that
\* source: through any number of edits, conflicts, deletions, recreations,
\* collections and relists, in any interleaving.
THEOREM UndisturbedImagesMatch == SBSpec => []UndisturbedImageMatchesDigest
<1>1. ImageInv /\ [SBNext]_sbVars => ImageInv'
  BY ImageStep
<1>2. ImageInv => UndisturbedImageMatchesDigest
  <2>. SUFFICES ASSUME ImageInv, ~Disturbed, NEW v \in VDBs, store[v] # NoVdb,
                       store[v].obj.status.digest \notin BadDigests,
                       store[v].obj.status.phase \in ImageReady, bc[v] # NoBC
                PROVE  /\ Completed(v) # {}
                       /\ LatestImage(v).digest = store[v].obj.status.digest
    BY DEF UndisturbedImageMatchesDigest, ImageMatches
  <2>. DEFINE bs == builds[v]
              d == store[v].obj.status.digest
  <2>1. Faithful(bc[v], bs) /\ Built(bc[v], bs, d) /\ bs \in Seq(Build)
    BY DEF ImageInv, Promises, Promised, BuildTypes, SBTypeOK
  <2>2. bs # <<>> /\ bc[v].digest = d /\ bs[Len(bs)].phase = "Complete"
    BY <2>1 DEF Built, Sent
  <2>3. bs[Len(bs)].digest = d
    BY <2>1, <2>2 DEF Faithful
  <2>4. Len(bs) \in 1..Len(bs) /\ Len(bs) \in Nat
    BY <2>1, <2>2
  <2>5. Len(bs) \in Completed(v) /\ \A j \in Completed(v) : j \in Nat /\ j <= Len(bs)
    BY <2>2, <2>4 DEF Completed
  <2>. DEFINE k == CHOOSE i \in Completed(v) : \A j \in Completed(v) : j <= i
  <2>6. k \in Completed(v) /\ \A j \in Completed(v) : j <= k
    BY <2>5
  <2>. HIDE DEF k
  <2>7. k = Len(bs)
    BY <2>4, <2>5, <2>6
  <2>8. LatestImage(v) = bs[Len(bs)]
    BY <2>7 DEF LatestImage, k
  <2>. QED
    BY <2>3, <2>5, <2>8
<1>. QED
  BY <1>1, <1>2, ImageInit, PTL DEF SBSpec
=============================================================================
