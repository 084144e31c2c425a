---------------------------- MODULE BuilderProofs ----------------------------
(***************************************************************************)
(* Proofs about BuilderImage: requesting and monitoring the builds of the  *)
(* shared builder image returns only results that Reconciler lets the      *)
(* S2IBuilderImage action return, the image is built once unless its build *)
(* fails, and no VirtualDatabase goes on without it.                       *)
(***************************************************************************)
EXTENDS BuilderImage, RefinementProofs, FiniteSetTheorems, SequenceTheorems,
        WellFoundedInduction, TLAPS

Builds == Seq([phase : BuildPhases])

\* the builds of the builder image are builds
BuilderType == builder \in Builds

-----------------------------------------------------------------------------
(* How the list of builds changes.                                          *)

\* the builds that a request appends
NewBuilds(n) == [i \in 1..n |-> [phase |-> "New"]]

\* new builds are builds
LEMMA NewBuildsType ==
    ASSUME NEW n \in Nat
    PROVE  /\ NewBuilds(n) \in Builds
           /\ Len(NewBuilds(n)) = n
           /\ \A i \in 1..n : NewBuilds(n)[i] = [phase |-> "New"]
<1>1. [phase |-> "New"] \in [phase : BuildPhases]
  BY DEF BuildPhases
<1>2. NewBuilds(n) \in [1..n -> [phase : BuildPhases]]
  BY <1>1 DEF NewBuilds
<1>3. NewBuilds(n) \in Builds
  BY <1>2, SeqDef DEF Builds
<1>4. DOMAIN NewBuilds(n) = 1..n
  BY DEF NewBuilds
<1>. QED
  BY <1>3, <1>4 DEF NewBuilds, Builds

\* builds followed by builds
LEMMA AppendedBuilds ==
    ASSUME NEW s \in Builds, NEW u \in Builds
    PROVE  /\ s \o u \in Builds
           /\ Len(s \o u) = Len(s) + Len(u)
           /\ \A i \in 1..Len(s) : (s \o u)[i] = s[i]
<1>. DEFINE B == [phase : BuildPhases]
<1>1. s \in Seq(B) /\ u \in Seq(B)
  BY DEF Builds
<1>2. Len(s) \in Nat /\ Len(u) \in Nat
  BY <1>1, LenProperties
<1>. HIDE DEF B
<1>3. /\ s \o u \in Seq(B)
      /\ Len(s \o u) = Len(s) + Len(u)
      /\ \A i \in 1..Len(s) : (s \o u)[i] = s[i]
  BY <1>1, <1>2
<1>. QED
  BY <1>3 DEF B, Builds

\* a request appends at most as many builds as it asks for, and leaves those
\* that are there as they are
LEMMA RequestAppends ==
    ASSUME BuilderType, Len(builder) <= MaxBuilds, NEW n \in Nat, Request(n)
    PROVE  /\ BuilderType'
           /\ Len(builder') <= MaxBuilds
           /\ Len(builder') \in Len(builder)..(Len(builder) + n)
           /\ \A i \in 1..Len(builder) : builder'[i] = builder[i]
<1>. DEFINE room == MaxBuilds - Len(builder)
            made == IF n <= room THEN n ELSE room
<1>1. Len(builder) \in Nat /\ MaxBuilds \in Nat
  BY BuilderAssumption DEF BuilderType, Builds
<1>2. room \in Nat /\ made \in Nat /\ made <= n /\ made <= room
  BY <1>1
<1>3. builder' = builder \o NewBuilds(made)
  BY DEF Request, NewBuilds
<1>4. NewBuilds(made) \in Builds /\ Len(NewBuilds(made)) = made
  BY <1>2, NewBuildsType
<1>. HIDE DEF made
<1>5. /\ builder' \in Builds
      /\ Len(builder') = Len(builder) + made
      /\ \A i \in 1..Len(builder) : builder'[i] = builder[i]
  BY <1>3, <1>4, AppendedBuilds DEF BuilderType
<1>. QED
  BY <1>1, <1>2, <1>5 DEF BuilderType

\* a build that moves stays a build, and one that has ended stays as it is
LEMMA MovedBuilds ==
    ASSUME BuilderType, NEW p \in BuildPhases, BuilderMoves(p)
    PROVE  /\ BuilderType'
           /\ Len(builder') = Len(builder)
           /\ FailedBuilds(builder) \subseteq FailedBuilds(builder')
           /\ \A i \in 1..Len(builder) :
                 builder[i].phase = "Complete" => builder'[i].phase = "Complete"
<1>. DEFINE c == Current(builder)
<1>1. builder \in [1..Len(builder) -> [phase : BuildPhases]] /\ Len(builder) \in Nat
  BY LenProperties DEF BuilderType, Builds
<1>2. builder[c].phase \in {"New", "Running"}
  BY DEF BuilderMoves, MayMove
<1>3. builder' = [builder EXCEPT ![c].phase = p]
  BY DEF BuilderMoves, Moved
<1>. HIDE DEF c
<1>4. builder' \in [1..Len(builder) -> [phase : BuildPhases]]
  BY <1>1, <1>3
<1>5. builder' \in Builds
  BY <1>1, <1>4, SeqDef, ZenonT(60) DEF Builds
<1>6. Len(builder') = Len(builder)
  BY <1>1, <1>4, <1>5, LenProperties DEF Builds
<1>7. ASSUME NEW i \in 1..Len(builder), builder[i].phase \in {"Complete", "Failed"}
      PROVE  builder'[i].phase = builder[i].phase
  BY <1>1, <1>2, <1>3, <1>7
<1>. QED
  BY <1>5, <1>6, <1>7 DEF BuilderType, FailedBuilds

\* a set of build numbers that is not empty has a last one
LEMMA LastOf ==
    ASSUME NEW n \in Nat, NEW S \in SUBSET (1..n), S # {}
    PROVE  \E i \in S : \A j \in S : j <= i
<1>. DEFINE T == {n - i : i \in S}
<1>1. \A i \in S : i \in Int /\ n - i \in Nat /\ n - i \in T
  OBVIOUS
<1>2. T \subseteq Nat
  BY <1>1
<1>3. T # {}
  BY <1>1
<1>4. PICK x \in T : \A y \in T : <<y, x>> \notin OpToRel(<, Nat)
  <2>. HIDE DEF T
  <2>. QED
    BY <1>2, <1>3, NatLessThanWellFounded, WFMin
<1>5. \A y \in T : ~(y < x)
  BY <1>2, <1>4 DEF OpToRel
<1>6. PICK i \in S : x = n - i
  OBVIOUS
<1>7. ASSUME NEW j \in S PROVE j <= i
  <2>1. n - j \in T
    BY <1>1
  <2>2. ~(n - j < n - i)
    BY <1>5, <1>6, <2>1
  <2>3. i \in Int /\ j \in Int
    BY <1>1
  <2>. HIDE DEF T
  <2>. QED
    BY <2>2, <2>3
<1>. QED
  BY <1>7

\* one of these builds has made the image
HasImage(bs) == \E i \in 1..Len(bs) : bs[i].phase = "Complete"

\* what the shared builds say is a phase the monitor may report, and that the
\* image is finished only if one of them made it
LEMMA PhaseOfBuilderRange ==
    ASSUME NEW bs \in Builds
    PROVE  /\ PhaseOfBuilder(bs) \in {BuilderImage, BuilderImageFinished,
                                      BuilderImageFailed}
           /\ PhaseOfBuilder(bs) = BuilderImageFinished => HasImage(bs)
<1>. USE DEF BuilderImage, BuilderImageFinished, BuilderImageFailed
<1>. DEFINE started == {i \in 1..Len(bs) : bs[i].phase # "New"}
            last == CHOOSE i \in started : \A j \in started : j <= i
<1>1. CASE started = {}
  BY <1>1 DEF PhaseOfBuilder
<1>2. CASE started # {}
  <2>1. Len(bs) \in Nat /\ \A i \in 1..Len(bs) : bs[i] \in [phase : BuildPhases]
    BY LenProperties, ElementOfSeq DEF Builds
  <2>2. \E i \in started : \A j \in started : j <= i
    BY <1>2, <2>1, LastOf
  <2>3. last \in started
    BY <2>2
  <2>4. bs[last].phase \in {"Running", "Complete", "Failed"}
    BY <2>1, <2>3 DEF BuildPhases
  <2>5. PhaseOfBuilder(bs) =
           CASE bs[last].phase = "Complete" -> BuilderImageFinished
             [] bs[last].phase = "Failed"   -> BuilderImageFailed
             [] bs[last].phase = "Running"  -> BuilderImage
    BY <1>2 DEF PhaseOfBuilder
  <2>6. bs[last].phase = "Complete" => HasImage(bs)
    BY <2>3 DEF HasImage
  <2>. HIDE DEF last
  <2>. QED
    BY <2>4, <2>5, <2>6
<1>. QED
  BY <1>1, <1>2

-----------------------------------------------------------------------------
(* The builder image is built once.                                         *)

\* The inductive invariant: BuilderBuiltOnce needs to know no more than that
\* the builds are builds and that the bound is kept.
BuilderInv == /\ BuilderType
              /\ Len(builder) <= MaxBuilds
              /\ BuilderBuiltOnce

\* only the first build, or one for each failed build, is requested
LEMMA RequestedBounds ==
    ASSUME BuilderType
    PROVE  /\ Requested(builder) \in Nat
           /\ builder = <<>> => Requested(builder) = 1
           /\ builder # <<>> /\ FailedBuilds(builder) = {} => Requested(builder) = 0
<1>1. Len(builder) \in Nat
  BY LenProperties DEF BuilderType, Builds
<1>2. IsFiniteSet(FailedBuilds(builder))
  <2>1. IsFiniteSet(1..Len(builder))
    BY <1>1, FS_Interval
  <2>. QED
    BY <2>1, FS_Subset DEF FailedBuilds
<1>3. Cardinality(FailedBuilds(builder)) \in Nat
  BY <1>2, FS_CardinalityType
<1>. QED
  BY <1>3, FS_EmptySet DEF Requested

\* a request of no more builds than Requested allows keeps the invariant
LEMMA RequestKeepsInv ==
    ASSUME BuilderInv, NEW n \in 0..Requested(builder), Request(n)
    PROVE  BuilderInv'
<1>1. BuilderType /\ Len(builder) <= MaxBuilds
  BY DEF BuilderInv
<1>2. Requested(builder) \in Nat
  BY <1>1, RequestedBounds
<1>3. /\ BuilderType'
      /\ Len(builder') <= MaxBuilds
      /\ Len(builder') \in Len(builder)..(Len(builder) + n)
      /\ \A i \in 1..Len(builder) : builder'[i] = builder[i]
  BY <1>1, <1>2, RequestAppends
<1>4. Len(builder) \in Nat /\ Len(builder') \in Nat
  BY <1>1, <1>3, LenProperties DEF BuilderType, Builds
<1>5. FailedBuilds(builder) \subseteq FailedBuilds(builder')
  BY <1>3, <1>4 DEF FailedBuilds
<1>6. ASSUME FailedBuilds(builder') = {} PROVE Len(builder') <= 1
  <2>1. FailedBuilds(builder) = {}
    BY <1>5, <1>6
  <2>2. CASE builder = <<>>
    <3>1. Len(builder) = 0 /\ Requested(builder) = 1
      BY <1>1, <2>2, RequestedBounds
    <3>. QED
      BY <1>2, <1>3, <1>4, <3>1
  <2>3. CASE builder # <<>>
    <3>1. Requested(builder) = 0
      BY <1>1, <2>1, <2>3, RequestedBounds
    <3>2. Len(builder) <= 1
      BY <2>1 DEF BuilderInv, BuilderBuiltOnce
    <3>. QED
      BY <1>3, <1>4, <3>1, <3>2
  <2>. QED
    BY <2>2, <2>3
<1>. QED
  BY <1>3, <1>6 DEF BuilderInv, BuilderBuiltOnce

\* a step of a build keeps the invariant: a failed build stays failed
LEMMA MoveKeepsInv ==
    ASSUME BuilderInv, NEW p \in BuildPhases, BuilderMoves(p)
    PROVE  BuilderInv'
<1>1. /\ BuilderType'
      /\ Len(builder') = Len(builder)
      /\ FailedBuilds(builder) \subseteq FailedBuilds(builder')
  BY MovedBuilds DEF BuilderInv
<1>. QED
  BY <1>1 DEF BuilderInv, BuilderBuiltOnce

\* every step keeps the invariant: requests come from BuildBuilderImage, from
\* a call that failed or from a crash, and never ask for more than Requested
LEMMA BuilderNext == BuilderInv /\ [BINext]_biVars => BuilderInv'
<1>. SUFFICES ASSUME BuilderInv, [BINext]_biVars PROVE BuilderInv'
  OBVIOUS
<1>. USE DEF BuilderInv, BuilderType, BuilderBuiltOnce
<1>1. CASE UNCHANGED builder
  BY <1>1
<1>2. CASE BuildBuilderImage
  <2>1. Requested(builder) \in Nat
    BY RequestedBounds
  <2>2. UNCHANGED builder \/ \E n \in 0..Requested(builder) : Request(n)
    BY <1>2, <2>1 DEF BuildBuilderImage, FailsAfter
  <2>. QED
    BY <1>1, <2>2, RequestKeepsInv
<1>3. CASE CrashInBuilder
  BY <1>3, RequestKeepsInv DEF CrashInBuilder
<1>4. CASE MonitorBuilderImage
  <2>1. Requested(builder) \in Nat
    BY RequestedBounds
  <2>2. UNCHANGED builder \/ Request(0)
    BY <1>4 DEF MonitorBuilderImage, FailsAfter
  <2>. QED
    BY <1>1, <2>1, <2>2, RequestKeepsInv
<1>5. CASE \E p \in BuildPhases : BuilderMoves(p)
  BY <1>5, MoveKeepsInv
<1>. QED
  BY <1>1, <1>2, <1>3, <1>4, <1>5 DEF BINext, biVars, builderVars, ImportBaseImage

\* However many VirtualDatabases there are and whatever fails, the builder
\* image is built at most once unless a build of it has failed.
THEOREM BuiltOnce == BISpec => []BuilderBuiltOnce
<1>1. BIInit => BuilderInv
  <2>1. <<>> \in Builds /\ Len(<<>>) = 0
    BY EmptySeq DEF Builds
  <2>. QED
    BY <2>1, BuilderAssumption
       DEF BIInit, BuilderInv, BuilderType, BuilderBuiltOnce
<1>2. BuilderInv => BuilderBuiltOnce
  BY DEF BuilderInv
<1>. QED
  BY <1>1, <1>2, BuilderNext, PTL DEF BISpec

-----------------------------------------------------------------------------
(* BuilderImage implements Reconciler.                                      *)

\* requesting the build is a run of the S2IBuilderImage action
LEMMA BuildBuilderRefines == BuildBuilderImage => HandleS2IBuilderImage
<1>. SUFFICES ASSUME BuildBuilderImage PROVE HandleS2IBuilderImage
  OBVIOUS
<1>. DEFINE t == worker.inst.obj
<1>1. AtStep("S2IBuilderImage") /\ UNCHANGED consoleLinks
  BY DEF BuildBuilderImage
<1>2. t.status.phase = S2IReady
  BY DEF BuildBuilderImage
<1>3. Handled(Return(InPhase(t, BuilderImage))) \/ Handled(Fail(t))
  BY DEF BuildBuilderImage
<1>4. {Return(InPhase(t, BuilderImage)), Fail(t)} \subseteq S2IBuilderImageOutcomes(t)
  BY <1>2 DEF S2IBuilderImageOutcomes
<1>5. \E o \in S2IBuilderImageOutcomes(t) : Handled(o)
  BY <1>3, <1>4
<1>. QED
  BY <1>1, <1>5 DEF HandleS2IBuilderImage

\* so is monitoring the builds
LEMMA MonitorBuilderRefines ==
    BuilderType /\ MonitorBuilderImage => HandleS2IBuilderImage
<1>. SUFFICES ASSUME BuilderType, MonitorBuilderImage PROVE HandleS2IBuilderImage
  OBVIOUS
<1>. DEFINE t == worker.inst.obj
            p == PhaseOfBuilder(builder)
<1>1. AtStep("S2IBuilderImage") /\ UNCHANGED consoleLinks
  BY DEF MonitorBuilderImage
<1>2. t.status.phase = BuilderImage /\ t.status.phase # S2IReady
  BY DEF MonitorBuilderImage, BuilderImage, S2IReady
<1>3. Handled(Return(InPhase(t, p))) \/ Handled(Fail(t))
  BY DEF MonitorBuilderImage
<1>4. p \in {BuilderImage, BuilderImageFinished, BuilderImageFailed}
  BY PhaseOfBuilderRange DEF BuilderType
<1>. HIDE DEF p
<1>5. {Return(InPhase(t, p)), Fail(t)} \subseteq S2IBuilderImageOutcomes(t)
  BY <1>2, <1>4 DEF S2IBuilderImageOutcomes
<1>6. \E o \in S2IBuilderImageOutcomes(t) : Handled(o)
  BY <1>3, <1>5
<1>. QED
  BY <1>1, <1>6 DEF HandleS2IBuilderImage

\* every step is a step of Reconciler or leaves its variables alone
LEMMA BuilderStep == BuilderInv /\ [BINext]_biVars => [Next]_vars
<1>. SUFFICES ASSUME BuilderInv, [BINext]_biVars PROVE [Next]_vars
  OBVIOUS
<1>1. CASE UNCHANGED biVars
  BY <1>1 DEF biVars
<1>2. CASE Loop \/ AfterBuilder
  BY <1>2 DEF Next, AfterBuilder, Handle
<1>3. CASE BuildBuilderImage
  BY <1>3, BuildBuilderRefines DEF Next, Handle
<1>4. CASE CrashInBuilder
  BY <1>4 DEF CrashInBuilder, Next, Loop
<1>5. CASE MonitorBuilderImage
  BY <1>5, MonitorBuilderRefines DEF Next, Handle, BuilderInv
<1>6. CASE \E p \in BuildPhases : BuilderMoves(p)
  BY <1>6 DEF BuilderMoves
<1>7. CASE ImportBaseImage
  BY <1>7 DEF ImportBaseImage
<1>. QED
  BY <1>1, <1>2, <1>3, <1>4, <1>5, <1>6, <1>7 DEF BINext

\* nothing has been built and nothing is known at first
LEMMA BuilderStart == BIInit => Init /\ BuilderInv
<1>1. <<>> \in Builds /\ Len(<<>>) = 0
  BY EmptySeq DEF Builds
<1>. QED
  BY <1>1, BuilderAssumption
     DEF BIInit, BuilderInv, BuilderType, BuilderBuiltOnce

\* Every behaviour of the operator with the builds of the shared builder image
\* is a behaviour of Reconciler.
THEOREM BuilderImageImplementsReconciler == BISpec => BuilderImplementsReconciler
BY BuilderStart, BuilderStep, BuilderNext, PTL
   DEF BISpec, BuilderImplementsReconciler, Spec

-----------------------------------------------------------------------------
(* Nobody goes on without the builder image.                                *)

\* The monitor reports the image some steps before its report is stored, and
\* by then the builds may have gone on: the image must still be there.
Reported ==
    /\ worker.pc = "update"
    /\ worker.inst.obj.status.phase = BuilderImage
    /\ worker.target.status.phase = BuilderImageFinished

\* the part of the invariant that the builds of one step and the loop of the
\* next have to agree on
ImageInv == RefInv /\ BuilderInv /\ BuilderImageExists /\ (Reported => HasImage(builder))

\* an image that has been made stays
LEMMA ImageStays ==
    ASSUME BuilderInv, HasImage(builder),
           \/ UNCHANGED builder
           \/ \E n \in 0..Requested(builder) : Request(n)
           \/ \E p \in BuildPhases : BuilderMoves(p)
    PROVE  HasImage(builder')
<1>1. PICK i \in 1..Len(builder) : builder[i].phase = "Complete"
  BY DEF HasImage
<1>2. BuilderType /\ Len(builder) <= MaxBuilds /\ Len(builder) \in Nat
  BY LenProperties DEF BuilderInv, BuilderType, Builds
<1>3. CASE UNCHANGED builder
  BY <1>3
<1>4. ASSUME NEW n \in 0..Requested(builder), Request(n)
      PROVE  HasImage(builder')
  <2>1. n \in Nat
    BY <1>2, RequestedBounds
  <2>2. /\ Len(builder') \in Len(builder)..(Len(builder) + n)
        /\ builder'[i] = builder[i]
    BY <1>2, <1>4, <2>1, RequestAppends
  <2>. QED
    BY <1>1, <1>2, <2>1, <2>2 DEF HasImage
<1>5. ASSUME NEW p \in BuildPhases, BuilderMoves(p)
      PROVE  HasImage(builder')
  <2>1. Len(builder') = Len(builder) /\ builder'[i].phase = "Complete"
    BY <1>1, <1>2, <1>5, MovedBuilds
  <2>. QED
    BY <2>1 DEF HasImage
<1>. QED
  BY <1>3, <1>4, <1>5

\* a worker that monitors reports the image only if it is there
LEMMA MonitorReports ==
    ASSUME TypeInv, BuilderType, MonitorBuilderImage, Reported'
    PROVE  HasImage(builder)
<1>. DEFINE t == worker.inst.obj
            p == PhaseOfBuilder(builder)
<1>1. worker.pc = "handle" /\ t \in Vdb /\ t.status.phase = BuilderImage
  BY WorkerBusy DEF MonitorBuilderImage, AtStep, TypeInv
<1>2. Handled(Return(InPhase(t, p))) \/ Handled(Fail(t))
  BY DEF MonitorBuilderImage
<1>3. worker'.target = InPhase(t, p) \/ worker'.target = t
  BY <1>1, <1>2, HandledWorker, ReturnTarget DEF Reported, Idle, TypeInv
<1>4. p \in Phases /\ (p = BuilderImageFinished => HasImage(builder))
  BY PhaseOfBuilderRange DEF BuilderType, Phases
<1>5. InPhase(t, p).status.phase = p
  BY <1>1, <1>4, InPhaseFields
<1>. HIDE DEF p
<1>. QED
  BY <1>1, <1>3, <1>4, <1>5 DEF Reported, BuilderImage, BuilderImageFinished

\* the other handlers do not meet a resource that waits for the builder image
LEMMA OthersDoNotReport ==
    ASSUME TypeInv, NEW o, Handled(o), worker.pc = "handle",
           \/ BuildSteps[worker.step] # "S2IBuilderImage"
           \/ worker.inst.obj.status.phase # BuilderImage
    PROVE  ~Reported'
<1>1. worker.inst.obj.status.phase # BuilderImage
  BY AtItsPhase
<1>2. worker' = Idle \/ worker'.inst = worker.inst
  BY HandledWorker DEF TypeInv
<1>. QED
  BY <1>1, <1>2 DEF Reported, Idle

\* nor does a step of the loop report anything
LEMMA LoopDoesNotReport ==
    ASSUME TypeInv', Loop, Reported'
    PROVE  worker' = worker
<1>1. worker' # Idle /\ worker'.pc # "handle"
  BY DEF Reported, Idle
<1>2. worker'.inst.obj \in Vdb
  BY WorkerBusy DEF Reported, TypeInv, TypeOK, Busy, Stored, Idle
<1>3. worker'.target # RedeployVdb(worker'.inst.obj)
  BY <1>2, RedeployFields DEF Reported, Initial, BuilderImageFinished
<1>. QED
  BY <1>1, <1>3, LoopWorker

\* who is past the builder image got there by a report
LEMMA StoredWithImage ==
    ASSUME RefInv, BuilderImageExists, Reported => HasImage(builder),
           [Next]_vars, HasImage(builder) => HasImage(builder')
    PROVE  BuilderImageExists'
<1>. SUFFICES ASSUME NEW w \in VDBs, store'[w] # NoVdb,
                     store'[w].obj.status.phase \in PastBuilder
              PROVE  HasImage(builder')
  BY DEF BuilderImageExists, HasImage
<1>. DEFINE q == store'[w].obj.status.phase
            p == store[w].obj.status.phase
<1>1. store[w] # NoVdb /\ p \in PastBuilder => HasImage(builder)
  BY DEF BuilderImageExists, HasImage
<1>2. Initial \notin PastBuilder
  BY DEF PastBuilder, Initial, BuilderImageFinished, ServiceImage, ServiceImageFinished,
     ServiceImageFailed, ServiceCreated, KeystoreCreated, Deploying, Running, Error
<1>3. store[w] # NoVdb => store[w].obj \in Vdb
  BY DEF RefInv, TypeInv, TypeOK, Stored
<1>4. CASE store'[w] = store[w]
  BY <1>1, <1>4
<1>5. CASE IsNew(w)
  BY <1>2, <1>5, NewVdbFields DEF IsNew
<1>6. CASE Respecified(w)
  BY <1>1, <1>6 DEF Respecified, Rewritten
<1>7. CASE Redeployed(w)
  BY <1>2, <1>3, <1>7, RedeployFields DEF Redeployed, Rewritten
<1>8. CASE WrittenBack(w)
  <2>1. PhaseStep(p, q) /\ store[w] # NoVdb
    BY <1>3, <1>8, AdvancedFacts DEF WrittenBack, Rewritten
  <2>2. p \in PastBuilder \/ (p = BuilderImage /\ q = BuilderImageFinished)
    BY <2>1 DEF PhaseStep, PastBuilder, Initial, CreateCacheStore, S2IReady,
       BuilderImage, BuilderImageFinished, BuilderImageFailed, ServiceImage,
       ServiceImageFinished, ServiceImageFailed, ServiceCreated, KeystoreCreated,
       Deploying, Running, Error
  <2>3. p = BuilderImage /\ q = BuilderImageFinished => Reported
    BY <1>8 DEF WrittenBack, Reported
  <2>. QED
    BY <1>1, <2>1, <2>2, <2>3
<1>. QED
  BY <1>4, <1>5, <1>6, <1>7, <1>8, ObjectStep

\* every step keeps the invariant
LEMMA ImageStep == ImageInv /\ [BINext]_biVars => ImageInv'
<1>. SUFFICES ASSUME ImageInv, [BINext]_biVars PROVE ImageInv'
  OBVIOUS
<1>. USE DEF ImageInv
<1>1. TypeInv /\ BuilderType
  BY DEF RefInv, BuilderInv
<1>2. [Next]_vars /\ BuilderInv'
  BY BuilderStep, BuilderNext
<1>3. RefInv' /\ TypeInv'
  BY <1>2, RefStep DEF RefInv
<1>4. Requested(builder) \in Nat
  BY <1>1, RequestedBounds
<1>5. HasImage(builder) => HasImage(builder')
  <2>1. \/ UNCHANGED builder
        \/ \E n \in 0..Requested(builder) : Request(n)
        \/ \E p \in BuildPhases : BuilderMoves(p)
    BY <1>4 DEF BINext, biVars, builderVars, BuildBuilderImage, MonitorBuilderImage,
       CrashInBuilder, FailsAfter, ImportBaseImage
  <2>. QED
    BY <2>1, ImageStays
<1>6. BuilderImageExists'
  BY <1>2, <1>5, StoredWithImage
<1>7. ASSUME Reported' PROVE HasImage(builder')
  <2>1. CASE worker' = worker
    BY <1>5, <1>7, <2>1 DEF Reported
  <2>2. CASE Loop
    BY <1>3, <1>7, <2>1, <2>2, LoopDoesNotReport
  <2>3. CASE AfterBuilder
    <3>1. /\ worker.pc = "handle" /\ BuildSteps[worker.step] # "S2IBuilderImage"
          /\ \E o : Handled(o)
      BY <2>3 DEF AfterBuilder, AtStep, HandleInitialize, HandleCacheStore,
         HandleServiceImage, HandleCreateService, HandleCreateCertificate,
         HandleDeployment, HandlePrometheusMonitor
    <3>. QED
      BY <1>1, <1>7, <3>1, OthersDoNotReport
  <2>4. CASE BuildBuilderImage
    <3>1. /\ worker.pc = "handle" /\ worker.inst.obj.status.phase # BuilderImage
          /\ \E o : Handled(o)
      BY <2>4 DEF BuildBuilderImage, AtStep, S2IReady, BuilderImage
    <3>. QED
      BY <1>1, <1>7, <3>1, OthersDoNotReport
  <2>5. CASE CrashInBuilder
    BY <1>7, <2>5 DEF CrashInBuilder, Crash, Restart, Reported, Idle
  <2>6. CASE MonitorBuilderImage
    BY <1>1, <1>5, <1>7, <2>6, MonitorReports
  <2>. QED
    BY <2>1, <2>2, <2>3, <2>4, <2>5, <2>6
       DEF BINext, biVars, vars, BuilderMoves, ImportBaseImage
<1>. QED
  BY <1>2, <1>3, <1>6, <1>7

\* No VirtualDatabase is ever stored past "Building Base Builder Image" without
\* a complete build of the shared image, however stale the report that took it
\* there: the monitor looks at builds that others requested, its report may be
\* written late, refused, lost or repeated, and requests and builds go on.
THEOREM NobodyPassesWithoutImage == BISpec => []BuilderImageExists
<1>1. BIInit => ImageInv
  BY BuilderStart, RefInit DEF BIInit, Init, Idle, ImageInv, BuilderImageExists, Reported
<1>2. ImageInv => BuilderImageExists
  BY DEF ImageInv
<1>. QED
  BY <1>1, <1>2, ImageStep, PTL DEF BISpec
=============================================================================
