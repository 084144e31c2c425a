-------------------------- MODULE DeploymentProofs ---------------------------
(***************************************************************************)
(* Deployment implements Reconciler: creating, monitoring and updating the *)
(* Deployment object returns only results that Reconciler lets the         *)
(* Deployment action return, and Initialize and the service build are      *)
(* restricted, never extended.  What is proved of Reconciler's behaviours  *)
(* therefore holds of the operator with its Deployments and pods.          *)
(*                                                                         *)
(* Merging lists of variables gives each the value of the first list that  *)
(* has it, so that every environment that is written is the one the        *)
(* resource asks for.  The image of a Deployment is that of the source its *)
(* VirtualDatabase names, because a copy the handlers work on is at most   *)
(* one status behind the stored one (the copies are in line).              *)
(***************************************************************************)
EXTENDS Deployment, RefinementProofs, WellFoundedInduction, FiniteSetTheorems,
        SequenceTheorems

-----------------------------------------------------------------------------
(* The refinement of Reconciler.                                            *)

\* the revisions are known; with the types of Reconciler, this makes every
\* digest that ensureReplicas computes one that Reconciler knows
ConfigOK == config \in [VDBs -> Revisions]

DInv == TypeInv /\ ConfigOK

\* creating or updating the Deployment is a run of the Deployment action
LEMMA CreateRefines == CreateDeployment => HandleDeployment
<1>. SUFFICES ASSUME CreateDeployment PROVE HandleDeployment
  OBVIOUS
<1>. DEFINE t == worker.inst.obj
<1>1. AtStep("Deployment") /\ UNCHANGED consoleLinks
  BY DEF CreateDeployment
<1>2. t.status.phase = KeystoreCreated
  BY DEF CreateDeployment
<1>3. Handled(Return(InPhase(t, Deploying))) \/ Handled(Fail(t))
  BY DEF CreateDeployment
<1>4. {Return(InPhase(t, Deploying)), Fail(t)} \subseteq DeploymentOutcomes(t)
  BY <1>2 DEF DeploymentOutcomes, KeystoreCreated, Deploying, Running
<1>. QED
  BY <1>1, <1>3, <1>4 DEF HandleDeployment

\* the worker's copy is a resource
LEMMA CopyType == ASSUME TypeInv, AtStep("Deployment")
                  PROVE  worker.key \in VDBs /\ worker.inst.obj \in Vdb
BY WorkerBusy DEF AtStep, TypeInv, Busy, Stored

\* a resource that is in a phase is itself in that phase
LEMMA SamePhase == ASSUME NEW t \in Vdb PROVE InPhase(t, t.status.phase) = t
BY DEF InPhase, Vdb, VdbStatus

\* so is following its rollout
LEMMA MonitorDeploymentRefines == TypeInv /\ MonitorDeployment => HandleDeployment
<1>. SUFFICES ASSUME TypeInv, MonitorDeployment PROVE HandleDeployment
  OBVIOUS
<1>. DEFINE t == worker.inst.obj
            p == Monitored(worker.key)
<1>1. AtStep("Deployment") /\ UNCHANGED consoleLinks
  BY DEF MonitorDeployment
<1>2. t.status.phase = Deploying
  BY DEF MonitorDeployment
<1>3. p \in {Deploying, Running, Error}
  BY DEF Monitored
<1>4. DeploymentOutcomes(t) = {Return(InPhase(t, q)) : q \in {Deploying, Running, Error}}
  BY <1>2 DEF DeploymentOutcomes, KeystoreCreated, Deploying, Running
<1>5. InPhase(t, Deploying) = t
  BY <1>1, <1>2, CopyType, SamePhase
<1>6. Handled(Return(InPhase(t, p))) \/ Handled(Return(t))
  BY DEF MonitorDeployment
<1>7. \E o \in DeploymentOutcomes(t) : Handled(o)
  BY <1>3, <1>4, <1>5, <1>6
<1>. QED
  BY <1>1, <1>7 DEF HandleDeployment

\* what ensureReplicas makes of a resource is what Reconciler lets it be
LEMMA RunsRefine ==
    ASSUME DInv, AtStep("Deployment"), worker.inst.obj.spec.replicas # NoReplicas,
           NEW r \in EnsureRuns(worker.inst.obj, worker.key)
    PROVE  r.target \in Redigested(worker.inst.obj)
<1>. DEFINE t == worker.inst.obj
            c == ComputeConfigDigest(worker.key, t.spec)
<1>1. worker.key \in VDBs /\ t \in Vdb
  BY CopyType DEF DInv
<1>2. config[worker.key] \in Revisions /\ t.spec.env \in Text
  BY <1>1 DEF DInv, ConfigOK, Vdb, VdbSpec
<1>3. c \in ConfigDigests \ {NoConfigDigest}
  BY <1>2, DeploymentAssumption DEF ComputeConfigDigest
<1>4. r.target \in {t, [t EXCEPT !.status.configDigest = c]}
  BY DEF EnsureRuns
<1>. QED
  BY <1>3, <1>4 DEF Redigested

\* so is a run of ensureReplicas
LEMMA EnsureRefines == DInv /\ EnsureReplicas => HandleDeployment
<1>. SUFFICES ASSUME DInv, EnsureReplicas PROVE HandleDeployment
  OBVIOUS
<1>. DEFINE t == worker.inst.obj
            R == Redigested(t)
<1>1. AtStep("Deployment") /\ UNCHANGED consoleLinks
  BY DEF EnsureReplicas
<1>2. t.status.phase = Running
  BY DEF EnsureReplicas
<1>3. DeploymentOutcomes(t) = {Return(u) : u \in R} \cup {Fail(u) : u \in R}
  BY <1>2 DEF DeploymentOutcomes, KeystoreCreated, Deploying, Running
<1>4. t \in R
  BY DEF Redigested
<1>5. \/ Handled(Fail(t))
      \/ /\ t.spec.replicas # NoReplicas
         /\ \E r \in EnsureRuns(t, worker.key) :
               Handled(Return(r.target)) \/ Handled(Fail(r.target))
  BY DEF EnsureReplicas
<1>6. \E o \in DeploymentOutcomes(t) : Handled(o)
  BY <1>1, <1>3, <1>4, <1>5, RunsRefine
<1>. QED
  BY <1>1, <1>6 DEF HandleDeployment

\* and so is leaving a Deployment alone that is not ready
LEMMA NothingRefines == NothingToEnsure => HandleDeployment
<1>. SUFFICES ASSUME NothingToEnsure PROVE HandleDeployment
  OBVIOUS
<1>. DEFINE t == worker.inst.obj
<1>1. Return(t) \in DeploymentOutcomes(t)
  BY DEF NothingToEnsure, DeploymentOutcomes, Redigested, KeystoreCreated, Deploying,
         Running
<1>. QED
  BY <1>1 DEF NothingToEnsure, HandleDeployment

\* every step is a step of Reconciler or leaves its variables alone
LEMMA StepRefines == DInv /\ [DNext]_dVars => [Next]_vars
<1>. SUFFICES ASSUME DInv, [DNext]_dVars PROVE [Next]_vars
  OBVIOUS
<1>1. CASE UNCHANGED dVars
  BY <1>1 DEF dVars
<1>2. CASE RestOfLoop
  BY <1>2 DEF RestOfLoop, EnsurePanics, Next, Loop, Handle
<1>3. CASE InitializeReads \/ ServiceImageBuilt
  BY <1>3 DEF InitializeReads, ServiceImageBuilt, Next, Handle
<1>4. CASE HandleDeploymentObject
  BY <1>4, CreateRefines, MonitorDeploymentRefines, EnsureRefines, NothingRefines
     DEF HandleDeploymentObject, DInv, Next, Handle
<1>5. CASE CrashInDeployment
  BY <1>5 DEF CrashInDeployment, Next, Loop
<1>6. CASE \E v \in VDBs : \/ Rollout(v) \/ RolloutStops(v) \/ CollectDeployment(v)
                           \/ \E c \in Revisions : EditConfig(v, c)
  BY <1>6 DEF Rollout, RolloutStops, CollectDeployment, EditConfig
<1>. QED
  BY <1>1, <1>2, <1>3, <1>4, <1>5, <1>6 DEF DNext

\* only a user's edit moves the configuration, and to a revision
LEMMA ConfigStep == ConfigOK /\ [DNext]_dVars => ConfigOK'
<1>. SUFFICES ASSUME ConfigOK, [DNext]_dVars PROVE ConfigOK'
  OBVIOUS
<1>1. CASE UNCHANGED config
  BY <1>1 DEF ConfigOK
<1>2. CASE \E v \in VDBs, c \in Revisions : EditConfig(v, c)
  BY <1>2 DEF ConfigOK, EditConfig
<1>3. CASE (RestOfLoop /\ UNCHANGED depVars) \/ InitializeReads \/ ServiceImageBuilt
           \/ HandleDeploymentObject \/ CrashInDeployment
  BY <1>1, <1>3 DEF InitializeReads, ServiceImageBuilt, HandleDeploymentObject,
     CreateDeployment, MonitorDeployment, EnsureReplicas, NothingToEnsure,
     CrashInDeployment, Stays, depVars
<1>4. CASE \E v \in VDBs : Rollout(v) \/ RolloutStops(v) \/ CollectDeployment(v)
  BY <1>1, <1>4 DEF Rollout, RolloutStops, CollectDeployment
<1>. QED
  BY <1>1, <1>2, <1>3, <1>4 DEF DNext, dVars, depVars

\* Every behaviour of the operator with its Deployments, their rollouts, failing
\* updates and edited ConfigMaps is a behaviour of Reconciler: in particular the
\* digest that ensureReplicas records is always that of a known configuration.
THEOREM DeploymentRefines == DSpec => DeploymentImplementsReconciler
<1>1. DInit => Init /\ DInv
  BY TypeInit, DeploymentAssumption DEF DInit, DInv, ConfigOK
<1>2. DInv /\ [DNext]_dVars => [Next]_vars /\ DInv'
  BY StepRefines, TypeStep, ConfigStep DEF DInv
<1>. QED
  BY <1>1, <1>2, PTL DEF DSpec, DeploymentImplementsReconciler, Spec

-----------------------------------------------------------------------------
(* Lists of variables: the first of each name counts.                       *)

LEMMA LessIsWellFounded ==
    ASSUME NEW R, R = {ss \in Nat \X Nat : ss[1] < ss[2]}
    PROVE  IsWellFoundedOn(R, Nat)
  BY NatLessThanWellFounded DEF OpToRel

\* a set of natural numbers that is not empty has a least one
LEMMA LeastNatural ==
    ASSUME NEW N, N \subseteq Nat, N # {}
    PROVE  \E x \in N : \A y \in N : ~(y < x)
<1>1. PICK R : R = {ss \in Nat \X Nat : ss[1] < ss[2]}
  OBVIOUS
<1>2. \E x \in N : \A y \in N : ~(<<y, x>> \in R)
  BY <1>1, LessIsWellFounded, WFMin
<1>. QED  BY <1>1, <1>2

\* the first variable of name n is the i-th
FirstIs(l, n, i) == i \in Named(l, n) /\ \A j \in Named(l, n) : i <= j

\* lists that give every name the same variable, or none
SameMeaning(a, b) ==
    \A n : /\ Has(a, n) <=> Has(b, n)
           /\ Has(a, n) => Get(a, n) = Get(b, n)

LEMMA SameTrans ==
    ASSUME NEW a, NEW b, NEW c, SameMeaning(a, b), SameMeaning(b, c)
    PROVE  SameMeaning(a, c)
  BY DEF SameMeaning

LEMMA SameSelf == ASSUME NEW a PROVE SameMeaning(a, a)
  BY DEF SameMeaning

LEMMA SameBack == ASSUME NEW a, NEW b, SameMeaning(a, b) PROVE SameMeaning(b, a)
  BY DEF SameMeaning

LEMMA FirstGives ==
    ASSUME NEW l \in Seq(EnvVar), NEW n, NEW i, FirstIs(l, n, i)
    PROVE  /\ Has(l, n)
           /\ Get(l, n) = l[i]
           /\ (CHOOSE k \in Named(l, n) : \A j \in Named(l, n) : k <= j) = i
           /\ i \in DOMAIN l
           /\ l[i].name = n
<1>1. Named(l, n) \subseteq Nat
  BY DEF Named
<1>2. ASSUME NEW k \in Named(l, n), \A j \in Named(l, n) : k <= j
      PROVE  k = i
  <2>1. k <= i /\ i <= k /\ k \in Nat /\ i \in Nat
    BY <1>1, <1>2 DEF FirstIs
  <2>. QED  BY <2>1
<1>3. (CHOOSE k \in Named(l, n) : \A j \in Named(l, n) : k <= j) = i
  BY <1>2, Zenon DEF FirstIs
<1>. QED  BY <1>3 DEF FirstIs, Get, Has, Named

LEMMA FirstThere ==
    ASSUME NEW l \in Seq(EnvVar), NEW n, Has(l, n)
    PROVE  \E i \in DOMAIN l : FirstIs(l, n, i)
<1>1. Named(l, n) \subseteq Nat /\ Named(l, n) # {}
  BY DEF Named, Has
<1>2. PICK i \in Named(l, n) : \A j \in Named(l, n) : ~(j < i)
  BY <1>1, LeastNatural
<1>3. \A j \in Named(l, n) : i <= j
  BY <1>1, <1>2
<1>. QED  BY <1>2, <1>3 DEF FirstIs, Named

LEMMA GetType ==
    ASSUME NEW l \in Seq(EnvVar), NEW n, Has(l, n)
    PROVE  Get(l, n) \in EnvVar /\ Get(l, n).name = n
<1>1. PICK i \in DOMAIN l : FirstIs(l, n, i)
  BY FirstThere
<1>. QED  BY <1>1, FirstGives

LEMMA HasIs ==
    ASSUME NEW l, NEW n
    PROVE  Has(l, n) <=> \E i \in DOMAIN l : l[i].name = n
  BY DEF Has, Named

\* one list after the other
LEMMA AfterOther ==
    ASSUME NEW a \in Seq(EnvVar), NEW b \in Seq(EnvVar), NEW n
    PROVE  /\ a \o b \in Seq(EnvVar)
           /\ Has(a \o b, n) <=> Has(a, n) \/ Has(b, n)
           /\ Has(a, n) => Get(a \o b, n) = Get(a, n)
           /\ ~Has(a, n) /\ Has(b, n) => Get(a \o b, n) = Get(b, n)
<1>. DEFINE c == a \o b
<1>1. /\ c \in Seq(EnvVar)
      /\ DOMAIN c = 1..(Len(a) + Len(b))
      /\ DOMAIN a = 1..Len(a)
      /\ DOMAIN b = 1..Len(b)
      /\ Len(a) \in Nat /\ Len(b) \in Nat
      /\ \A i \in 1..Len(a) : c[i] = a[i]
      /\ \A i \in 1..Len(b) : c[i + Len(a)] = b[i]
      /\ \A i \in DOMAIN c : i > Len(a) => c[i] = b[i - Len(a)] /\ i - Len(a) \in DOMAIN b
  OBVIOUS
<1>. HIDE DEF c
<1>2. CASE Has(a, n)
  <2>1. PICK i \in DOMAIN a : FirstIs(a, n, i)
    BY <1>2, FirstThere
  <2>2. FirstIs(c, n, i)
    <3>1. i \in Named(c, n)
      BY <1>1, <2>1 DEF FirstIs, Named
    <3>2. ASSUME NEW j \in Named(c, n) PROVE i <= j
      BY <1>1, <2>1 DEF FirstIs, Named
    <3>. QED  BY <3>1, <3>2 DEF FirstIs
  <2>3. c[i] = a[i]
    BY <1>1, <2>1
  <2>4. Has(c, n) /\ Get(c, n) = Get(a, n)
    BY <1>1, <2>1, <2>2, <2>3, FirstGives
  <2>. QED  BY <1>1, <1>2, <2>4, Zenon DEF c
<1>3. CASE ~Has(a, n) /\ Has(b, n)
  <2>1. PICK i \in DOMAIN b : FirstIs(b, n, i)
    BY <1>3, FirstThere
  <2>. DEFINE k == i + Len(a)
  <2>2. FirstIs(c, n, k)
    <3>1. k \in Named(c, n)
      BY <1>1, <2>1 DEF FirstIs, Named
    <3>2. ASSUME NEW j \in Named(c, n) PROVE k <= j
      <4>1. j \in DOMAIN c /\ c[j].name = n
        BY DEF Named
      <4>2. j > Len(a)
        <5>1. ASSUME j <= Len(a) PROVE FALSE
          <6>1. j \in DOMAIN a /\ a[j].name = n
            BY <1>1, <4>1, <5>1
          <6>. QED  BY <1>3, <6>1, HasIs
        <5>. QED  BY <5>1, <4>1, <1>1
      <4>3. j - Len(a) \in Named(b, n)
        BY <4>1, <4>2, <1>1 DEF Named
      <4>4. i <= j - Len(a)
        BY <4>3, <2>1 DEF FirstIs
      <4>. QED  BY <4>4, <1>1, <2>1, <4>1
    <3>. QED  BY <3>1, <3>2 DEF FirstIs
  <2>3. c[k] = b[i]
    BY <1>1, <2>1
  <2>4. Has(c, n) /\ Get(c, n) = Get(b, n)
    BY <1>1, <2>1, <2>2, <2>3, FirstGives
  <2>. QED  BY <1>1, <1>3, <2>4, Zenon DEF c
<1>4. CASE ~Has(a, n) /\ ~Has(b, n)
  <2>1. ASSUME Has(c, n) PROVE FALSE
    <3>1. PICK j \in DOMAIN c : c[j].name = n
      BY <2>1, HasIs
    <3>2. j <= Len(a) => Has(a, n)
      BY <1>1, <3>1, HasIs
    <3>3. j > Len(a) => Has(b, n)
      BY <1>1, <3>1, HasIs
    <3>. QED  BY <3>2, <3>3, <3>1, <1>1, <1>4
  <2>. QED  BY <2>1, <1>1, <1>4 DEF c
<1>. QED  BY <1>2, <1>3, <1>4

LEMMA SameJoins ==
    ASSUME NEW a \in Seq(EnvVar), NEW b \in Seq(EnvVar),
           NEW c \in Seq(EnvVar), NEW d \in Seq(EnvVar),
           SameMeaning(a, c), SameMeaning(b, d)
    PROVE  SameMeaning(a \o b, c \o d)
  BY AfterOther DEF SameMeaning

\* a list of one variable
LEMMA OneVariable ==
    ASSUME NEW x \in EnvVar, NEW n
    PROVE  /\ <<x>> \in Seq(EnvVar)
           /\ Has(<<x>>, n) <=> n = x.name
           /\ Has(<<x>>, n) => Get(<<x>>, n) = x
<1>1. <<x>> \in Seq(EnvVar) /\ DOMAIN <<x>> = {1} /\ <<x>>[1] = x
  OBVIOUS
<1>2. Has(<<x>>, n) <=> n = x.name
  BY <1>1, HasIs
<1>3. ASSUME n = x.name PROVE FirstIs(<<x>>, n, 1)
  BY <1>1, <1>3 DEF FirstIs, Named
<1>4. ASSUME n = x.name PROVE Get(<<x>>, n) = x
  <2>1. Get(<<x>>, n) = <<x>>[1]
    BY <1>1, <1>3, <1>4, FirstGives, Zenon
  <2>. QED  BY <1>1, <2>1, Zenon
<1>. QED  BY <1>1, <1>2, <1>4, Zenon

\* setting a variable replaces the one of its name or adds it, and leaves the
\* others as they are
LEMMA SetVarSets ==
    ASSUME NEW l \in Seq(EnvVar), NEW x \in EnvVar
    PROVE  /\ SetVar(l, x) \in Seq(EnvVar)
           /\ SameMeaning(SetVar(l, x), <<x>> \o l)
<1>0. x.name = x.name /\ <<x>> \in Seq(EnvVar)
  OBVIOUS
<1>1. CASE ~Has(l, x.name)
  <2>1. SetVar(l, x) = l \o <<x>>
    BY <1>1 DEF SetVar
  <2>2. SameMeaning(l \o <<x>>, <<x>> \o l)
    <3>. SUFFICES ASSUME NEW n
                  PROVE  /\ Has(l \o <<x>>, n) <=> Has(<<x>> \o l, n)
                         /\ Has(l \o <<x>>, n) =>
                               Get(l \o <<x>>, n) = Get(<<x>> \o l, n)
      BY DEF SameMeaning
    <3>1. PICK o \in Seq(EnvVar) : o = <<x>>
      BY <1>0
    <3>2. /\ Has(o, n) <=> n = x.name
          /\ Has(o, n) => Get(o, n) = x
      BY <3>1, OneVariable, Zenon
    <3>3. /\ Has(l \o o, n) <=> Has(o \o l, n)
          /\ Has(l \o o, n) => Get(l \o o, n) = Get(o \o l, n)
      BY <1>1, <3>2, AfterOther
    <3>. QED  BY <3>1, <3>3
  <2>. QED  BY <1>0, <2>1, <2>2, AfterOther
<1>2. CASE Has(l, x.name)
  <2>1. PICK i \in DOMAIN l : FirstIs(l, x.name, i)
    BY <1>2, FirstThere
  <2>. DEFINE m == [l EXCEPT ![i] = x]
  <2>2. SetVar(l, x) = m
    <3>1. (CHOOSE k \in Named(l, x.name) : \A j \in Named(l, x.name) : k <= j) = i
      BY <2>1, FirstGives
    <3>2. SetVar(l, x) =
             [l EXCEPT ![CHOOSE k \in Named(l, x.name) :
                            \A j \in Named(l, x.name) : k <= j] = x]
      BY <1>2, Zenon DEF SetVar
    <3>. QED  BY <3>1, <3>2, Zenon
  <2>3. m \in Seq(EnvVar) /\ DOMAIN m = DOMAIN l /\ m[i] = x
        /\ \A j \in DOMAIN l : j # i => m[j] = l[j]
    BY <2>1
  <2>. HIDE DEF m
  <2>4. l[i].name = x.name
    BY <2>1, FirstGives
  <2>5. ASSUME NEW n PROVE Named(m, n) = Named(l, n)
    BY <2>3, <2>4 DEF Named
  <2>6. SameMeaning(m, <<x>> \o l)
    <3>. SUFFICES ASSUME NEW n
                  PROVE  /\ Has(m, n) <=> Has(<<x>> \o l, n)
                         /\ Has(m, n) => Get(m, n) = Get(<<x>> \o l, n)
      BY DEF SameMeaning
    <3>1. Has(m, n) <=> Has(l, n)
      BY <2>5 DEF Has
    <3>2. Has(m, n) <=> Has(<<x>> \o l, n)
      BY <3>1, <1>0, <1>2, AfterOther, OneVariable
    <3>3. CASE n = x.name
      <4>1. FirstIs(m, n, i)
        BY <2>1, <2>5, <3>3 DEF FirstIs
      <4>2. Get(m, n) = x
        BY <4>1, <2>3, FirstGives
      <4>3. Get(<<x>> \o l, n) = x
        BY <1>0, <3>3, AfterOther, OneVariable
      <4>. QED  BY <3>2, <4>2, <4>3
    <3>4. CASE n # x.name /\ Has(l, n)
      <4>1. PICK k \in DOMAIN l : FirstIs(l, n, k)
        BY <3>4, FirstThere
      <4>2. FirstIs(m, n, k)
        BY <4>1, <2>5 DEF FirstIs
      <4>3. k # i
        BY <4>1, <2>4, <3>4, FirstGives
      <4>4. Get(m, n) = Get(l, n)
        BY <4>1, <4>2, <4>3, <2>3, FirstGives
      <4>5. Get(<<x>> \o l, n) = Get(l, n)
        BY <1>0, <3>4, AfterOther, OneVariable
      <4>. QED  BY <3>2, <4>4, <4>5
    <3>5. CASE n # x.name /\ ~Has(l, n)
      BY <3>1, <3>2, <3>5
    <3>. QED  BY <3>3, <3>4, <3>5
  <2>. QED  BY <2>2, <2>3, <2>6
<1>. QED  BY <1>1, <1>2

-----------------------------------------------------------------------------
(* Merging lists.                                                           *)

NextStage(acc, x, over) == IF Has(acc, x.name) /\ ~over THEN acc ELSE SetVar(acc, x)

\* the stages of merging the first n variables of more into l
IsStages(g, l, more, over, n) ==
    g = [i \in 0..n |-> IF i = 0 THEN l ELSE NextStage(g[i - 1], more[i], over)]

\* there are stages for any number of variables: the least for which there are
\* none would be one more than one for which there are
LEMMA StagesExist ==
    ASSUME NEW l, NEW more, NEW over, NEW n \in Nat
    PROVE  \E g : IsStages(g, l, more, over, n)
<1>. DEFINE T == {k \in Nat : ~\E g : IsStages(g, l, more, over, k)}
<1>. SUFFICES ASSUME T # {} PROVE FALSE
  OBVIOUS
<1>1. PICK k \in T : \A j \in T : ~(j < k)
  BY LeastNatural
<1>2. CASE k = 0
  <2>. DEFINE h == [i \in 0..0 |-> l]
  <2>1. IsStages(h, l, more, over, 0)
    BY DEF IsStages
  <2>. QED  BY <1>1, <1>2, <2>1
<1>3. CASE k # 0
  <2>1. k - 1 \in Nat /\ k - 1 < k /\ k \in Nat
    BY <1>1, <1>3
  <2>2. PICK g : IsStages(g, l, more, over, k - 1)
    BY <1>1, <2>1
  <2>. DEFINE h == [i \in 0..k |-> IF i # k THEN g[i]
                                   ELSE NextStage(g[k - 1], more[k], over)]
  <2>3. ASSUME NEW i \in 0..(k - 1)
        PROVE  g[i] = IF i = 0 THEN l ELSE NextStage(g[i - 1], more[i], over)
    BY <2>2 DEF IsStages
  <2>4. \A i \in 0..k : i # 0 => h[i - 1] = g[i - 1]
    BY <2>1
  <2>5. ASSUME NEW i \in 0..k
        PROVE  h[i] = IF i = 0 THEN l ELSE NextStage(h[i - 1], more[i], over)
    <3>1. CASE i = k
      BY <3>1, <1>3, <2>4
    <3>2. CASE i # k
      <4>1. i \in 0..(k - 1)
        BY <3>2, <2>1
      <4>2. h[i] = g[i]
        BY <3>2
      <4>. HIDE DEF h
      <4>. QED  BY <4>1, <4>2, <2>3, <2>4
    <3>. QED  BY <3>1, <3>2
  <2>6. DOMAIN h = 0..k /\ h = [i \in 0..k |-> h[i]]
    OBVIOUS
  <2>. HIDE DEF h
  <2>7. IsStages(h, l, more, over, k)
    BY <2>5, <2>6 DEF IsStages
  <2>. QED  BY <1>1, <2>7
<1>. QED  BY <1>2, <1>3

LEMMA StagesAre ==
    ASSUME NEW l, NEW more, NEW over, Len(more) \in Nat
    PROVE  IsStages(Stages(l, more, over), l, more, over, Len(more))
<1>1. PICK g : IsStages(g, l, more, over, Len(more))
  BY StagesExist
<1>2. Stages(l, more, over) =
         CHOOSE f : f = [i \in 0..Len(more) |->
                           IF i = 0 THEN l
                           ELSE IF Has(f[i - 1], more[i].name) /\ ~over THEN f[i - 1]
                                ELSE SetVar(f[i - 1], more[i])]
  BY Zenon DEF Stages
<1>3. Stages(l, more, over) = CHOOSE f : IsStages(f, l, more, over, Len(more))
  BY <1>2, Zenon DEF IsStages, NextStage
<1>. QED  BY <1>1, <1>3, Zenon

LEMMA StageIs ==
    ASSUME NEW l, NEW more, NEW over, Len(more) \in Nat
    PROVE  /\ Stages(l, more, over)[0] = l
           /\ \A i \in 1..Len(more) :
                 Stages(l, more, over)[i] =
                     NextStage(Stages(l, more, over)[i - 1], more[i], over)
<1>1. PICK g : g = Stages(l, more, over)
  OBVIOUS
<1>2. g = [i \in 0..Len(more) |-> IF i = 0 THEN l ELSE NextStage(g[i - 1], more[i], over)]
  BY <1>1, StagesAre DEF IsStages
<1>3. g[0] = l
  BY <1>2
<1>4. ASSUME NEW i \in 1..Len(more)
      PROVE  g[i] = NextStage(g[i - 1], more[i], over)
  <2>1. i \in 0..Len(more) /\ i # 0
    OBVIOUS
  <2>2. g[i] = [j \in 0..Len(more) |-> IF j = 0 THEN l ELSE NextStage(g[j - 1], more[j], over)][i]
    BY <1>2
  <2>. QED  BY <2>1, <2>2
<1>. QED  BY <1>1, <1>3, <1>4

\* the stages are lists of variables
LEMMA StagesType ==
    ASSUME NEW l \in Seq(EnvVar), NEW more \in Seq(EnvVar), NEW over,
           NEW n \in 0..Len(more)
    PROVE  Stages(l, more, over)[n] \in Seq(EnvVar)
<1>. DEFINE s == Stages(l, more, over)
            T == {k \in 0..Len(more) : s[k] \notin Seq(EnvVar)}
<1>. HIDE DEF s
<1>. SUFFICES ASSUME T # {} PROVE FALSE
  BY DEF s
<1>0. T \subseteq Nat
  OBVIOUS
<1>1. PICK k \in T : \A j \in T : ~(j < k)
  BY <1>0, LeastNatural
<1>2. k # 0
  BY <1>1, StageIs DEF s
<1>3. k \in 1..Len(more) /\ k - 1 \in 0..Len(more) /\ k - 1 < k
  BY <1>1, <1>2
<1>4. s[k - 1] \in Seq(EnvVar)
  BY <1>1, <1>3
<1>5. s[k] = NextStage(s[k - 1], more[k], over)
  BY <1>3, StageIs DEF s
<1>6. more[k] \in EnvVar
  BY <1>3
<1>7. s[k] \in Seq(EnvVar)
  BY <1>4, <1>5, <1>6, SetVarSets DEF NextStage
<1>. QED  BY <1>1, <1>7

\* what is already there is not set again
LEMMA NextKeeps ==
    ASSUME NEW a \in Seq(EnvVar), NEW x \in EnvVar
    PROVE  SameMeaning(NextStage(a, x, FALSE), a \o <<x>>)
<1>0. <<x>> \in Seq(EnvVar)
  OBVIOUS
<1>1. PICK o \in Seq(EnvVar) : o = <<x>>
  BY <1>0
<1>2. \A n : /\ Has(o, n) <=> n = x.name
             /\ Has(o, n) => Get(o, n) = x
  BY <1>1, OneVariable, Zenon
<1>3. CASE Has(a, x.name)
  <2>1. NextStage(a, x, FALSE) = a
    BY <1>3 DEF NextStage
  <2>2. SameMeaning(a, a \o o)
    BY <1>2, <1>3, AfterOther DEF SameMeaning
  <2>. QED  BY <1>1, <2>1, <2>2
<1>4. CASE ~Has(a, x.name)
  <2>1. NextStage(a, x, FALSE) = SetVar(a, x)
    BY <1>4 DEF NextStage
  <2>2. SameMeaning(SetVar(a, x), o \o a)
    BY <1>1, SetVarSets
  <2>3. SameMeaning(o \o a, a \o o)
    BY <1>2, <1>4, AfterOther DEF SameMeaning
  <2>. QED  BY <1>1, <2>1, <2>2, <2>3, SameTrans
<1>. QED  BY <1>3, <1>4

\* the first n variables of a list, and the next
LEMMA Prefix ==
    ASSUME NEW l \in Seq(EnvVar), NEW k \in 1..Len(l)
    PROVE  /\ SubSeq(l, 1, k) = SubSeq(l, 1, k - 1) \o <<l[k]>>
           /\ SubSeq(l, 1, k) \in Seq(EnvVar)
           /\ SubSeq(l, 1, k - 1) \in Seq(EnvVar)
           /\ l[k] \in EnvVar
  OBVIOUS

LEMMA WholePrefix ==
    ASSUME NEW l \in Seq(EnvVar)
    PROVE  SubSeq(l, 1, Len(l)) = l /\ SubSeq(l, 1, 0) = <<>>
  OBVIOUS

LEMMA NothingBefore ==
    ASSUME NEW l \in Seq(EnvVar)
    PROVE  l \o <<>> = l /\ <<>> \o l = l
  OBVIOUS

\* adding what is missing is putting the one list after the other
LEMMA AddMissingIs ==
    ASSUME NEW l \in Seq(EnvVar), NEW more \in Seq(EnvVar)
    PROVE  AddMissing(l, more) \in Seq(EnvVar) /\ SameMeaning(AddMissing(l, more), l \o more)
<1>. DEFINE s == Stages(l, more, FALSE)
            T == {k \in 0..Len(more) : ~SameMeaning(s[k], l \o SubSeq(more, 1, k))}
<1>. HIDE DEF s
<1>3. /\ s[0] = l
      /\ \A i \in 1..Len(more) : s[i] = NextStage(s[i - 1], more[i], FALSE)
      /\ \A i \in 0..Len(more) : s[i] \in Seq(EnvVar)
  <2>1. Len(more) \in Nat
    OBVIOUS
  <2>2. ASSUME NEW b
        PROVE  /\ Stages(l, more, b)[0] = l
               /\ \A i \in 1..Len(more) :
                     Stages(l, more, b)[i] = NextStage(Stages(l, more, b)[i - 1], more[i], b)
    BY <2>1, StageIs
  <2>3. ASSUME NEW i \in 0..Len(more) PROVE s[i] \in Seq(EnvVar)
    BY StagesType, Zenon DEF s
  <2>. QED  BY <2>2, <2>3, Zenon DEF s
<1>0. Len(more) \in 0..Len(more) /\ T \subseteq Nat
  OBVIOUS
<1>1. ASSUME T # {} PROVE FALSE
  <2>1. PICK k \in T : \A j \in T : ~(j < k)
    BY <1>0, <1>1, LeastNatural
  <2>2. k # 0
    <3>1. s[0] = l
      BY <1>3
    <3>2. l \o SubSeq(more, 1, 0) = l
      BY WholePrefix, NothingBefore
    <3>. QED  BY <2>1, <3>1, <3>2, SameSelf
  <2>3. k \in 1..Len(more) /\ k - 1 \in 0..Len(more) /\ k - 1 < k
    BY <2>1, <2>2
  <2>4. SameMeaning(s[k - 1], l \o SubSeq(more, 1, k - 1))
    BY <2>1, <2>3
  <2>5. PICK p \in Seq(EnvVar), o \in Seq(EnvVar) :
            /\ p = SubSeq(more, 1, k - 1)
            /\ o = <<more[k]>>
            /\ SubSeq(more, 1, k) = p \o o
    <3>1. <<more[k]>> \in Seq(EnvVar)
      BY <2>3
    <3>. QED  BY <2>3, <3>1, Prefix
  <2>6. s[k] = NextStage(s[k - 1], more[k], FALSE) /\ s[k - 1] \in Seq(EnvVar)
    BY <2>3, <1>3
  <2>7. SameMeaning(s[k], s[k - 1] \o o)
    BY <2>3, <2>5, <2>6, NextKeeps, Prefix
  <2>8. l \o p \in Seq(EnvVar) /\ (l \o p) \o o = l \o (p \o o)
    OBVIOUS
  <2>9. SameMeaning(s[k - 1] \o o, (l \o p) \o o)
    BY <2>4, <2>5, <2>6, <2>8, SameSelf, SameJoins
  <2>10. SameMeaning(s[k], l \o SubSeq(more, 1, k))
    BY <2>5, <2>7, <2>8, <2>9, SameTrans
  <2>. QED  BY <2>1, <2>10
<1>2. SameMeaning(s[Len(more)], l \o more)
  BY <1>0, <1>1, WholePrefix
<1>. QED  BY <1>0, <1>2, StagesType DEF AddMissing, s

LEMMA CloneIs ==
    ASSUME NEW l \in Seq(EnvVar)
    PROVE  Clone(l) \in Seq(EnvVar) /\ SameMeaning(Clone(l), l)
<1>1. <<>> \in Seq(EnvVar) /\ <<>> \o l = l
  OBVIOUS
<1>. QED  BY <1>1, AddMissingIs DEF Clone

LEMMA CombineIs ==
    ASSUME NEW a \in Seq(EnvVar), NEW b \in Seq(EnvVar)
    PROVE  Combine(a, b) \in Seq(EnvVar) /\ SameMeaning(Combine(a, b), a \o b)
<1>1. Clone(a) \in Seq(EnvVar) /\ SameMeaning(Clone(a), a)
  BY CloneIs
<1>2. Combine(a, b) \in Seq(EnvVar) /\ SameMeaning(Combine(a, b), Clone(a) \o b)
  BY <1>1, AddMissingIs DEF Combine
<1>3. SameMeaning(Clone(a) \o b, a \o b)
  BY <1>1, SameSelf, SameJoins
<1>. QED  BY <1>2, <1>3, SameTrans

LEMMA ReverseNext ==
    ASSUME NEW l \in Seq(EnvVar)
    PROVE  /\ Seqs!Reverse(l) \in Seq(EnvVar)
           /\ Seqs!Reverse(SubSeq(l, 1, 0)) = <<>>
           /\ \A k \in 1..Len(l) : Seqs!Reverse(SubSeq(l, 1, k)) =
                                       <<l[k]>> \o Seqs!Reverse(SubSeq(l, 1, k - 1))
<1>1. Seqs!Reverse(l) \in Seq(EnvVar)
  BY DEF Seqs!Reverse
<1>2. Seqs!Reverse(SubSeq(l, 1, 0)) = <<>>
  BY DEF Seqs!Reverse
<1>3. ASSUME NEW k \in 1..Len(l)
      PROVE  Seqs!Reverse(SubSeq(l, 1, k)) = <<l[k]>> \o Seqs!Reverse(SubSeq(l, 1, k - 1))
  <2>. DEFINE p == SubSeq(l, 1, k)
              q == SubSeq(l, 1, k - 1)
  <2>1. Len(p) = k /\ Len(q) = k - 1 /\ k \in Nat /\ k - 1 \in Nat
        /\ (\A i \in 1..k : p[i] = l[i]) /\ (\A i \in 1..(k - 1) : q[i] = l[i])
    OBVIOUS
  <2>. HIDE DEF p, q
  <2>2. Seqs!Reverse(p) = [i \in 1..k |-> l[(k - i) + 1]]
    BY <2>1 DEF Seqs!Reverse
  <2>3. Seqs!Reverse(q) = [i \in 1..(k - 1) |-> l[((k - 1) - i) + 1]]
    BY <2>1 DEF Seqs!Reverse
  <2>4. [i \in 1..k |-> l[(k - i) + 1]] = <<l[k]>> \o [i \in 1..(k - 1) |-> l[((k - 1) - i) + 1]]
    <3>. DEFINE r == [i \in 1..(k - 1) |-> l[((k - 1) - i) + 1]]
    <3>1. r \in Seq(EnvVar) /\ Len(r) = k - 1
      BY <2>1
    <3>2. \A i \in 2..k : (<<l[k]>> \o r)[i] = l[(k - i) + 1]
      BY <2>1, <3>1
    <3>. QED  BY <2>1, <3>1, <3>2
  <2>. QED  BY <2>2, <2>3, <2>4 DEF p, q
<1>. QED  BY <1>1, <1>2, <1>3

\* setting one list in another puts it, from its last to its first variable,
\* before the other
LEMMA SetAllIs ==
    ASSUME NEW l \in Seq(EnvVar), NEW more \in Seq(EnvVar)
    PROVE  /\ SetAll(l, more) \in Seq(EnvVar)
           /\ SameMeaning(SetAll(l, more), Seqs!Reverse(more) \o l)
<1>. DEFINE s == Stages(l, more, TRUE)
            T == {k \in 0..Len(more) : ~SameMeaning(s[k], Seqs!Reverse(SubSeq(more, 1, k)) \o l)}
<1>. HIDE DEF s
<1>3. /\ s[0] = l
      /\ \A i \in 1..Len(more) : s[i] = NextStage(s[i - 1], more[i], TRUE)
      /\ \A i \in 0..Len(more) : s[i] \in Seq(EnvVar)
  <2>1. Len(more) \in Nat
    OBVIOUS
  <2>2. ASSUME NEW b
        PROVE  /\ Stages(l, more, b)[0] = l
               /\ \A i \in 1..Len(more) :
                     Stages(l, more, b)[i] = NextStage(Stages(l, more, b)[i - 1], more[i], b)
    BY <2>1, StageIs
  <2>3. ASSUME NEW i \in 0..Len(more) PROVE s[i] \in Seq(EnvVar)
    BY StagesType, Zenon DEF s
  <2>. QED  BY <2>2, <2>3, Zenon DEF s
<1>0. Len(more) \in 0..Len(more) /\ T \subseteq Nat
  OBVIOUS
<1>1. ASSUME T # {} PROVE FALSE
  <2>1. PICK k \in T : \A j \in T : ~(j < k)
    BY <1>0, <1>1, LeastNatural
  <2>2. k # 0
    <3>1. s[0] = l
      BY <1>3
    <3>2. Seqs!Reverse(SubSeq(more, 1, 0)) \o l = l
      BY ReverseNext, NothingBefore
    <3>. QED  BY <2>1, <3>1, <3>2, SameSelf
  <2>3. k \in 1..Len(more) /\ k - 1 \in 0..Len(more) /\ k - 1 < k
    BY <2>1, <2>2
  <2>4. SameMeaning(s[k - 1], Seqs!Reverse(SubSeq(more, 1, k - 1)) \o l)
    BY <2>1, <2>3
  <2>5. PICK p \in Seq(EnvVar), o \in Seq(EnvVar) :
            /\ p = Seqs!Reverse(SubSeq(more, 1, k - 1))
            /\ o = <<more[k]>>
            /\ Seqs!Reverse(SubSeq(more, 1, k)) = o \o p
    <3>1. <<more[k]>> \in Seq(EnvVar) /\ SubSeq(more, 1, k - 1) \in Seq(EnvVar)
      BY <2>3, Prefix
    <3>2. Seqs!Reverse(SubSeq(more, 1, k - 1)) \in Seq(EnvVar)
      BY <3>1, ReverseNext
    <3>. QED  BY <2>3, <3>1, <3>2, ReverseNext
  <2>6. s[k] = NextStage(s[k - 1], more[k], TRUE) /\ s[k - 1] \in Seq(EnvVar)
    BY <2>3, <1>3
  <2>7. SameMeaning(s[k], o \o s[k - 1])
    BY <2>3, <2>5, <2>6, SetVarSets, Prefix DEF NextStage
  <2>8. p \o l \in Seq(EnvVar) /\ (o \o p) \o l = o \o (p \o l)
    OBVIOUS
  <2>9. SameMeaning(o \o s[k - 1], o \o (p \o l))
    BY <2>4, <2>5, <2>6, <2>8, SameSelf, SameJoins
  <2>10. SameMeaning(s[k], Seqs!Reverse(SubSeq(more, 1, k)) \o l)
    BY <2>5, <2>7, <2>8, <2>9, SameTrans
  <2>. QED  BY <2>1, <2>10
<1>2. SameMeaning(s[Len(more)], Seqs!Reverse(more) \o l)
  BY <1>0, <1>1, WholePrefix
<1>. QED  BY <1>0, <1>2, StagesType DEF SetAll, s

-----------------------------------------------------------------------------
(* The proxy and the defaults.                                              *)

\* the variables of the proxy that are added to l
Proxy(l) == IF UserDefinedProxy(l) \/ ~ClusterDefinedProxy THEN <<>> ELSE ClusterProxy

\* as each is there at most once, their order does not matter
LEMMA ReverseProxy == SameMeaning(Seqs!Reverse(ClusterProxy), ClusterProxy)
<1>. DEFINE r == Seqs!Reverse(ClusterProxy)
            N == Len(ClusterProxy)
<1>1. /\ ClusterProxy \in Seq(EnvVar) /\ N \in Nat /\ DOMAIN ClusterProxy = 1..N
      /\ \A i, j \in DOMAIN ClusterProxy :
            ClusterProxy[i].name = ClusterProxy[j].name => i = j
  BY ProxyAssumption
<1>2. r \in Seq(EnvVar)
  BY <1>1, ReverseNext
<1>3. DOMAIN r = 1..N /\ \A i \in 1..N : r[i] = ClusterProxy[(N - i) + 1]
  BY <1>1 DEF Seqs!Reverse
<1>. HIDE DEF r, N
<1>4. SUFFICES ASSUME NEW n
               PROVE  /\ Has(r, n) <=> Has(ClusterProxy, n)
                      /\ Has(r, n) => Get(r, n) = Get(ClusterProxy, n)
  BY DEF SameMeaning, r
<1>5. CASE Has(ClusterProxy, n)
  <2>1. PICK i \in DOMAIN ClusterProxy : FirstIs(ClusterProxy, n, i)
    BY <1>1, <1>5, FirstThere
  <2>2. ClusterProxy[i].name = n /\ Get(ClusterProxy, n) = ClusterProxy[i]
    BY <1>1, <2>1, FirstGives
  <2>. DEFINE k == (N - i) + 1
  <2>3. k \in 1..N /\ r[k] = ClusterProxy[i]
    BY <1>1, <1>3
  <2>4. ASSUME NEW j \in Named(r, n) PROVE j = k
    <3>1. j \in 1..N /\ r[j].name = n
      BY <1>3 DEF Named
    <3>2. (N - j) + 1 \in 1..N /\ ClusterProxy[(N - j) + 1].name = n
      BY <1>1, <1>3, <3>1
    <3>3. (N - j) + 1 = i
      BY <1>1, <2>2, <3>2
    <3>. QED  BY <1>1, <3>1, <3>3
  <2>5. FirstIs(r, n, k)
    BY <1>3, <2>2, <2>3, <2>4 DEF FirstIs, Named
  <2>6. Has(r, n) /\ Get(r, n) = r[k]
    BY <1>2, <2>5, FirstGives
  <2>. QED  BY <1>5, <2>2, <2>3, <2>6
<1>6. CASE ~Has(ClusterProxy, n)
  <2>1. ASSUME Has(r, n) PROVE FALSE
    <3>1. PICK j \in DOMAIN r : r[j].name = n
      BY <2>1, HasIs
    <3>2. (N - j) + 1 \in DOMAIN ClusterProxy /\ ClusterProxy[(N - j) + 1].name = n
      BY <1>1, <1>3, <3>1
    <3>. QED  BY <1>6, <3>2, HasIs
  <2>. QED  BY <1>6, <2>1
<1>. QED  BY <1>5, <1>6

\* the proxy comes after what is there
LEMMA HTTPSettingsIs ==
    ASSUME NEW l \in Seq(EnvVar)
    PROVE  /\ HTTPSettings(l) \in Seq(EnvVar)
           /\ SameMeaning(HTTPSettings(l), l \o Proxy(l))
           /\ Proxy(l) \in Seq(EnvVar)
<1>1. ClusterProxy \in Seq(EnvVar) /\ <<>> \in Seq(EnvVar)
  BY ProxyAssumption
<1>2. CASE UserDefinedProxy(l) \/ ~ClusterDefinedProxy
  <2>1. HTTPSettings(l) = l /\ Proxy(l) = <<>>
    BY <1>2 DEF HTTPSettings, Proxy
  <2>. QED  BY <1>1, <2>1, NothingBefore, SameSelf
<1>3. CASE ~(UserDefinedProxy(l) \/ ~ClusterDefinedProxy)
  <2>1. HTTPSettings(l) = SetAll(l, ClusterProxy) /\ Proxy(l) = ClusterProxy
    BY <1>3 DEF HTTPSettings, Proxy
  <2>2. /\ SetAll(l, ClusterProxy) \in Seq(EnvVar)
        /\ SameMeaning(SetAll(l, ClusterProxy), Seqs!Reverse(ClusterProxy) \o l)
    BY <1>1, SetAllIs
  <2>3. SameMeaning(Seqs!Reverse(ClusterProxy) \o l, ClusterProxy \o l)
    BY <1>1, ReverseNext, ReverseProxy, SameSelf, SameJoins
  <2>4. \A n : ~(Has(ClusterProxy, n) /\ Has(l, n))
    <3>1. ASSUME NEW n, Has(ClusterProxy, n) PROVE n \in ProxyNames
      BY <3>1, HasIs, ProxyAssumption
    <3>. QED  BY <3>1, <1>3 DEF UserDefinedProxy
  <2>5. SameMeaning(ClusterProxy \o l, l \o ClusterProxy)
    BY <1>1, <2>4, AfterOther DEF SameMeaning
  <2>. QED  BY <1>1, <2>1, <2>2, <2>3, <2>5, SameTrans
<1>. QED  BY <1>2, <1>3

\* once the proxy is there, or is not wanted, it is not set again
LEMMA ProxySettled ==
    ASSUME NEW a \in Seq(EnvVar), NEW b \in Seq(EnvVar), SameMeaning(b, a \o Proxy(a))
    PROVE  UserDefinedProxy(b) \/ ~ClusterDefinedProxy
<1>1. Proxy(a) \in Seq(EnvVar) /\ ClusterProxy \in Seq(EnvVar)
  BY HTTPSettingsIs, ProxyAssumption
<1>2. CASE UserDefinedProxy(a)
  BY <1>1, <1>2, AfterOther DEF UserDefinedProxy, SameMeaning
<1>3. CASE ~UserDefinedProxy(a) /\ ClusterDefinedProxy
  <2>1. Proxy(a) = ClusterProxy
    BY <1>3 DEF Proxy
  <2>2. PICK i \in DOMAIN ClusterProxy : ClusterProxy[i].value # <<>>
    BY <1>3 DEF ClusterDefinedProxy
  <2>3. Has(ClusterProxy, ClusterProxy[i].name) /\ ClusterProxy[i].name \in ProxyNames
    BY HasIs, ProxyAssumption
  <2>. QED  BY <1>1, <2>1, <2>3, AfterOther DEF UserDefinedProxy, SameMeaning
<1>. QED  BY <1>2, <1>3

\* what is read off a list depends on what its names mean only
LEMMA SameProxies ==
    ASSUME NEW a, NEW b, SameMeaning(a, b)
    PROVE  /\ UserDefinedProxy(a) <=> UserDefinedProxy(b)
           /\ JavaProperties(a) = JavaProperties(b)
           /\ DefaultEnvs(a) = DefaultEnvs(b)
           /\ Proxy(a) = Proxy(b)
<1>1. UserDefinedProxy(a) <=> UserDefinedProxy(b)
  BY DEF UserDefinedProxy, SameMeaning
<1>2. JavaProperties(a) = JavaProperties(b)
  BY DEF JavaProperties, SameMeaning
<1>3. DefaultEnvs(a) = DefaultEnvs(b)
  BY <1>2, Zenon DEF DefaultEnvs
<1>4. Proxy(a) = Proxy(b)
  BY <1>1 DEF Proxy
<1>. QED  BY <1>1, <1>2, <1>3, <1>4

LEMMA JavaPropertiesFinite ==
    ASSUME NEW l
    PROVE  JavaProperties(l) \subseteq Words /\ IsFiniteSet(JavaProperties(l))
<1>. DEFINE P == {"proxyHost", "proxyPort", "nonProxyHosts"}
<1>1. JavaProperties(l) \subseteq P
  BY DEF JavaProperties, ParseHTTPProxy
<1>2. IsFiniteSet(P)
  <2>1. IsFiniteSet({} \cup {"proxyHost"})
    BY FS_EmptySet, FS_AddElement, Zenon
  <2>2. IsFiniteSet(({} \cup {"proxyHost"}) \cup {"proxyPort"})
    BY <2>1, FS_AddElement, Zenon
  <2>3. IsFiniteSet((({} \cup {"proxyHost"}) \cup {"proxyPort"}) \cup {"nonProxyHosts"})
    BY <2>2, FS_AddElement, Zenon
  <2>4. P = (({} \cup {"proxyHost"}) \cup {"proxyPort"}) \cup {"nonProxyHosts"}
    OBVIOUS
  <2>. QED  BY <2>3, <2>4, Zenon
<1>3. P \subseteq Words
  BY WordsAssumption
<1>. HIDE DEF P
<1>. QED  BY <1>1, <1>2, <1>3, FS_Subset, Zenon

LEMMA OrdersType ==
    ASSUME NEW S, IsFiniteSet(S), S \subseteq Words, NEW o \in Seqs!SetToSeqs(S)
    PROVE  o \in Seq(Words)
<1>1. Cardinality(S) = Seqs!Cardinality(S)
  BY DEF Cardinality, Seqs!Cardinality
<1>2. PICK n \in Nat : n = Cardinality(S)
  BY FS_CardinalityType
<1>3. o \in [1..n -> S]
  BY <1>1, <1>2 DEF Seqs!SetToSeqs
<1>4. o \in [1..n -> Words]
  BY <1>3, Zenon
<1>. QED  BY <1>4

LEMMA WordType == ASSUME NEW w \in Words PROVE <<w>> \in Seq(Words)
  OBVIOUS

LEMMA VariableTypes ==
    ASSUME NEW n \in Words
    PROVE  /\ \A w \in Seq(Words) : Val(n, w) \in EnvVar
           /\ \A r \in Words : From(n, r) \in EnvVar
<1>1. "" \in Words
  BY WordsAssumption
<1>2. <<>> \in Seq(Words)
  OBVIOUS
<1>3. ASSUME NEW w \in Seq(Words) PROVE Val(n, w) \in EnvVar
  BY <1>1 DEF Val, EnvVar
<1>4. ASSUME NEW r \in Words PROVE From(n, r) \in EnvVar
  BY <1>1, <1>2 DEF From, EnvVar
<1>. QED  BY <1>3, <1>4

LEMMA ThreeVariables ==
    ASSUME NEW a \in EnvVar, NEW b \in EnvVar, NEW c \in EnvVar
    PROVE  <<a, b, c>> \in Seq(EnvVar)
  OBVIOUS

LEMMA SevenVariables ==
    ASSUME NEW a \in EnvVar, NEW b \in EnvVar, NEW c \in EnvVar, NEW d \in EnvVar,
           NEW e \in EnvVar, NEW f \in EnvVar, NEW g \in EnvVar
    PROVE  <<a, b, c, d, e, f, g>> \in Seq(EnvVar)
  OBVIOUS

LEMMA DefaultsType ==
    ASSUME NEW l, NEW d \in DefaultEnvs(l)
    PROVE  d \in Seq(EnvVar)
<1>1. PICK o \in Seqs!SetToSeqs(JavaProperties(l)) : d = DefaultEnv(o)
  BY DEF DefaultEnvs
<1>2. o \in Seq(Words)
  BY JavaPropertiesFinite, OrdersType
<1>3. o \o <<"-Djava.net.preferIPv4Stack=true">> \in Seq(Words)
  <2>1. <<"-Djava.net.preferIPv4Stack=true">> \in Seq(Words)
    BY WordType, WordsAssumption
  <2>. QED  BY <1>2, <2>1, ConcatProperties
<1>4. /\ <<"/deployments">> \in Seq(Words)
      /\ <<"false">> \in Seq(Words)
      /\ <<"prometheus-config.yml">> \in Seq(Words)
  BY WordType, WordsAssumption
<1>5. /\ Val("JAVA_APP_DIR", <<"/deployments">>) \in EnvVar
      /\ Val("JAVA_OPTIONS", o \o <<"-Djava.net.preferIPv4Stack=true">>) \in EnvVar
      /\ Val("JAVA_DEBUG", <<"false">>) \in EnvVar
      /\ Val("AB_JMX_EXPORTER_CONFIG", <<"prometheus-config.yml">>) \in EnvVar
      /\ From("NAMESPACE", "metadata.namespace") \in EnvVar
      /\ From("TEIID_NODENAME", "spec.nodeName") \in EnvVar
      /\ From("TEIID_PODNAME", "metadata.name") \in EnvVar
  BY <1>3, <1>4, VariableTypes, WordsAssumption
<1>. QED  BY <1>1, <1>5, SevenVariables, Zenon DEF DefaultEnv

LEMMA JaegerType == JaegerEnvs \in Seq(EnvVar)
<1>1. <<"localhost">> \in Seq(Words) /\ <<"6831">> \in Seq(Words) /\ <<"name">> \in Seq(Words)
  BY WordType, WordsAssumption
<1>2. /\ Val("JAEGER_AGENT_HOST", <<"localhost">>) \in EnvVar
      /\ Val("JAEGER_AGENT_PORT", <<"6831">>) \in EnvVar
      /\ Val("JAEGER_SERVICE_NAME", <<"name">>) \in EnvVar
  BY <1>1, VariableTypes, WordsAssumption
<1>. QED  BY <1>2, ThreeVariables, Zenon DEF JaegerEnvs

LEMMA CredentialsType == CredentialsAsEnv \in Seq(EnvVar)
<1>1. <<"NON_XA">> \in Seq(Words) /\ <<"name">> \in Seq(Words)
  BY WordType, WordsAssumption
<1>2. /\ From("CACHESTORE_USERNAME", "cache-store secret") \in EnvVar
      /\ Val("CACHESTORE_TRANSACTIONMODE", <<"NON_XA">>) \in EnvVar
      /\ Val("CACHESTORE_CACHENAME", <<"name">>) \in EnvVar
  BY <1>1, VariableTypes, WordsAssumption
<1>. QED  BY <1>2, ThreeVariables, Zenon DEF CredentialsAsEnv

-----------------------------------------------------------------------------
(* The data sources.                                                        *)

\* the lists of seqs up to the n-th, one after the other
IsFlat(g, seqs, n) ==
    g = [i \in 1..n |-> IF i = 1 THEN seqs[i] ELSE g[i - 1] \o seqs[i]]

LEMMA FlatExists ==
    ASSUME NEW seqs, NEW n \in Nat
    PROVE  \E g : IsFlat(g, seqs, n)
<1>. DEFINE T == {k \in Nat : ~\E g : IsFlat(g, seqs, k)}
<1>. SUFFICES ASSUME T # {} PROVE FALSE
  OBVIOUS
<1>1. PICK k \in T : \A j \in T : ~(j < k)
  BY LeastNatural
<1>2. CASE k = 0
  <2>. DEFINE h == [i \in 1..0 |-> seqs]
  <2>1. IsFlat(h, seqs, 0)
    BY DEF IsFlat
  <2>. QED  BY <1>1, <1>2, <2>1
<1>3. CASE k # 0
  <2>1. k - 1 \in Nat /\ k - 1 < k /\ k \in Nat
    BY <1>1, <1>3
  <2>2. PICK g : IsFlat(g, seqs, k - 1)
    BY <1>1, <2>1
  <2>. DEFINE h == [i \in 1..k |-> IF i # k THEN g[i]
                                   ELSE IF k = 1 THEN seqs[k] ELSE g[k - 1] \o seqs[k]]
  <2>3. ASSUME NEW i \in 1..(k - 1)
        PROVE  g[i] = IF i = 1 THEN seqs[i] ELSE g[i - 1] \o seqs[i]
    BY <2>2 DEF IsFlat
  <2>4. \A i \in 1..k : i # 1 => h[i - 1] = g[i - 1]
    BY <2>1
  <2>5. ASSUME NEW i \in 1..k
        PROVE  h[i] = IF i = 1 THEN seqs[i] ELSE h[i - 1] \o seqs[i]
    <3>1. CASE i = k
      BY <3>1, <1>3, <2>4
    <3>2. CASE i # k
      <4>1. i \in 1..(k - 1)
        BY <3>2, <2>1
      <4>2. h[i] = g[i]
        BY <3>2
      <4>. HIDE DEF h
      <4>. QED  BY <4>1, <4>2, <2>3, <2>4
    <3>. QED  BY <3>1, <3>2
  <2>6. DOMAIN h = 1..k /\ h = [i \in 1..k |-> h[i]]
    OBVIOUS
  <2>. HIDE DEF h
  <2>7. IsFlat(h, seqs, k)
    BY <2>5, <2>6 DEF IsFlat
  <2>. QED  BY <1>1, <2>7
<1>. QED  BY <1>2, <1>3

\* lists of variables put one after the other are a list of variables
LEMMA FlattenType ==
    ASSUME NEW seqs \in Seq(Seq(EnvVar))
    PROVE  Seqs!FlattenSeq(seqs) \in Seq(EnvVar)
<1>1. CASE Len(seqs) = 0
  <2>1. seqs = <<>> /\ <<>> \in Seq(EnvVar)
    BY <1>1
  <2>2. Seqs!FlattenSeq(seqs) = seqs
    BY <1>1 DEF Seqs!FlattenSeq
  <2>. QED  BY <2>1, <2>2
<1>2. CASE Len(seqs) # 0
  <2>. DEFINE f == CHOOSE g : g = [i \in 1..Len(seqs) |->
                                     IF i = 1 THEN seqs[i] ELSE g[i - 1] \o seqs[i]]
  <2>1. Seqs!FlattenSeq(seqs) = f[Len(seqs)]
    BY <1>2, Zenon DEF Seqs!FlattenSeq
  <2>2. f = CHOOSE g : IsFlat(g, seqs, Len(seqs))
    BY Zenon DEF IsFlat
  <2>3. Len(seqs) \in Nat
    OBVIOUS
  <2>4. IsFlat(f, seqs, Len(seqs))
    BY <2>2, <2>3, FlatExists, Zenon
  <2>. HIDE DEF f
  <2>5. ASSUME NEW i \in 1..Len(seqs)
        PROVE  f[i] = IF i = 1 THEN seqs[i] ELSE f[i - 1] \o seqs[i]
    BY <2>4 DEF IsFlat
  <2>. DEFINE T == {k \in 1..Len(seqs) : f[k] \notin Seq(EnvVar)}
  <2>6. T \subseteq Nat /\ Len(seqs) \in 1..Len(seqs)
    BY <1>2
  <2>7. ASSUME T # {} PROVE FALSE
    <3>1. PICK k \in T : \A j \in T : ~(j < k)
      BY <2>6, <2>7, LeastNatural
    <3>2. k \in 1..Len(seqs) /\ f[k] \notin Seq(EnvVar) /\ seqs[k] \in Seq(EnvVar)
      BY <3>1
    <3>3. k # 1
      BY <2>5, <3>2
    <3>4. k - 1 \in 1..Len(seqs) /\ k - 1 < k
      BY <3>2, <3>3
    <3>5. f[k - 1] \in Seq(EnvVar)
      BY <3>1, <3>4
    <3>6. f[k] = f[k - 1] \o seqs[k]
      BY <2>5, <3>2, <3>3
    <3>. QED  BY <3>2, <3>5, <3>6
  <2>. QED  BY <2>1, <2>6, <2>7
<1>. QED  BY <1>1, <1>2

SourceProperty == [var : Words, spaces : BOOLEAN, value : Seq(Words), from : Words]

LEMMA SettingsType ==
    ASSUME NEW p \in SourceProperty PROVE Settings(p) \in Seq(EnvVar)
<1>1. /\ p.value # <<>> => Val(p.var, p.value) \in EnvVar
      /\ p.from # "" => From(p.var, p.from) \in EnvVar
  BY VariableTypes DEF SourceProperty
<1>2. <<>> \in Seq(EnvVar) /\ \A x \in EnvVar : <<x>> \in Seq(EnvVar)
  OBVIOUS
<1>. DEFINE a == IF p.value # <<>> THEN <<Val(p.var, p.value)>> ELSE <<>>
            b == IF p.from # "" THEN <<From(p.var, p.from)>> ELSE <<>>
<1>3. a \in Seq(EnvVar) /\ b \in Seq(EnvVar)
  BY <1>1, <1>2
<1>4. Settings(p) = a \o b
  BY DEF Settings
<1>. HIDE DEF a, b
<1>. QED  BY <1>3, <1>4

\* the first of a name, in any list of things with names
LEMMA SourceThere ==
    ASSUME NEW l \in Seq(DataSource), NEW n, Has(l, n)
    PROVE  Get(l, n) \in DataSource
<1>1. Named(l, n) \subseteq Nat /\ Named(l, n) # {} /\ Named(l, n) \subseteq DOMAIN l
  BY DEF Named, Has
<1>2. PICK i \in Named(l, n) : \A j \in Named(l, n) : ~(j < i)
  BY <1>1, LeastNatural
<1>3. \A j \in Named(l, n) : i <= j
  BY <1>1, <1>2
<1>4. (CHOOSE k \in Named(l, n) : \A j \in Named(l, n) : k <= j) \in Named(l, n)
  BY <1>2, <1>3, Zenon
<1>. QED  BY <1>1, <1>4 DEF Get

LEMMA AllSettingsType ==
    ASSUME NEW sources \in Seq(Words), NEW configured \in Seq(DataSource)
    PROVE  AllSettings(sources, configured) \in Seq(EnvVar)
<1>1. ASSUME NEW s PROVE SourceSettings(s, configured) \in Seq(EnvVar)
  <2>1. CASE ~Has(configured, s)
    BY <2>1 DEF SourceSettings
  <2>2. CASE Has(configured, s)
    <3>. DEFINE P == FindConfigured(s, configured).properties
                q == [j \in DOMAIN P |-> Settings(P[j])]
    <3>1. P \in Seq(SourceProperty)
      BY <2>2, SourceThere DEF FindConfigured, DataSource, SourceProperty
    <3>2. SourceSettings(s, configured) = Seqs!FlattenSeq(q)
      BY <2>2 DEF SourceSettings
    <3>. HIDE DEF P
    <3>3. \A j \in DOMAIN P : Settings(P[j]) \in Seq(EnvVar)
      BY <3>1, SettingsType
    <3>4. q \in Seq(Seq(EnvVar))
      BY <3>1, <3>3
    <3>. QED  BY <3>2, <3>4, FlattenType
  <2>. QED  BY <2>1, <2>2
<1>. DEFINE q == [i \in DOMAIN sources |-> SourceSettings(sources[i], configured)]
<1>2. q \in Seq(Seq(EnvVar))
  BY <1>1, SMTT(40)
<1>. QED  BY <1>2, FlattenType DEF AllSettings

\* of what the data sources set, the last counts
LEMMA SpringPropertiesIs ==
    ASSUME NEW sources \in Seq(Words), NEW configured \in Seq(DataSource)
    PROVE  /\ SpringProperties(sources, configured) \in Seq(EnvVar)
           /\ SameMeaning(SpringProperties(sources, configured),
                    Seqs!Reverse(AllSettings(sources, configured)))
           /\ Seqs!Reverse(AllSettings(sources, configured)) \in Seq(EnvVar)
<1>1. AllSettings(sources, configured) \in Seq(EnvVar) /\ <<>> \in Seq(EnvVar)
  BY AllSettingsType
<1>2. Seqs!Reverse(AllSettings(sources, configured)) \in Seq(EnvVar)
  BY <1>1, ReverseNext
<1>. QED  BY <1>1, <1>2, SetAllIs, NothingBefore DEF SpringProperties

-----------------------------------------------------------------------------
(* What the API server completes.                                           *)

Completed(x) == IF x.from \in PodFields /\ x.api = "" THEN [x EXCEPT !.api = "v1"] ELSE x

LEMMA DefaultedIs ==
    ASSUME NEW l \in Seq(EnvVar)
    PROVE  /\ Defaulted(l) \in Seq(EnvVar)
           /\ \A n : /\ Has(Defaulted(l), n) <=> Has(l, n)
                     /\ Has(l, n) => Get(Defaulted(l), n) = Completed(Get(l, n))
<1>1. \A x \in EnvVar : Completed(x) \in EnvVar /\ Completed(x).name = x.name
  BY WordsAssumption DEF Completed, EnvVar
<1>. DEFINE m == Defaulted(l)
<1>2. m = [i \in DOMAIN l |-> Completed(l[i])]
  BY DEF Defaulted, Completed
<1>3. m \in Seq(EnvVar) /\ DOMAIN m = DOMAIN l /\ \A i \in DOMAIN l : m[i] = Completed(l[i])
  BY <1>1, <1>2
<1>. HIDE DEF m
<1>4. ASSUME NEW n PROVE Named(m, n) = Named(l, n)
  BY <1>1, <1>3 DEF Named
<1>5. ASSUME NEW n PROVE Has(m, n) <=> Has(l, n)
  BY <1>4 DEF Has
<1>6. ASSUME NEW n, Has(l, n) PROVE Get(m, n) = Completed(Get(l, n))
  <2>1. PICK i \in DOMAIN l : FirstIs(l, n, i)
    BY <1>6, FirstThere
  <2>2. FirstIs(m, n, i)
    BY <1>4, <2>1 DEF FirstIs
  <2>. QED  BY <1>3, <2>1, <2>2, FirstGives
<1>. QED  BY <1>3, <1>5, <1>6 DEF m

LEMMA SameDefaulted ==
    ASSUME NEW a \in Seq(EnvVar), NEW b \in Seq(EnvVar), SameMeaning(a, b)
    PROVE  SameMeaning(Defaulted(a), Defaulted(b))
  BY DefaultedIs DEF SameMeaning

-----------------------------------------------------------------------------
(* The environment of a Deployment.                                         *)

\* lists that are alike mean the same
LEMMA SameGivesMeaning ==
    ASSUME NEW a, NEW b, SameMeaning(a, b)
    PROVE  Meaning(a) = Meaning(b)
<1>. DEFINE A == {a[i].name : i \in DOMAIN a}
            B == {b[i].name : i \in DOMAIN b}
<1>1. \A n : (n \in A <=> Has(a, n)) /\ (n \in B <=> Has(b, n))
  BY HasIs
<1>2. A = B
  BY <1>1 DEF SameMeaning
<1>3. \A n \in A : Get(a, n) = Get(b, n)
  BY <1>1 DEF SameMeaning
<1>4. Meaning(a) = [n \in A |-> Get(a, n)] /\ Meaning(b) = [n \in B |-> Get(b, n)]
  BY DEF Meaning
<1>. HIDE DEF A, B
<1>. QED  BY <1>2, <1>3, <1>4

\* the defaults come after the user's own variables and the proxy
LEMMA DefaultsAre ==
    ASSUME NEW u \in Seq(EnvVar), NEW x \in GetDefaultEnvs(u)
    PROVE  \E d \in DefaultEnvs(u \o Proxy(u)) : /\ x \in Seq(EnvVar)
                                                 /\ d \in Seq(EnvVar)
                                                 /\ SameMeaning(x, (u \o Proxy(u)) \o d)
<1>. DEFINE c   == Clone(u)
            all == HTTPSettings(c)
            own == u \o Proxy(u)
<1>1. c \in Seq(EnvVar) /\ SameMeaning(c, u)
  BY CloneIs
<1>2. all \in Seq(EnvVar) /\ SameMeaning(all, c \o Proxy(c))
  BY <1>1, HTTPSettingsIs
<1>3. Proxy(c) = Proxy(u) /\ Proxy(u) \in Seq(EnvVar)
  BY <1>1, SameProxies, HTTPSettingsIs
<1>4. own \in Seq(EnvVar)
  BY <1>3, AfterOther
<1>5. SameMeaning(c \o Proxy(u), own)
  BY <1>1, <1>3, SameSelf, SameJoins
<1>6. SameMeaning(all, own)
  BY <1>2, <1>3, <1>5, SameTrans
<1>7. PICK d \in DefaultEnvs(all) : x = AddMissing(all, d)
  BY DEF GetDefaultEnvs
<1>8. d \in DefaultEnvs(own) /\ d \in Seq(EnvVar)
  BY <1>6, <1>7, SameProxies, DefaultsType
<1>. HIDE DEF c, all, own
<1>9. x \in Seq(EnvVar) /\ SameMeaning(x, all \o d)
  BY <1>2, <1>7, <1>8, AddMissingIs
<1>10. SameMeaning(all \o d, own \o d)
  BY <1>2, <1>4, <1>6, <1>8, SameSelf, SameJoins
<1>11. SameMeaning(x, own \o d)
  BY <1>9, <1>10, SameTrans
<1>. QED  BY <1>8, <1>9, <1>11 DEF own

LEMMA CombineAfter ==
    ASSUME NEW a \in Seq(EnvVar), NEW b \in Seq(EnvVar),
           NEW c \in Seq(EnvVar), NEW d \in Seq(EnvVar),
           SameMeaning(a, c), SameMeaning(b, d)
    PROVE  /\ Combine(a, b) \in Seq(EnvVar)
           /\ c \o d \in Seq(EnvVar)
           /\ SameMeaning(Combine(a, b), c \o d)
  BY CombineIs, SameJoins, SameTrans, AfterOther

\* An environment the handler computes is a list of variables, gives every name
\* what the first list that has it gives it, and has its proxy.
LEMMA EnvironmentIs ==
    ASSUME NEW e \in Text, NEW src \in Text, NEW cs \in BOOLEAN,
           NEW env \in EnvironmentsFor(e, src, cs)
    PROVE  /\ env \in Seq(EnvVar)
           /\ Meaning(Defaulted(env)) \in WantedFor(e, src, cs)
           /\ HTTPSettings(env) = env
<1>. DEFINE u == UserEnv[e]
            j == IF HasJaeger THEN JaegerEnvs ELSE <<>>
            i == IF cs THEN CredentialsAsEnv ELSE <<>>
            S == SpringProperties(SourcesIn[src], DataSources)
            R == Seqs!Reverse(AllSettings(SourcesIn[src], DataSources))
            own == u \o Proxy(u)
<1>1. /\ u \in Seq(EnvVar) /\ SourcesIn[src] \in Seq(Words)
      /\ DataSources \in Seq(DataSource)
  BY DeploymentAssumption
<1>2. j \in Seq(EnvVar) /\ i \in Seq(EnvVar)
  BY JaegerType, CredentialsType
<1>3. S \in Seq(EnvVar) /\ R \in Seq(EnvVar) /\ SameMeaning(S, R)
  BY <1>1, SpringPropertiesIs
<1>4. PICK x \in GetDefaultEnvs(u) : env = Combine(Combine(Combine(x, j), i), S)
  BY DEF EnvironmentsFor
<1>5. PICK d \in DefaultEnvs(own) :
          x \in Seq(EnvVar) /\ d \in Seq(EnvVar) /\ SameMeaning(x, own \o d)
  BY <1>1, <1>4, DefaultsAre
<1>6. WantedFor(e, src, cs) =
          {Meaning(Defaulted(own \o f \o j \o i \o R)) : f \in DefaultEnvs(own)}
  BY DEF WantedFor, Proxy
<1>7. Proxy(u) \in Seq(EnvVar)
  BY <1>1, HTTPSettingsIs
<1>8. own \in Seq(EnvVar)
  BY <1>1, <1>7, AfterOther
<1>9. UserDefinedProxy(own) \/ ~ClusterDefinedProxy
  BY <1>1, <1>8, ProxySettled, SameSelf
<1>. HIDE DEF u, j, i, S, R, own
<1>10. own \o d \in Seq(EnvVar)
  BY <1>5, <1>8, AfterOther
<1>. DEFINE y == Combine(x, j)
            z == Combine(y, i)
<1>11. y \in Seq(EnvVar) /\ (own \o d) \o j \in Seq(EnvVar) /\ SameMeaning(y, (own \o d) \o j)
  BY <1>2, <1>5, <1>10, CombineAfter, SameSelf
<1>. HIDE DEF y
<1>12. /\ z \in Seq(EnvVar) /\ ((own \o d) \o j) \o i \in Seq(EnvVar)
       /\ SameMeaning(z, ((own \o d) \o j) \o i)
  BY <1>2, <1>11, CombineAfter, SameSelf
<1>. HIDE DEF z
<1>13. env \in Seq(EnvVar) /\ SameMeaning(env, (((own \o d) \o j) \o i) \o R)
  BY <1>3, <1>4, <1>12, CombineAfter DEF z, y
<1>14. (((own \o d) \o j) \o i) \o R \in Seq(EnvVar)
  BY <1>3, <1>12, AfterOther
<1>15. Meaning(Defaulted(env)) = Meaning(Defaulted((((own \o d) \o j) \o i) \o R))
  BY <1>13, <1>14, SameDefaulted, SameGivesMeaning
<1>16. Meaning(Defaulted(env)) \in WantedFor(e, src, cs)
  BY <1>5, <1>6, <1>15
<1>17. UserDefinedProxy(own) => UserDefinedProxy(env)
  <2>1. ASSUME NEW n, Has(own, n) PROVE Has(env, n)
    <3>1. Has(own \o d, n)
      BY <1>5, <1>8, <2>1, AfterOther
    <3>2. Has((own \o d) \o j, n)
      BY <1>2, <1>10, <3>1, AfterOther
    <3>3. Has(((own \o d) \o j) \o i, n)
      BY <1>2, <1>11, <3>2, AfterOther
    <3>4. Has((((own \o d) \o j) \o i) \o R, n)
      BY <1>3, <1>12, <3>3, AfterOther
    <3>. QED  BY <1>13, <3>4 DEF SameMeaning
  <2>. QED  BY <2>1 DEF UserDefinedProxy
<1>18. HTTPSettings(env) = env
  BY <1>9, <1>17 DEF HTTPSettings
<1>. QED  BY <1>13, <1>16, <1>18

-----------------------------------------------------------------------------
(* What is written of a Deployment, and by whom.                            *)

\* the handler, or a crash in it, writes d for the resource it works on
Written(d) ==
    LET t == worker.inst.obj
        v == worker.key
    IN  /\ AtStep("Deployment")
        /\ \/ t.status.phase = KeystoreCreated /\ d \in Deployed(worker.inst, dep[v])
           \/ /\ t.status.phase = Running
              /\ dep[v] # NoDeployment
              /\ \E r \in EnsureRuns(t, v) : d = r.dep

\* a step that writes the Deployment of one resource
Writes == \E d : Written(d) /\ dep' = [dep EXCEPT ![worker.key] = d]

\* the handler writes a Deployment, or nothing
LEMMA HandlerWrites ==
    ASSUME TypeInv, DTypeOK, HandleDeploymentObject \/ CrashInDeployment
    PROVE  UNCHANGED dep \/ Writes
<1>. DEFINE t == worker.inst.obj
            v == worker.key
<1>1. CASE CreateDeployment
  <2>1. AtStep("Deployment") /\ t.status.phase = KeystoreCreated
    BY <1>1 DEF CreateDeployment
  <2>2. \/ UNCHANGED dep
        \/ \E d \in Deployed(worker.inst, dep[v]) \cup {dep[v]} :
              dep' = [dep EXCEPT ![v] = d]
    BY <1>1 DEF CreateDeployment
  <2>3. [dep EXCEPT ![v] = dep[v]] = dep
    BY <2>1, CopyType DEF DTypeOK
  <2>. QED  BY <2>1, <2>2, <2>3 DEF Writes, Written
<1>2. CASE EnsureReplicas
  <2>1. /\ AtStep("Deployment") /\ t.status.phase = Running /\ dep[v] # NoDeployment
    BY <1>2 DEF EnsureReplicas, IsDeploymentInReadyState
  <2>2. UNCHANGED dep \/ \E r \in EnsureRuns(t, v) : dep' = [dep EXCEPT ![v] = r.dep]
    BY <1>2 DEF EnsureReplicas
  <2>. QED  BY <2>1, <2>2 DEF Writes, Written
<1>3. CASE CrashInDeployment
  BY <1>3 DEF CrashInDeployment, IsDeploymentInReadyState, Writes, Written
<1>4. CASE MonitorDeployment \/ NothingToEnsure
  BY <1>4 DEF MonitorDeployment, NothingToEnsure, depVars
<1>. QED  BY <1>1, <1>2, <1>3, <1>4 DEF HandleDeploymentObject

\* the environment that is computed for the worker's copy
LEMMA CopyEnvironment ==
    ASSUME TypeInv, AtStep("Deployment"),
           NEW env \in DeploymentEnvironments(worker.inst.obj)
    PROVE  /\ Defaulted(env) \in Seq(EnvVar)
           /\ AsksFor(worker.inst.obj, Defaulted(env))
           /\ HTTPSettings(env) = env
<1>. DEFINE t == worker.inst.obj
            e == t.spec.env
            src == SourceText(t.spec)
            cs == t.status.cacheStore
<1>1. t \in Vdb
  BY CopyType
<1>2. e \in Text /\ src \in Text /\ cs \in BOOLEAN
  BY <1>1 DEF Vdb, VdbSpec, VdbStatus, SourceText
<1>3. DeploymentEnvironments(t) = EnvironmentsFor(e, src, cs)
  BY <1>2 DEF DeploymentEnvironments, Environments
<1>4. AsksFor(t, Defaulted(env)) <=> Meaning(Defaulted(env)) \in WantedFor(e, src, cs)
  BY <1>2 DEF AsksFor, Wanted
<1>. HIDE DEF e, src, cs
<1>5. /\ env \in Seq(EnvVar)
      /\ Meaning(Defaulted(env)) \in WantedFor(e, src, cs)
      /\ HTTPSettings(env) = env
  BY <1>2, <1>3, EnvironmentIs
<1>. QED  BY <1>4, <1>5, DefaultedIs

LEMMA UpdatedIs ==
    ASSUME NEW d \in DeploymentObject, NEW e \in DeploymentObject
    PROVE  Updated(d, e) \in DeploymentObject /\ Updated(d, e).template = e.template
  BY DEF Updated, DeploymentObject

\* What is written is a Deployment.  If its environment is new, it is the one
\* the worker's copy asks for; its image is the latest, or the one it had.
LEMMA WrittenIs ==
    ASSUME TypeInv, DTypeOK, NEW d, Written(d)
    PROVE  /\ worker.key \in VDBs
           /\ d \in DeploymentObject
           /\ \/ AsksFor(worker.inst.obj, d.template.env)
              \/ /\ dep[worker.key] # NoDeployment
                 /\ d.template.env = dep[worker.key].template.env
           /\ \/ /\ worker.inst.obj.status.phase = KeystoreCreated
                 /\ d.template.image = image[worker.key]
              \/ /\ worker.inst.obj.status.phase = Running
                 /\ dep[worker.key] # NoDeployment
                 /\ d.template.image = dep[worker.key].template.image
<1>. DEFINE t == worker.inst.obj
            v == worker.key
            o == dep[v]
<1>0. AtStep("Deployment")
  BY DEF Written
<1>1. v \in VDBs /\ t \in Vdb /\ worker.inst \in Stored
  BY <1>0, CopyType, WorkerBusy DEF AtStep, TypeInv
<1>2. /\ image[v] \in Digest /\ config[v] \in Revisions
      /\ o # NoDeployment => o \in DeploymentObject
  BY <1>1 DEF DTypeOK
<1>3. CASE t.status.phase = KeystoreCreated /\ o # NoDeployment /\ d \in Deployed(worker.inst, o)
  <2>. DEFINE n == [o EXCEPT !.template.image = image[v]]
  <2>1. d = Updated(o, n)
    BY <1>3 DEF Deployed
  <2>2. n \in DeploymentObject /\ n.template.image = image[v]
        /\ n.template.env = o.template.env
    BY <1>2, <1>3 DEF DeploymentObject, Template
  <2>. HIDE DEF n
  <2>. QED  BY <1>1, <1>2, <1>3, <2>1, <2>2, UpdatedIs
<1>4. CASE t.status.phase = KeystoreCreated /\ o = NoDeployment /\ d \in Deployed(worker.inst, o)
  <2>1. PICK env \in DeploymentEnvironments(t) : d = BuildDeployment(worker.inst, env)
    BY <1>4 DEF Deployed
  <2>2. /\ Defaulted(env) \in Seq(EnvVar)
        /\ AsksFor(t, Defaulted(env))
        /\ HTTPSettings(env) = env
    BY <1>0, <2>1, CopyEnvironment
  <2>. DEFINE m == Defaulted(env)
  <2>3. d = [owner |-> worker.inst.uid, replicas |-> GivenReplicas(t.spec.replicas),
             template |-> [image |-> image[v], env |-> m,
                           configHash |-> t.status.configDigest],
             generation |-> 1, stopped |-> FALSE]
    BY <2>1, <2>2, Zenon DEF BuildDeployment
  <2>. HIDE DEF m
  <2>4. GivenReplicas(t.spec.replicas) \in Nat /\ t.status.configDigest \in ConfigDigests
    BY <1>1 DEF Vdb, VdbSpec, VdbStatus, GivenReplicas
  <2>5. worker.inst.uid \in Nat
    BY <1>1 DEF Stored
  <2>6. m \in Seq(EnvVar) /\ AsksFor(t, m)
    BY <2>2 DEF m
  <2>7. d \in DeploymentObject
    BY <1>2, <2>3, <2>4, <2>5, <2>6 DEF DeploymentObject, Template
  <2>8. d.template.env = m /\ d.template.image = image[v]
    BY <2>3
  <2>. QED  BY <1>1, <1>4, <2>6, <2>7, <2>8
<1>5. CASE t.status.phase = Running /\ o # NoDeployment /\ \E r \in EnsureRuns(t, v) : d = r.dep
  <2>. DEFINE c == ComputeConfigDigest(v, t.spec)
              h == [o EXCEPT !.template.configHash = c]
              p(m) == [o EXCEPT !.replicas = GivenReplicas(t.spec.replicas), !.template.env = m]
  <2>1. PICK env \in DeploymentEnvironments(t) :
              \/ d = Updated(o, p(Defaulted(env)))
              \/ d = o
              \/ d = Updated(o, h)
    <3>1. PICK r \in EnsureRuns(t, v) : d = r.dep
      BY <1>5
    <3>2. PICK env \in DeploymentEnvironments(t) :
              r = IF NeedsUpdate(t, o, env)
                  THEN [target |-> t, dep |-> Ensured(t, o, env)]
                  ELSE [target |-> [t EXCEPT !.status.configDigest = c],
                        dep    |-> IF c = t.status.configDigest THEN o
                                   ELSE Updated(o, h)]
      BY <3>1, Zenon DEF EnsureRuns
    <3>3. r.dep \in {Ensured(t, o, env), o, Updated(o, h)}
      BY <3>2
    <3>. QED  BY <3>1, <3>3, Zenon DEF Ensured
  <2>2. Defaulted(env) \in Seq(EnvVar) /\ AsksFor(t, Defaulted(env))
    BY <1>0, <2>1, CopyEnvironment
  <2>3. c \in ConfigDigests
    BY <1>1, <1>2, DeploymentAssumption DEF ComputeConfigDigest, Vdb, VdbSpec
  <2>4. GivenReplicas(t.spec.replicas) \in Nat
    BY <1>1 DEF Vdb, VdbSpec, GivenReplicas
  <2>5. h \in DeploymentObject /\ h.template.image = o.template.image
        /\ h.template.env = o.template.env
    BY <1>2, <1>5, <2>3 DEF DeploymentObject, Template
  <2>6. PICK m : m = Defaulted(env)
    OBVIOUS
  <2>7. p(m) \in DeploymentObject /\ p(m).template.image = o.template.image
        /\ p(m).template.env = m
    BY <1>2, <1>5, <2>2, <2>4, <2>6 DEF DeploymentObject, Template
  <2>. HIDE DEF h, p
  <2>. QED  BY <1>1, <1>2, <1>5, <2>1, <2>2, <2>5, <2>6, <2>7, UpdatedIs
<1>. QED  BY <1>3, <1>4, <1>5 DEF Written

\* each step changes what it changes of one resource's Deployment and pods
LEMMA UsedType ==
    ASSUME DTypeOK, NEW b \in {"config", "faults"}, NEW bound, Use(b, bound)
    PROVE  used' \in [{"config", "faults"} -> Nat]
  BY DEF DTypeOK, Use

\* the handler and its crashes touch the Deployment and the bounds only
LEMMA HandlerLeaves ==
    ASSUME HandleDeploymentObject \/ CrashInDeployment
    PROVE  /\ UNCHANGED <<image, config, pods>>
           /\ UNCHANGED used \/ Use("faults", MaxDeployFaults)
<1>1. CASE CreateDeployment
  BY <1>1 DEF CreateDeployment, Stays
<1>2. CASE MonitorDeployment
  BY <1>2 DEF MonitorDeployment, Stays
<1>3. CASE EnsureReplicas
  BY <1>3 DEF EnsureReplicas, Stays
<1>4. CASE NothingToEnsure
  BY <1>4 DEF NothingToEnsure, depVars
<1>5. CASE CrashInDeployment
  BY <1>5 DEF CrashInDeployment, Stays
<1>. QED  BY <1>1, <1>2, <1>3, <1>4, <1>5 DEF HandleDeploymentObject

LEMMA DTypeStep == TypeInv /\ DTypeOK /\ [DNext]_dVars => DTypeOK'
<1>. SUFFICES ASSUME TypeInv, DTypeOK, [DNext]_dVars PROVE DTypeOK'
  OBVIOUS
<1>1. CASE UNCHANGED depVars
  BY <1>1 DEF DTypeOK, depVars
<1>2. CASE ServiceImageBuilt
  <2>1. AtStep("ServiceImage")
    BY <1>2 DEF ServiceImageBuilt, HandleServiceImage
  <2>2. worker.key \in VDBs /\ worker.inst.obj.status.digest \in Digest
    BY <2>1, WorkerBusy DEF TypeInv, AtStep, Vdb, VdbStatus
  <2>3. \/ image' = image
        \/ image' = [image EXCEPT ![worker.key] = worker.inst.obj.status.digest]
    BY <1>2 DEF ServiceImageBuilt
  <2>4. image' \in [VDBs -> Digest]
    BY <2>2, <2>3 DEF DTypeOK
  <2>. QED  BY <1>2, <2>4 DEF DTypeOK, ServiceImageBuilt
<1>3. CASE HandleDeploymentObject \/ CrashInDeployment
  <2>1. dep' \in [VDBs -> DeploymentObject \cup {NoDeployment}]
    <3>1. CASE UNCHANGED dep
      BY <3>1 DEF DTypeOK
    <3>2. CASE Writes
      <4>1. PICK d : Written(d) /\ dep' = [dep EXCEPT ![worker.key] = d]
        BY <3>2 DEF Writes
      <4>2. d \in DeploymentObject
        BY <4>1, WrittenIs
      <4>. QED  BY <4>1, <4>2 DEF DTypeOK
    <3>. QED  BY <1>3, <3>1, <3>2, HandlerWrites
  <2>2. used' \in [{"config", "faults"} -> Nat]
    BY <1>3, HandlerLeaves, UsedType DEF DTypeOK
  <2>. QED  BY <1>3, <2>1, <2>2, HandlerLeaves DEF DTypeOK
<1>4. CASE \E v \in VDBs : Rollout(v)
  <2>1. PICK v \in VDBs : Rollout(v)
    BY <1>4
  <2>2. dep[v] \in DeploymentObject /\ config[v] \in Revisions
    BY <2>1 DEF Rollout, DTypeOK
  <2>3. [template |-> dep[v].template, config |-> config[v]] \in Pods
    BY <2>2 DEF DeploymentObject, Pods
  <2>4. [dep[v] EXCEPT !.stopped = FALSE] \in DeploymentObject
    BY <2>2 DEF DeploymentObject
  <2>5. dep' = [dep EXCEPT ![v] = [dep[v] EXCEPT !.stopped = FALSE]]
    BY <2>1 DEF Rollout
  <2>. QED  BY <2>1, <2>3, <2>4, <2>5 DEF DTypeOK, Rollout
<1>5. CASE \E v \in VDBs : RolloutStops(v)
  <2>1. PICK v \in VDBs : RolloutStops(v)
    BY <1>5
  <2>2. dep[v] \in DeploymentObject
    BY <2>1 DEF RolloutStops, DTypeOK
  <2>3. [dep[v] EXCEPT !.stopped = ~@] \in DeploymentObject
    BY <2>2 DEF DeploymentObject
  <2>4. dep' = [dep EXCEPT ![v] = [dep[v] EXCEPT !.stopped = ~@]]
    BY <2>1 DEF RolloutStops
  <2>. QED  BY <2>1, <2>3, <2>4 DEF DTypeOK, RolloutStops
<1>6. CASE \E v \in VDBs : CollectDeployment(v)
  BY <1>6 DEF DTypeOK, CollectDeployment
<1>7. CASE \E v \in VDBs, c \in Revisions : EditConfig(v, c)
  BY <1>7, UsedType DEF DTypeOK, EditConfig
<1>8. CASE InitializeReads
  BY <1>1, <1>8 DEF InitializeReads
<1>9. CASE UNCHANGED dVars
  BY <1>1, <1>9 DEF dVars
<1>. QED
  BY <1>1, <1>2, <1>3, <1>4, <1>5, <1>6, <1>7, <1>8, <1>9 DEF DNext

\* what is proved of the types is inductive together with those of Reconciler
DTypes == DInv /\ DTypeOK

LEMMA DTypesInit == DInit => DTypes
<1>. SUFFICES ASSUME DInit PROVE DTypes
  OBVIOUS
<1>1. DInv
  BY TypeInit, DeploymentAssumption DEF DInit, DInv, ConfigOK
<1>2. <<>> \in Digest
  BY DEF Digest
<1>3. (CHOOSE c \in Revisions : TRUE) \in Revisions
  BY DeploymentAssumption
<1>. QED  BY <1>1, <1>2, <1>3 DEF DInit, DTypes, DTypeOK

LEMMA DTypesStep == DTypes /\ [DNext]_dVars => DTypes'
  BY StepRefines, TypeStep, ConfigStep, DTypeStep DEF DTypes, DInv

\* The Deployments that are written, completed by the API server, updated and
\* rolled out have the fields the operator gives them, whatever the user's
\* variables, data sources and proxies are: the merged environments are lists
\* of variables.
THEOREM DeploymentTypes == DSpec => []DTypeOK
<1>1. DTypes => DTypeOK
  BY DEF DTypes
<1>. QED  BY <1>1, DTypesInit, DTypesStep, PTL DEF DSpec

\* a step removes the Deployment of v, leaves its template, or writes it
LEMMA TemplateStep ==
    ASSUME DTypes, [DNext]_dVars, NEW v \in VDBs
    PROVE  \/ dep'[v] = NoDeployment
           \/ dep[v] # NoDeployment /\ dep'[v].template = dep[v].template
           \/ worker.key = v /\ Written(dep'[v])
<1>0. dep \in [VDBs -> DeploymentObject \cup {NoDeployment}]
  BY DEF DTypes, DTypeOK
<1>1. CASE dep'[v] = dep[v]
  BY <1>1
<1>2. CASE HandleDeploymentObject \/ CrashInDeployment
  <2>1. CASE UNCHANGED dep
    BY <1>1, <2>1
  <2>2. CASE Writes
    <3>1. PICK d : Written(d) /\ dep' = [dep EXCEPT ![worker.key] = d]
      BY <2>2 DEF Writes
    <3>2. CASE worker.key # v
      BY <1>0, <1>1, <3>1, <3>2
    <3>3. CASE worker.key = v
      BY <1>0, <3>1, <3>3
    <3>. QED  BY <3>2, <3>3
  <2>. QED  BY <1>2, <2>1, <2>2, HandlerWrites DEF DTypes, DInv
<1>3. CASE \E w \in VDBs : Rollout(w) \/ RolloutStops(w) \/ CollectDeployment(w)
  <2>1. PICK w \in VDBs : Rollout(w) \/ RolloutStops(w) \/ CollectDeployment(w)
    BY <1>3
  <2>2. CASE w # v
    BY <1>0, <1>1, <2>1, <2>2 DEF Rollout, RolloutStops, CollectDeployment
  <2>3. CASE w = v /\ CollectDeployment(v)
    BY <1>0, <2>3 DEF CollectDeployment
  <2>4. CASE w = v /\ (Rollout(v) \/ RolloutStops(v))
    <3>1. dep[v] \in DeploymentObject
      BY <1>0, <2>4 DEF Rollout, RolloutStops
    <3>2. \/ dep'[v] = [dep[v] EXCEPT !.stopped = FALSE]
          \/ dep'[v] = [dep[v] EXCEPT !.stopped = ~@]
      BY <1>0, <2>4 DEF Rollout, RolloutStops
    <3>3. dep'[v].template = dep[v].template
      BY <3>1, <3>2 DEF DeploymentObject
    <3>. QED  BY <2>4, <3>3 DEF Rollout, RolloutStops
  <2>. QED  BY <2>1, <2>2, <2>3, <2>4
<1>4. CASE \/ (RestOfLoop /\ UNCHANGED depVars) \/ InitializeReads \/ ServiceImageBuilt
           \/ \E w \in VDBs, c \in Revisions : EditConfig(w, c)
           \/ UNCHANGED dVars
  BY <1>1, <1>4 DEF dVars, depVars, InitializeReads, ServiceImageBuilt, EditConfig
<1>. QED  BY <1>2, <1>3, <1>4 DEF DNext

LEMMA AsAskedStep ==
    ASSUME DTypes, DNext, NEW v \in VDBs, dep'[v] # NoDeployment,
           dep[v] # NoDeployment => dep'[v].template.env # dep[v].template.env
    PROVE  WorkingOn(v) /\ AsksFor(worker.inst.obj, dep'[v].template.env)
<1>1. worker.key = v /\ Written(dep'[v])
  BY TemplateStep
<1>2. \/ AsksFor(worker.inst.obj, dep'[v].template.env)
      \/ dep[v] # NoDeployment /\ dep'[v].template.env = dep[v].template.env
  BY <1>1, WrittenIs DEF DTypes, DInv
<1>. QED
  BY <1>1, <1>2 DEF Written, AtStep, WorkingOn

\* Whoever writes the environment of a Deployment writes the one that the copy
\* of the resource it works on asks for, for every set of variables, data
\* sources and proxies: deploymentEnvironments gives each variable the value of
\* the first list that has it, and what buildDeployment does to the result once
\* more changes nothing.
THEOREM WritesWhatIsAsked == DSpec => EnvironmentAsAsked
<1>. DEFINE Asked == [\A v \in VDBs :
                        /\ dep'[v] # NoDeployment
                        /\ dep[v] # NoDeployment =>
                              dep'[v].template.env # dep[v].template.env
                        => WorkingOn(v) /\ AsksFor(worker.inst.obj, dep'[v].template.env)]_dVars
<1>1. DTypes /\ [DNext]_dVars => Asked
  BY AsAskedStep
<1>. QED  BY <1>1, DTypesInit, DTypesStep, PTL DEF DSpec, EnvironmentAsAsked

-----------------------------------------------------------------------------
(* The image that is deployed.                                              *)

\* image IM, and that of Deployment D, are those of status ST, where it says so
Matches(im, d, st) ==
    /\ st.phase \in ImageReady => im = st.digest
    /\ st.phase \in {Deploying, Running} /\ d # NoDeployment =>
          d.template.image = st.digest

\* the stored status matches, and so does one that will be written over it
Matching ==
    \A v \in VDBs : store[v] # NoVdb =>
        /\ Matches(image[v], dep[v], store[v].obj.status)
        /\ WillWrite(v) => Matches(image[v], dep[v], worker.target.status)

DeployedInv == RefInv /\ CopiesAged /\ Line /\ CopiesBehind /\ DTypes /\ Matching

\* what a status says of images follows from its phase
LEMMA ReadyPhases ==
    /\ {Deploying, Running, KeystoreCreated} \subseteq ImageReady
    /\ Initial \notin ImageReady /\ ServiceImage \notin ImageReady
    /\ ServiceImageFinished \notin {Deploying, Running}
    /\ Deploying # KeystoreCreated /\ Running # KeystoreCreated
    /\ \A p, q : PhaseStep(p, q) =>
          /\ q \in ImageReady =>
                p \in ImageReady \/ (p = ServiceImage /\ q = ServiceImageFinished)
          /\ q \in {Deploying, Running} =>
                p \in {Deploying, Running} \/ (p = KeystoreCreated /\ q = Deploying)
BY DEF PhaseStep, ImageReady, Initial, CreateCacheStore, S2IReady, BuilderImage,
   BuilderImageFinished, BuilderImageFailed, ServiceImage, ServiceImageFinished,
   ServiceImageFailed, ServiceCreated, KeystoreCreated, Deploying, Running, Error

\* the image of v moves only to that of the copy its build handler works on
LEMMA LatestStep ==
    ASSUME DTypes, [DNext]_dVars, NEW v \in VDBs
    PROVE  \/ image'[v] = image[v]
           \/ /\ worker.pc = "handle" /\ worker.key = v
              /\ worker.inst.obj.status.phase \in {BuilderImageFinished, ServiceImage}
              /\ image'[v] = worker.inst.obj.status.digest
<1>1. CASE ServiceImageBuilt
  <2>1. AtStep("ServiceImage")
    BY <1>1 DEF ServiceImageBuilt, HandleServiceImage
  <2>2. worker.inst.obj.status.phase \in {BuilderImageFinished, ServiceImage}
    BY <2>1, AtItsPhase DEF AtStep, DTypes, DInv
  <2>3. \/ image' = image
        \/ image' = [image EXCEPT ![worker.key] = worker.inst.obj.status.digest]
    BY <1>1 DEF ServiceImageBuilt
  <2>. QED  BY <2>1, <2>2, <2>3 DEF AtStep, DTypes, DTypeOK
<1>2. CASE \/ HandleDeploymentObject \/ CrashInDeployment
  BY <1>2, HandlerLeaves
<1>3. CASE \/ (RestOfLoop /\ UNCHANGED depVars) \/ InitializeReads \/ UNCHANGED dVars
           \/ \E w \in VDBs : \/ Rollout(w) \/ RolloutStops(w) \/ CollectDeployment(w)
                              \/ \E c \in Revisions : EditConfig(w, c)
  BY <1>3 DEF dVars, depVars, InitializeReads, Rollout, RolloutStops,
     CollectDeployment, EditConfig
<1>. QED  BY <1>1, <1>2, <1>3 DEF DNext

\* a handler's step is that of the action the worker is at
LEMMA TheHandler ==
    ASSUME [DNext]_dVars, worker.pc = "handle", worker'.pc = "update"
    PROVE  /\ BuildSteps[worker.step] = "ServiceImage" => ServiceImageBuilt
           /\ BuildSteps[worker.step] = "Deployment" => HandleDeploymentObject
<1>1. worker' # worker /\ worker' # Idle /\ worker # Idle
  BY DEF Idle
<1>2. ~Loop
  BY <1>1, LoopWorker
<1>3. ~CrashInDeployment
  BY <1>2 DEF CrashInDeployment, Loop
<1>4. ASSUME RestOfLoop
      PROVE  BuildSteps[worker.step] \notin {"ServiceImage", "Deployment"}
  BY <1>2, <1>4 DEF RestOfLoop, EnsurePanics, Loop, AtStep, HandleCacheStore,
     HandleS2IBuilderImage, HandleCreateService, HandleCreateCertificate,
     HandlePrometheusMonitor
<1>5. InitializeReads => BuildSteps[worker.step] = "Initialize"
  BY DEF InitializeReads, HandleInitialize, AtStep
<1>6. ServiceImageBuilt => BuildSteps[worker.step] = "ServiceImage"
  BY DEF ServiceImageBuilt, HandleServiceImage, AtStep
<1>7. HandleDeploymentObject => BuildSteps[worker.step] = "Deployment"
  BY DEF HandleDeploymentObject, CreateDeployment, MonitorDeployment,
     EnsureReplicas, NothingToEnsure, AtStep
<1>8. ~\/ UNCHANGED dVars
       \/ \E w \in VDBs : \/ Rollout(w) \/ RolloutStops(w) \/ CollectDeployment(w)
                          \/ \E c \in Revisions : EditConfig(w, c)
  BY <1>1 DEF dVars, vars, Rollout, RolloutStops, CollectDeployment, EditConfig
<1>. QED  BY <1>3, <1>4, <1>5, <1>6, <1>7, <1>8 DEF DNext

\* a worker that goes on to Deploying has set the Deployment to the latest image
LEMMA DeployedLatest ==
    ASSUME DTypes, HandleDeploymentObject, worker'.pc = "update",
           worker.inst.obj.status.phase = KeystoreCreated,
           worker'.target.status.phase = Deploying
    PROVE  dep'[worker.key].template.image = image[worker.key]
<1>. DEFINE t == worker.inst.obj
            v == worker.key
<1>1. CreateDeployment
  BY DEF HandleDeploymentObject, MonitorDeployment, EnsureReplicas, NothingToEnsure,
     KeystoreCreated, Deploying, Running
<1>2. AtStep("Deployment") /\ TypeInv /\ TypeOK /\ worker.pc = "handle"
  BY <1>1 DEF CreateDeployment, AtStep, DTypes, DInv, TypeInv
<1>3. ~Handled(Fail(t))
  <2>1. SUFFICES ASSUME Handled(Fail(t)) PROVE FALSE
    OBVIOUS
  <2>2. worker'.target = Fail(t).target
    BY <1>2, <2>1, HandledWorker DEF Idle, AtStep
  <2>. QED  BY <2>2, ReturnTarget DEF KeystoreCreated, Deploying
<1>4. PICK d \in Deployed(worker.inst, dep[v]) : dep' = [dep EXCEPT ![v] = d]
  BY <1>1, <1>3 DEF CreateDeployment
<1>5. Written(d)
  BY <1>2, <1>4 DEF Written
<1>6. v \in VDBs /\ d.template.image = image[v]
  BY <1>2, <1>5, WrittenIs DEF DTypes, KeystoreCreated, Running
<1>. QED  BY <1>4, <1>6 DEF DTypes, DTypeOK

\* the stored status goes on matching
LEMMA StoredMatches ==
    ASSUME DeployedInv, [DNext]_dVars, NEW w \in VDBs, store'[w] # NoVdb
    PROVE  Matches(image'[w], dep'[w], store'[w].obj.status)
<1>. DEFINE r == store[w]
            st == store[w].obj.status
<1>0. RefInv /\ TypeInv /\ TypeOK /\ [Next]_vars /\ DTypeOK /\ DTypes
  BY StepRefines DEF DeployedInv, DTypes, RefInv, TypeInv
<1>1. r # NoVdb => /\ Matches(image[w], dep[w], st)
                   /\ WillWrite(w) => Matches(image[w], dep[w], worker.target.status)
  BY DEF DeployedInv, Matching
<1>2. \A im, d, s : s.phase = Initial => Matches(im, d, s)
  BY ReadyPhases DEF Matches
<1>3. \/ dep'[w] = NoDeployment
      \/ dep[w] # NoDeployment /\ dep'[w].template = dep[w].template
      \/ /\ worker.key = w /\ worker.pc = "handle"
         /\ \/ dep'[w].template.image = image[w]
            \/ /\ dep[w] # NoDeployment
               /\ dep'[w].template.image = dep[w].template.image
  BY <1>0, TemplateStep, WrittenIs DEF Written, AtStep
<1>4. CASE r # NoVdb /\ store'[w].obj.status = st
  <2>1. CASE st.phase = Initial
    BY <1>2, <1>4, <2>1
  <2>2. CASE st.phase # Initial
    <3>1. st.phase \in ImageReady => image'[w] = st.digest
      <4>1. CASE image'[w] = image[w]
        BY <1>1, <1>4, <4>1 DEF Matches
      <4>2. CASE /\ worker.pc = "handle" /\ worker.key = w
                 /\ worker.inst.obj.status.phase \in {BuilderImageFinished, ServiceImage}
                 /\ image'[w] = worker.inst.obj.status.digest
        <5>1. Behind(worker.inst, r)
          BY <1>4, <2>2, <4>2 DEF DeployedInv, CopiesBehind, WorkingOn
        <5>. QED  BY <4>2, <5>1 DEF Behind
      <4>. QED  BY <1>0, <4>1, <4>2, LatestStep
    <3>2. st.phase \in {Deploying, Running} /\ dep'[w] # NoDeployment =>
             dep'[w].template.image = st.digest
      BY <1>1, <1>3, <1>4, ReadyPhases DEF Matches
    <3>. QED  BY <1>4, <3>1, <3>2 DEF Matches
  <2>. QED  BY <2>1, <2>2
<1>5. CASE IsNew(w)
  <2>1. PICK u \in UserSpecs : store'[w].obj = NewVdb(u)
    BY <1>5 DEF IsNew
  <2>2. NewVdb(u).status.phase = Initial
    BY NewVdbFields
  <2>3. store'[w].obj.status.phase = Initial
    BY <2>1, <2>2, Zenon
  <2>. QED  BY <1>2, <2>3, Zenon
<1>6. CASE Redeployed(w)
  <2>1. r.obj \in Vdb
    BY <1>0, <1>6 DEF Redeployed, Rewritten, TypeOK, Stored
  <2>2. store'[w].obj.status.phase = Initial
    BY <1>6, <2>1, RedeployFields DEF Redeployed
  <2>. QED  BY <1>2, <2>2, Zenon
<1>7. CASE WrittenBack(w)
  <2>1. r # NoVdb /\ WillWrite(w) /\ worker.pc = "update"
        /\ store'[w].obj = worker.target
    BY <1>7 DEF WrittenBack, Rewritten, WillWrite, WorkingOn
  <2>2. image'[w] = image[w]
    BY <1>0, <2>1, LatestStep
  <2>. QED  BY <1>1, <1>3, <2>1, <2>2 DEF Matches
<1>. QED
  BY <1>0, <1>4, <1>5, <1>6, <1>7, ObjectStep DEF Respecified, Rewritten

\* and so does what will be written over it
LEMMA TargetMatches ==
    ASSUME DeployedInv, [DNext]_dVars, NEW w \in VDBs, WillWrite(w)'
    PROVE  Matches(image'[w], dep'[w], worker'.target.status)
<1>. DEFINE st == store[w].obj.status
            u == worker'.target.status
            p == st.phase
            q == u.phase
<1>0. RefInv /\ TypeInv /\ [Next]_vars /\ DTypeOK /\ DTypes
  BY StepRefines DEF DeployedInv, DTypes, RefInv
<1>1. store[w] # NoVdb =>
         /\ Matches(image[w], dep[w], st)
         /\ WillWrite(w) => Matches(image[w], dep[w], worker.target.status)
  BY DEF DeployedInv, Matching
<1>2. \/ dep'[w] = NoDeployment
      \/ dep[w] # NoDeployment /\ dep'[w].template = dep[w].template
      \/ /\ worker.key = w /\ worker.pc = "handle"
         /\ \/ /\ worker.inst.obj.status.phase = KeystoreCreated
               /\ dep'[w].template.image = image[w]
            \/ /\ dep[w] # NoDeployment
               /\ dep'[w].template.image = dep[w].template.image
  BY <1>0, TemplateStep, WrittenIs DEF Written, AtStep
<1>3. CASE worker' = worker /\ WillWrite(w)
  <2>1. worker.pc = "update" /\ store[w] # NoVdb
    BY <1>3 DEF WillWrite
  <2>2. image'[w] = image[w]
    BY <1>0, <2>1, LatestStep
  <2>. QED  BY <1>1, <1>2, <1>3, <2>1, <2>2 DEF Matches
<1>4. CASE q = Initial
  BY <1>4, ReadyPhases DEF Matches
<1>5. CASE /\ worker.pc = "handle" /\ worker.key = w /\ worker'.pc = "update"
           /\ store[w] # NoVdb /\ worker.inst = store[w]
           /\ PhaseStep(p, q) /\ Kept(store[w].obj, worker'.target)
  <2>. USE <1>5
  <2>1. p # Initial => u.digest = st.digest
    BY DEF Kept
  <2>2. ASSUME q \in ImageReady
        PROVE  image'[w] = u.digest
    <3>1. p \in ImageReady \/ (p = ServiceImage /\ q = ServiceImageFinished)
      BY <2>2, ReadyPhases
    <3>2. p # Initial
      BY <3>1, ReadyPhases DEF Initial, ServiceImage
    <3>3. CASE p = ServiceImage /\ q = ServiceImageFinished
      <4>1. ServiceImageBuilt
        BY <1>0, <3>3, AtItsPhase, TheHandler
      <4>2. image' = [image EXCEPT ![w] = st.digest]
        BY <3>3, <4>1 DEF ServiceImageBuilt
      <4>. QED  BY <1>0, <2>1, <3>2, <4>2 DEF DTypeOK
    <3>4. CASE p \in ImageReady
      <4>1. p \notin {BuilderImageFinished, ServiceImage}
        BY <3>4, DistinctPhases
      <4>2. image'[w] = image[w]
        BY <1>0, <4>1, LatestStep
      <4>. QED  BY <1>1, <2>1, <3>2, <3>4, <4>2 DEF Matches
    <3>. QED  BY <3>1, <3>3, <3>4
  <2>3. ASSUME q \in {Deploying, Running}, dep'[w] # NoDeployment
        PROVE  dep'[w].template.image = u.digest
    <3>1. \/ p \in {Deploying, Running}
          \/ p = KeystoreCreated /\ q = Deploying
      BY <2>3, ReadyPhases
    <3>2. p \in ImageReady /\ p # Initial
      BY <3>1, ReadyPhases
    <3>3. CASE p \in {Deploying, Running}
      BY <1>1, <1>2, <2>1, <2>3, <3>2, <3>3, ReadyPhases DEF Matches
    <3>4. CASE p = KeystoreCreated /\ q = Deploying
      <4>1. HandleDeploymentObject
        BY <1>0, <3>4, AtItsPhase, TheHandler
      <4>2. dep'[w].template.image = image[w]
        BY <1>0, <3>4, <4>1, DeployedLatest
      <4>. QED  BY <1>1, <2>1, <3>2, <4>2 DEF Matches
    <3>. QED  BY <3>1, <3>3, <3>4
  <2>. QED  BY <2>2, <2>3 DEF Matches
<1>. QED  BY <1>0, <1>3, <1>4, <1>5, TargetStep

LEMMA DeployedInit == DInit => DeployedInv
<1>. SUFFICES ASSUME DInit PROVE DeployedInv
  OBVIOUS
<1>1. Init /\ \A v \in VDBs : store[v] = NoVdb
  BY DEF DInit, Init
<1>2. RefInv /\ Line /\ DTypes
  BY <1>1, RefInit, LineInit, DTypesInit
<1>3. CopiesAged
  BY <1>1 DEF Init, CopiesAged, Youngest, Known, Idle
<1>. QED  BY <1>1, <1>2, <1>3 DEF DeployedInv, CopiesBehind, Matching

LEMMA DeployedStep == DeployedInv /\ [DNext]_dVars => DeployedInv'
<1>. SUFFICES ASSUME DeployedInv, [DNext]_dVars PROVE DeployedInv'
  OBVIOUS
<1>1. RefInv /\ CopiesAged /\ Line /\ CopiesBehind /\ DTypes /\ [Next]_vars
  BY StepRefines DEF DeployedInv, DTypes
<1>2. RefInv' /\ CopiesAged' /\ Line' /\ CopiesBehind' /\ DTypes'
  BY <1>1, RefStep, AgedStep, LineStep, BehindStep, DTypesStep
<1>. QED
  BY <1>2, StoredMatches, TargetMatches DEF DeployedInv, Matching, WillWrite

\* A VirtualDatabase that is Deploying or Running has a Deployment of the image
\* of the source its status names: for any number of resources, edits, stale
\* copies, failed calls, restarts, predecessors and garbage collections.
THEOREM DeploysTheImage == DSpec => []DeploymentOfTheImage
<1>1. DeployedInv => DeploymentOfTheImage
  BY DEF DeployedInv, Matching, Matches, DeploymentOfTheImage
<1>. QED  BY <1>1, DeployedInit, DeployedStep, PTL DEF DSpec

=============================================================================
