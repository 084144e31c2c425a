---------------------------- MODULE VersionProofs ----------------------------
(***************************************************************************)
(* Proofs about Versions: while a VirtualDatabase lives, one version       *)
(* number names one source, for every set of VirtualDatabases and any      *)
(* number of edits, conflicts, faults and crashes, provided the version is *)
(* the operator's to choose.                                               *)
(***************************************************************************)
EXTENDS Versions, RefinementProofs

\* What holds of a stored object s and of the deployments D begun under it:
\* none has a later version, and one with its version has its digest.
VersionsOf(s, D) ==
    /\ s = NoVdb => D = {}
    /\ s # NoVdb =>
          /\ Counted(s.obj.spec)
          /\ s.obj.status.version \in Nat
          /\ s.obj.status.phase = CreateCacheStore => s.obj.status.version > 0
          /\ \A x \in D : /\ x[1] \in 1..s.obj.status.version
                          /\ x[1] = s.obj.status.version => x[2] = s.obj.status.digest
          /\ \A x, y \in D : x[1] = y[1] => x[2] = y[2]

VersionInv == RefInv /\ \A v \in VDBs : VersionsOf(store[v], deployed[v])

\* what the history records of an object
Recorded(s, D) ==
    IF s = NoVdb THEN {}
    ELSE IF s.obj.status.phase = CreateCacheStore
    THEN D \cup {<<s.obj.status.version, s.obj.status.digest>>}
    ELSE D

\* recording the deployment of the version and digest there are is harmless
LEMMA RecordedVersions ==
    ASSUME NEW s, NEW D, s = NoVdb \/ VersionsOf(s, D)
    PROVE  VersionsOf(s, Recorded(s, D))
<1>1. CASE s = NoVdb
  BY <1>1 DEF VersionsOf, Recorded
<1>2. CASE s # NoVdb /\ s.obj.status.phase = CreateCacheStore
  <2>. DEFINE n == s.obj.status.version
              d == s.obj.status.digest
              E == D \cup {<<n, d>>}
  <2>1. Recorded(s, D) = E
    BY <1>2 DEF Recorded
  <2>2. /\ Counted(s.obj.spec) /\ n \in Nat /\ n > 0
        /\ \A x \in D : x[1] \in 1..n /\ (x[1] = n => x[2] = d)
        /\ \A x, y \in D : x[1] = y[1] => x[2] = y[2]
    BY <1>2 DEF VersionsOf
  <2>. HIDE DEF n, d
  <2>3. \A x \in E : x[1] \in 1..n /\ (x[1] = n => x[2] = d)
    BY <2>2
  <2>4. ASSUME NEW x \in E, NEW y \in E, x[1] = y[1]
        PROVE  x[2] = y[2]
    <3>1. CASE x \in D /\ y \in D
      BY <2>2, <2>4, <3>1
    <3>2. CASE x = <<n, d>> \/ y = <<n, d>>
      BY <2>3, <2>4, <3>2
    <3>. QED
      BY <3>1, <3>2
  <2>. HIDE DEF E
  <2>. QED
    BY <1>2, <2>1, <2>2, <2>3, <2>4 DEF VersionsOf, n, d
<1>3. CASE s # NoVdb /\ s.obj.status.phase # CreateCacheStore
  BY <1>3 DEF Recorded
<1>. QED
  BY <1>1, <1>2, <1>3

\* a new object s with content x, spec and status of which are as named
LEMMA VersionsKept ==
    ASSUME NEW r, NEW s, NEW D, VersionsOf(r, D), r # NoVdb,
           Counted(s.obj.spec),
           s.obj.status.version = r.obj.status.version,
           s.obj.status.digest = r.obj.status.digest,
           s.obj.status.phase = CreateCacheStore =>
               r.obj.status.phase = CreateCacheStore
    PROVE  VersionsOf(s, D) \/ s = NoVdb
BY DEF VersionsOf

\* the write of a handler's result
LEMMA AdvancedVersions ==
    ASSUME NEW r \in Stored, NEW D, VersionsOf(r, D), ~IsVdbUpdated(r.obj),
           NEW s, Advanced(r.obj, s.obj)
    PROVE  VersionsOf(s, D) \/ s = NoVdb
<1>. DEFINE t == r.obj
            u == s.obj
            n == t.status.version
<1>1. t \in Vdb /\ r # NoVdb
  BY StoredIsResource
<1>2. /\ Counted(t.spec) /\ n \in Nat
      /\ \A x \in D : x[1] \in 1..n /\ (x[1] = n => x[2] = t.status.digest)
      /\ \A x, y \in D : x[1] = y[1] => x[2] = y[2]
  BY <1>1 DEF VersionsOf
<1>3. CASE t.status.phase # Initial
  <2>1. /\ u.spec = t.spec /\ u.status.version = n
        /\ u.status.digest = t.status.digest
        /\ PhaseStep(t.status.phase, u.status.phase)
    BY <1>1, <1>3, AdvancedFacts DEF Kept
  <2>2. u.status.phase # CreateCacheStore
    BY <1>3, <2>1 DEF PhaseStep, Initial, CreateCacheStore, S2IReady, BuilderImage,
       BuilderImageFinished, BuilderImageFailed, ServiceImage, ServiceImageFinished,
       ServiceImageFailed, ServiceCreated, KeystoreCreated, Deploying, Running, Error
  <2>. QED
    BY <1>1, <1>2, <2>1, <2>2, VersionsKept
<1>4. CASE t.status.phase = Initial
  <2>1. Begun(t, u) \/ (Alike(t, u) /\ u.status.phase = Initial)
    BY <1>1, <1>4, AdvancedFacts
  <2>2. CASE Alike(t, u) /\ u.status.phase = Initial
    BY <1>1, <1>2, <1>4, <2>2, VersionsKept DEF Alike
  <2>3. CASE Begun(t, u)
    <3>1. /\ u.status.phase = CreateCacheStore
          /\ u.status.digest = t.status.digest
          /\ u.status.version = DeployedAs(t)
      BY <2>3 DEF Begun, IsVdbUpdated
    <3>2. Counted(u.spec)
      BY <1>2, <2>3 DEF Counted, Begun
    <3>3. u.status.version = IF n = 0 THEN 1 ELSE n
      BY <1>2, <3>1 DEF DeployedAs, Counted, ImplicitVersion, NoVersion
    <3>. HIDE DEF n
    <3>4. CASE n = 0
      <4>1. D = {}
        BY <1>2, <3>4
      <4>. QED
        BY <3>2, <3>3, <3>4, <4>1 DEF VersionsOf
    <3>5. CASE n > 0
      BY <1>2, <3>1, <3>2, <3>3, <3>5 DEF VersionsOf
    <3>. QED
      BY <1>2, <3>4, <3>5
  <2>. QED
    BY <2>1, <2>2, <2>3
<1>. QED
  BY <1>3, <1>4

\* the write of a redeployment: a number that has been used is not used again
LEMMA RedeployedVersions ==
    ASSUME NEW r \in Stored, NEW D, VersionsOf(r, D),
           NEW s, s.obj = RedeployVdb(r.obj)
    PROVE  VersionsOf(s, D) \/ s = NoVdb
<1>. DEFINE t == r.obj
            u == s.obj
            n == t.status.version
<1>1. t \in Vdb /\ r # NoVdb
  BY StoredIsResource
<1>2. /\ Counted(t.spec) /\ n \in Nat
      /\ \A x \in D : x[1] \in 1..n /\ (x[1] = n => x[2] = t.status.digest)
      /\ \A x, y \in D : x[1] = y[1] => x[2] = y[2]
  BY <1>1 DEF VersionsOf
<1>3. /\ u.spec = t.spec /\ u.status.phase = Initial
      /\ u.status.version = IF n > 0 THEN n + 1 ELSE n
  BY <1>1, <1>2, RedeployFields DEF Counted, ImplicitVersion, IsNumeral
<1>4. Initial # CreateCacheStore
  BY DEF Initial, CreateCacheStore
<1>. HIDE DEF n
<1>5. CASE n = 0
  <2>1. D = {}
    BY <1>2, <1>5
  <2>. QED
    BY <1>2, <1>3, <1>4, <1>5, <2>1 DEF VersionsOf
<1>6. CASE n > 0
  BY <1>2, <1>3, <1>4, <1>6 DEF VersionsOf
<1>. QED
  BY <1>2, <1>5, <1>6

\* one step of the loop, seen from one name
LEMMA VersionStep ==
    ASSUME VersionInv, \A s \in UserSpecs : Counted(s), [Next]_vars,
           NEW w \in VDBs
    PROVE  VersionsOf(store'[w], deployed[w]) \/ store'[w] = NoVdb
<1>. USE DEF VersionInv
<1>1. TypeOK /\ WorkerOK
  BY DEF RefInv, TypeInv
<1>2. CASE UNCHANGED store
  BY <1>2
<1>3. ASSUME NEW v \in VDBs, NEW s, Stores(v, s)
      PROVE  VersionsOf(store'[w], deployed[w]) \/ store'[w] = NoVdb
  <2>1. store'[v] = s /\ (w # v => store'[w] = store[w])
    BY <1>1, <1>3 DEF Stores, Write, TypeOK
  <2>2. VersionsOf(s, deployed[v]) \/ s = NoVdb
    <3>1. CASE UserCreated(v, s)
      <4>1. PICK u \in UserSpecs :
               s = [uid |-> rev[v] + 1, rv |-> rev[v] + 1, gen |-> 1,
                    obj |-> NewVdb(u)]
        BY <3>1 DEF UserCreated
      <4>2. s.obj = NewVdb(u)
        BY <4>1
      <4>3. deployed[v] = {}
        BY <3>1 DEF UserCreated, VersionsOf
      <4>4. /\ s.obj.spec = u /\ s.obj.status.version = 0
            /\ s.obj.status.phase = Initial
        BY <4>2, NewVdbFields DEF NoVersion
      <4>5. Counted(s.obj.spec) /\ s.obj.status.phase # CreateCacheStore
        BY <4>4 DEF Initial, CreateCacheStore
      <4>. QED
        BY <4>3, <4>4, <4>5 DEF VersionsOf
    <3>2. CASE UserEdited(v, s)
      <4>. DEFINE x == store[v].obj
      <4>1. store[v] # NoVdb /\ x \in Vdb
        BY <1>1, <3>2 DEF UserEdited, TypeOK, Stored
      <4>2. PICK u \in VdbSpec :
               /\ s = NewVersion(v, [x EXCEPT !.spec = u])
               /\ \E y \in UserSpecs : u = [y EXCEPT !.replicas = u.replicas]
        BY <3>2 DEF UserEdited
      <4>3. s.obj = [x EXCEPT !.spec = u]
        BY <4>2, NewVersionFields
      <4>4. s.obj.spec = u /\ s.obj.status = x.status
        BY <4>1, <4>3 DEF Vdb
      <4>5. Counted(u)
        <5>1. PICK y \in UserSpecs : u = [y EXCEPT !.replicas = u.replicas]
          BY <4>2
        <5>2. y \in VdbSpec /\ Counted(y)
          BY ReconcilerAssumption
        <5>. QED
          BY <5>1, <5>2 DEF Counted, VdbSpec
      <4>. QED
        BY <4>1, <4>4, <4>5, VersionsKept
    <3>3. CASE UserDeleted(v, s)
      BY <3>3 DEF UserDeleted
    <3>4. CASE WorkerUpdated(v, s)
      <4>1. /\ worker.pc = "update" /\ worker.inst = store[v] /\ store[v] # NoVdb
            /\ s.obj = worker.target
        BY <3>4, NewVersionFields DEF WorkerUpdated
      <4>2. store[v] \in Stored
        BY <1>1, <4>1 DEF TypeOK
      <4>3. VersionsOf(store[v], deployed[v])
        OBVIOUS
      <4>. QED
        BY <1>1, <4>1, <4>2, <4>3, AdvancedVersions, RedeployedVersions DEF WorkerOK
    <3>. QED
      BY <1>3, <3>1, <3>2, <3>3, <3>4 DEF Stores
  <2>. QED
    BY <2>1, <2>2
<1>. QED
  BY <1>2, <1>3, StoreStep

\* While a VirtualDatabase lives, no two of its sources are ever deployed
\* under one version number: RedeployVdb counts once for every change of the
\* source that is deployed, whatever stale copies, conflicts, lost answers,
\* crashes and relists its write meets, and Initialize keeps the number. The
\* hypothesis is that the number is the operator's to choose: a user or a
\* Maven coordinate that names a version may name the same one twice.
THEOREM VersionsNameSources ==
    ASSUME \A s \in UserSpecs : Counted(s)
    PROVE  VSpec => []VersionNamesOneSource
<1>1. VInit => VersionInv
  <2>. SUFFICES ASSUME VInit PROVE VersionInv
    OBVIOUS
  <2>1. RefInv
    BY RefInit DEF VInit
  <2>2. \A v \in VDBs : store[v] = NoVdb /\ deployed[v] = {}
    BY DEF VInit, Init
  <2>. QED
    BY <2>1, <2>2 DEF VersionInv, VersionsOf
<1>2. VersionInv /\ [VNext]_<<vars, deployed>> => VersionInv'
  <2>. SUFFICES ASSUME VersionInv, [VNext]_<<vars, deployed>>
                PROVE  VersionInv'
    OBVIOUS
  <2>1. [Next]_vars
    BY DEF VNext
  <2>2. RefInv'
    BY <2>1, RefStep DEF VersionInv
  <2>3. CASE UNCHANGED <<vars, deployed>>
    BY <2>2, <2>3 DEF VersionInv, vars
  <2>4. CASE VNext
    <3>1. \A w \in VDBs : deployed'[w] = Recorded(store'[w], deployed[w])
      BY <2>4 DEF VNext, Record, Recorded
    <3>2. ASSUME NEW w \in VDBs PROVE VersionsOf(store'[w], deployed'[w])
      BY <2>1, <3>1, VersionStep, RecordedVersions
    <3>. QED
      BY <2>2, <3>2 DEF VersionInv
  <2>. QED
    BY <2>3, <2>4
<1>3. VersionInv => VersionNamesOneSource
  <2>. SUFFICES ASSUME VersionInv, NEW v \in VDBs, NEW x \in deployed[v],
                       NEW y \in deployed[v], x[1] = y[1]
                PROVE  x[2] = y[2]
    BY DEF VersionNamesOneSource
  <2>1. VersionsOf(store[v], deployed[v])
    BY DEF VersionInv
  <2>. QED
    BY <2>1 DEF VersionsOf
<1>. QED
  BY <1>1, <1>2, <1>3, PTL DEF VSpec
=============================================================================
