------------------------------ MODULE Lifecycle ------------------------------
(***************************************************************************)
(* What the operator promises about a VirtualDatabase, with no cache, work *)
(* queue, watch or version conflict in sight: the resource is one atomic   *)
(* object, its user edits the spec, and every write of the operator is     *)
(* either a redeployment of the source that is there NOW or the result of  *)
(* a handler applied to the object that is there NOW.  Reconciler is shown *)
(* to implement this specification.                                        *)
(***************************************************************************)
EXTENDS VirtualDatabase

CONSTANTS VDBs,       \* names of virtual databases
          UserSpecs,  \* the specs users submit
          NoVdb       \* no object of that name

VARIABLE object       \* VDBs -> the resource, or NoVdb

LInit == object = [v \in VDBs |-> NoVdb]

Create(v) ==
    /\ object[v] = NoVdb
    /\ \E s \in UserSpecs : object' = [object EXCEPT ![v] = NewVdb(s)]

\* an edit that does not mention the replicas keeps their number
Edit(v) ==
    /\ object[v] # NoVdb
    /\ \E s \in UserSpecs :
       \E n \in {s.replicas, object[v].spec.replicas} :
          object' = [object EXCEPT ![v].spec = [s EXCEPT !.replicas = n]]

Delete(v) ==
    /\ object[v] # NoVdb
    /\ object' = [object EXCEPT ![v] = NoVdb]

\* a changed source restarts the deployment from its first phase
Redeploy(v) ==
    /\ object[v] # NoVdb
    /\ IsVdbUpdated(object[v])
    /\ object' = [object EXCEPT ![v] = RedeployVdb(object[v])]

\* a handler works on a resource whose digest is that of its source
Advance(v) ==
    /\ object[v] # NoVdb
    /\ ~IsVdbUpdated(object[v])
    /\ \E i \in 1..Len(BuildSteps) :
          /\ CanHandle(BuildSteps[i], object[v].status.phase)
          /\ \E o \in Outcomes(BuildSteps[i], object[v]) :
                object' = [object EXCEPT ![v] = o.target]

LNext == \E v \in VDBs : \/ Create(v) \/ Edit(v) \/ Delete(v)
                         \/ Redeploy(v) \/ Advance(v)

LSpec == LInit /\ [][LNext]_object
=============================================================================
