------------------------------ MODULE Reconciler -----------------------------
(***************************************************************************)
(* The operator's control loop over the VirtualDatabase resources of its   *)
(* namespace: the API server that stores them, the watch and the informer  *)
(* cache the operator reads them from, the work queue, and the one worker  *)
(* that runs Reconcile.                                                    *)
(*                                                                         *)
(* The loop works on a copy that may be stale, several of its steps later  *)
(* it writes the whole object back, and it relies on the event of its own  *)
(* write to be called again.                                               *)
(***************************************************************************)
EXTENDS VirtualDatabase

CONSTANTS
    VDBs,         \* names of virtual databases
    UserSpecs,    \* the specs users submit
    NoVdb,        \* no object of that name
    MaxEdits,     \* bound: writes by users (create, edit, delete)
    MaxReplaces,  \* bound: edits that may drop Spec.Replicas
    MaxFaults,    \* bound: failed or timed-out calls of the API server
    MaxCrashes,   \* bound: restarts of the operator's pod
    MaxRelists    \* bound: watches that broke and were replaced by a list

ASSUME ReconcilerAssumption ==
    /\ UserSpecs \subseteq VdbSpec
    /\ NoVdb \notin [uid : Nat, rv : Nat, gen : Nat, obj : Vdb]
    /\ NoVdb \notin Vdb
    /\ {MaxEdits, MaxReplaces, MaxFaults, MaxCrashes, MaxRelists} \subseteq Nat

VARIABLES
    store,        \* the API server: VDBs -> the object and its versions
    rev,          \* VDBs -> the last resourceVersion given out for that name
    watch,        \* VDBs -> versions written and not yet seen by the operator
    cache,        \* the operator's informer cache: VDBs -> a version
    queue,        \* the work queue: names to reconcile
    delayed,      \* names whose AddAfter or AddRateLimited has yet to expire
    worker,       \* the worker: idle, or where in Reconcile it is
    consoleLinks, \* names for which a ConsoleLink exists in the cluster
    spent         \* how much of each bound has been used

kubeVars == <<store, rev, watch>>
loopVars == <<cache, queue, delayed, worker>>
vars     == <<store, rev, watch, cache, queue, delayed, worker, consoleLinks, spent>>

\* A stored version: metadata.uid, .resourceVersion, .generation, and content.
Stored == [uid : Nat, rv : Nat, gen : Nat, obj : Vdb]

Idle == [pc |-> "idle"]

\* handle: about to call step's Handle on inst; update: about to write target
Busy == [pc : {"handle", "update"}, key : VDBs, inst : Stored, target : Vdb,
         step : 1..Len(BuildSteps), err : BOOLEAN]

Limits == [edits |-> MaxEdits, replaces |-> MaxReplaces, faults |-> MaxFaults,
           crashes |-> MaxCrashes, relists |-> MaxRelists]

Spend(what) == /\ spent[what] < Limits[what]
               /\ spent' = [spent EXCEPT ![what] = @ + 1]

Init ==
    /\ store = [v \in VDBs |-> NoVdb]
    /\ rev = [v \in VDBs |-> 0]
    /\ watch = [v \in VDBs |-> <<>>]
    /\ cache = [v \in VDBs |-> NoVdb]
    /\ queue = {}
    /\ delayed = {}
    /\ worker = Idle
    /\ consoleLinks = {}
    /\ spent = [b \in DOMAIN Limits |-> 0]

-----------------------------------------------------------------------------
(* The API server and the users.                                            *)

\* A write of name v: a new resourceVersion, and an event for the watchers.
Write(v, s) ==
    /\ store' = [store EXCEPT ![v] = s]
    /\ rev' = [rev EXCEPT ![v] = @ + 1]
    /\ watch' = [watch EXCEPT ![v] = Append(@, s)]

\* The CRD has no status subresource: any change of spec or status is a new
\* generation.
NewVersion(v, obj) ==
    [uid |-> store[v].uid, rv |-> rev[v] + 1, gen |-> store[v].gen + 1, obj |-> obj]

UserCreate(v, s) ==
    /\ store[v] = NoVdb
    /\ Spend("edits")
    /\ Write(v, [uid |-> rev[v] + 1, rv |-> rev[v] + 1, gen |-> 1,
                 obj |-> NewVdb(s)])
    /\ UNCHANGED <<loopVars, consoleLinks>>

UserEditTo(v, s) ==
    /\ store[v] # NoVdb
    /\ s # store[v].obj.spec
    /\ Write(v, NewVersion(v, [store[v].obj EXCEPT !.spec = s]))
    /\ UNCHANGED <<loopVars, consoleLinks>>

\* a patch leaves the replicas alone
UserEdit(v, s) ==
    /\ Spend("edits")
    /\ store[v] # NoVdb
    /\ UserEditTo(v, [s EXCEPT !.replicas = store[v].obj.spec.replicas])

\* a replace submits the whole spec, with or without the replicas
UserReplace(v, s) ==
    /\ Spend("replaces")
    /\ UserEditTo(v, s)

UserDelete(v) ==
    /\ store[v] # NoVdb
    /\ Spend("edits")
    /\ Write(v, NoVdb)
    /\ UNCHANGED <<loopVars, consoleLinks>>

-----------------------------------------------------------------------------
(* The watch of VirtualDatabases and its event filter.                      *)

\* (mutant) a filter that looks at the phase alone
EnqueuesOnPhase(a, b) ==
    \/ a = NoVdb \/ b = NoVdb
    \/ a.obj.status.phase # b.obj.status.phase

\* does the event that takes the cache from version a to version b enqueue?
Enqueues(a, b) ==
    \/ a = NoVdb /\ b # NoVdb
    \/ a # NoVdb /\ b = NoVdb
    \/ /\ a # NoVdb /\ b # NoVdb
       /\ \/ a.gen # b.gen
          \/ a.obj.status.phase # b.obj.status.phase

See(v, s) ==
    /\ cache' = [cache EXCEPT ![v] = s]
    /\ queue' = IF Enqueues(cache[v], s) THEN queue \cup {v} ELSE queue
    /\ UNCHANGED <<store, rev, delayed, worker, consoleLinks>>

\* the next event of the watch
Deliver(v) ==
    /\ watch[v] # <<>>
    /\ See(v, Head(watch[v]))
    /\ watch' = [watch EXCEPT ![v] = Tail(@)]
    /\ UNCHANGED spent

\* the watch broke: the reflector lists, and sees only the latest version
Relist(v) ==
    /\ Len(watch[v]) > 1
    /\ Spend("relists")
    /\ See(v, store[v])
    /\ watch' = [watch EXCEPT ![v] = <<>>]

\* an event of an object the VirtualDatabase owns (a build, a deployment...)
OwnedEvent(v) ==
    /\ cache[v] # NoVdb
    /\ v \notin queue
    /\ queue' = queue \cup {v}
    /\ UNCHANGED <<kubeVars, cache, delayed, worker, consoleLinks, spent>>

\* the delay of a RequeueAfter, or of a rate-limited retry, is over
DelayOver(v) ==
    /\ v \in delayed
    /\ delayed' = delayed \ {v}
    /\ queue' = queue \cup {v}
    /\ UNCHANGED <<kubeVars, cache, worker, consoleLinks, spent>>

-----------------------------------------------------------------------------
(* Reconcile.                                                               *)

StepsFrom(i, phase) ==
    {j \in 1..Len(BuildSteps) : j >= i /\ CanHandle(BuildSteps[j], phase)}

First(S) == CHOOSE i \in S : \A j \in S : i <= j

Take(v) == /\ worker = Idle
           /\ v \in queue
           /\ queue' = queue \ {v}
           /\ UNCHANGED <<kubeVars, cache>>

\* (mutant) the link is looked for under another name than it was given
UnlinkedOther(v) == consoleLinks' = consoleLinks \ (VDBs \ {v})

Unlinked(v) == consoleLinks' = consoleLinks \ {v}

\* the resource is gone: remove its console link, which may fail
ReconcileDeleted(v) ==
    /\ Take(v)
    /\ cache[v] = NoVdb
    /\ \/ Unlinked(v) /\ UNCHANGED spent
       \/ v \in consoleLinks /\ Spend("faults") /\ UNCHANGED consoleLinks
    /\ UNCHANGED <<delayed, worker>>

\* reading the resource fails
ReconcileReadFails(v) ==
    /\ Take(v)
    /\ Spend("faults")
    /\ delayed' = delayed \cup {v}
    /\ UNCHANGED <<worker, consoleLinks>>

\* the source has changed: redo everything
ReconcileUpdated(v) ==
    /\ Take(v)
    /\ cache[v] # NoVdb
    /\ IsVdbUpdated(cache[v].obj)
    /\ worker' = [pc |-> "update", key |-> v, inst |-> cache[v],
                  target |-> RedeployVdb(cache[v].obj), step |-> 1, err |-> FALSE]
    /\ UNCHANGED <<delayed, consoleLinks, spent>>

\* (mutant) an action runs although the source has changed
ReconcileActionsAnyway(v) ==
    /\ Take(v)
    /\ cache[v] # NoVdb
    /\ LET S == StepsFrom(1, cache[v].obj.status.phase)
       IN  /\ S # {}
           /\ worker' = [pc |-> "handle", key |-> v, inst |-> cache[v],
                         target |-> cache[v].obj, step |-> First(S), err |-> FALSE]
    /\ UNCHANGED <<delayed, consoleLinks, spent>>

\* run through the actions: the first that can handle the phase, or none
ReconcileActions(v) ==
    /\ Take(v)
    /\ cache[v] # NoVdb
    /\ ~IsVdbUpdated(cache[v].obj)
    /\ LET S == StepsFrom(1, cache[v].obj.status.phase)
       IN  IF S = {}
           THEN /\ delayed' = delayed \cup {v}
                /\ UNCHANGED worker
           ELSE /\ worker' = [pc |-> "handle", key |-> v, inst |-> cache[v],
                              target |-> cache[v].obj, step |-> First(S),
                              err |-> FALSE]
                /\ UNCHANGED delayed
    /\ UNCHANGED <<consoleLinks, spent>>

\* (mutant) the loop over the actions runs past the last one
HandledPastEnd(o) ==
    LET S == StepsFrom(worker.step + 1, worker.inst.obj.status.phase)
    IN  /\ worker' = IF o.target # worker.inst.obj
                     THEN [worker EXCEPT !.pc = "update", !.target = o.target,
                                         !.err = o.err]
                     ELSE [worker EXCEPT !.step = IF S = {} THEN Len(BuildSteps) + 1
                                                  ELSE First(S)]
        /\ UNCHANGED <<kubeVars, cache, queue, delayed, spent>>

\* Handle has returned o: the object is written if it changed; otherwise the
\* error, if any, is dropped and the next action that can handle it runs
Handled(o) ==
    LET S == StepsFrom(worker.step + 1, worker.inst.obj.status.phase)
    IN  /\ IF o.target # worker.inst.obj
           THEN /\ worker' = [worker EXCEPT !.pc = "update",
                                            !.target = o.target, !.err = o.err]
                /\ UNCHANGED delayed
           ELSE IF S # {}
           THEN /\ worker' = [worker EXCEPT !.step = First(S)]
                /\ UNCHANGED delayed
           ELSE /\ worker' = Idle
                /\ delayed' = delayed \cup {worker.key}
        /\ UNCHANGED <<kubeVars, cache, queue, spent>>

AtStep(a) == worker.pc = "handle" /\ BuildSteps[worker.step] = a

HandleInitialize ==
    /\ AtStep("Initialize")
    /\ \E o \in InitializeOutcomes(worker.inst.obj) : Handled(o)
    /\ UNCHANGED consoleLinks

HandleCacheStore ==
    /\ AtStep("CacheStore")
    /\ \E o \in CacheStoreOutcomes(worker.inst.obj) : Handled(o)
    /\ UNCHANGED consoleLinks

HandleS2IBuilderImage ==
    /\ AtStep("S2IBuilderImage")
    /\ \E o \in S2IBuilderImageOutcomes(worker.inst.obj) : Handled(o)
    /\ UNCHANGED consoleLinks

HandleServiceImage ==
    /\ AtStep("ServiceImage")
    /\ \E o \in ServiceImageOutcomes(worker.inst.obj) : Handled(o)
    /\ UNCHANGED consoleLinks

Linked(v) == consoleLinks' = consoleLinks \cup {v}

\* a route that was created gets a console link, where the console has links
HandleCreateService ==
    /\ AtStep("CreateService")
    /\ \E o \in CreateServiceOutcomes(worker.inst.obj) :
          /\ Handled(o)
          /\ \/ UNCHANGED consoleLinks
             \/ o.target.status.route /\ Linked(worker.key)

HandleCreateCertificate ==
    /\ AtStep("CreateCertificate")
    /\ \E o \in CreateCertificateOutcomes(worker.inst.obj) : Handled(o)
    /\ UNCHANGED consoleLinks

HandleDeployment ==
    /\ AtStep("Deployment")
    /\ \E o \in DeploymentOutcomes(worker.inst.obj) : Handled(o)
    /\ UNCHANGED consoleLinks

HandlePrometheusMonitor ==
    /\ AtStep("PrometheusMonitor")
    /\ \E o \in PrometheusMonitorOutcomes(worker.inst.obj) : Handled(o)
    /\ UNCHANGED consoleLinks

Handle ==
    \/ HandleInitialize \/ HandleCacheStore \/ HandleS2IBuilderImage
    \/ HandleServiceImage \/ HandleCreateService \/ HandleCreateCertificate
    \/ HandleDeployment \/ HandlePrometheusMonitor

\* does the API server accept the worker's write of its copy?
NoConflict == /\ store[worker.key] # NoVdb
              /\ store[worker.key].rv = worker.inst.rv

\* Reconcile returns: an error is retried, success waits for the write's event
UpdateSucceeds ==
    /\ worker.pc = "update"
    /\ NoConflict
    /\ Write(worker.key, NewVersion(worker.key, worker.target))
    /\ delayed' = IF worker.err THEN delayed \cup {worker.key} ELSE delayed
    /\ worker' = Idle
    /\ UNCHANGED <<cache, queue, consoleLinks, spent>>

UpdateRejected ==
    /\ worker.pc = "update"
    /\ \/ ~NoConflict /\ UNCHANGED spent
       \/ Spend("faults")
    /\ delayed' = delayed \cup {worker.key}
    /\ worker' = Idle
    /\ UNCHANGED <<kubeVars, cache, queue, consoleLinks>>

\* the write takes effect and its answer is lost
UpdateTimesOut ==
    /\ worker.pc = "update"
    /\ NoConflict
    /\ Spend("faults")
    /\ Write(worker.key, NewVersion(worker.key, worker.target))
    /\ delayed' = delayed \cup {worker.key}
    /\ worker' = Idle
    /\ UNCHANGED <<cache, queue, consoleLinks>>

Reconcile(v) == \/ ReconcileDeleted(v) \/ ReconcileUpdated(v)
                \/ ReconcileActions(v)

Update == UpdateSucceeds \/ UpdateRejected \/ UpdateTimesOut

-----------------------------------------------------------------------------
(* Restart: the informers list every object before the worker starts.       *)

Restart ==
    /\ cache' = store
    /\ watch' = [v \in VDBs |-> <<>>]
    /\ queue' = {v \in VDBs : store[v] # NoVdb}
    /\ delayed' = {}
    /\ worker' = Idle
    /\ UNCHANGED <<store, rev, consoleLinks>>

Crash == Spend("crashes") /\ Restart

\* a handler dereferences a nil pointer and takes the process with it
HandlerPanics ==
    /\ AtStep("Deployment")
    /\ DeploymentPanics(worker.inst.obj)
    /\ Restart
    /\ UNCHANGED spent

-----------------------------------------------------------------------------
User(v) == \/ \E s \in UserSpecs : \/ UserCreate(v, s) \/ UserEdit(v, s)
                                   \/ UserReplace(v, s)
           \/ UserDelete(v)

\* every step but a handler's
Loop ==
    \/ \E v \in VDBs : \/ User(v)
                       \/ Deliver(v) \/ Relist(v) \/ OwnedEvent(v)
                       \/ DelayOver(v)
                       \/ Reconcile(v) \/ ReconcileReadFails(v)
    \/ Update
    \/ Crash
    \/ HandlerPanics

Next == Loop \/ Handle

Spec == Init /\ [][Next]_vars

(***************************************************************************)
(* Fairness: the watch delivers, timers expire, and the worker's goroutine *)
(* runs.  The work queue is first in, first out, so a name that stays in   *)
(* it is taken: strong fairness, because the worker is not always idle.    *)
(* Nothing is assumed of users, of faults or of the objects a VDB owns.    *)
(***************************************************************************)
Fairness ==
    /\ \A v \in VDBs : /\ WF_vars(Deliver(v))
                       /\ WF_vars(DelayOver(v))
                       /\ SF_vars(Reconcile(v))
    /\ WF_vars(Handle \/ HandlerPanics)
    /\ WF_vars(UpdateSucceeds \/ UpdateRejected)

FairSpec == Spec /\ Fairness

-----------------------------------------------------------------------------
(* Properties.                                                              *)

\* The store, the caches and the worker hold what Go's types let them hold.
TypeOK ==
    /\ store \in [VDBs -> Stored \cup {NoVdb}]
    /\ rev \in [VDBs -> Nat]
    /\ watch \in [VDBs -> Seq(Stored \cup {NoVdb})]
    /\ cache \in [VDBs -> Stored \cup {NoVdb}]
    /\ queue \subseteq VDBs
    /\ delayed \subseteq VDBs
    /\ worker \in Busy \cup {Idle}
    /\ consoleLinks \subseteq VDBs
    /\ spent \in [DOMAIN Limits -> Nat]

WorkingOn(v) == worker.pc # "idle" /\ worker.key = v

\* the i-th undelivered event of v enqueues it
WillEnqueue(v, i) ==
    Enqueues(IF i = 1 THEN cache[v] ELSE watch[v][i - 1], watch[v][i])

\* No wakeup is lost: a VirtualDatabase that exists is queued, is waiting for
\* a timer, is being reconciled, or has an event under way that will queue it.
\* Reconcile returns without asking for a requeue after every successful write
\* ("this will auto-queue since the update is successful"), so this rests on
\* the event of that write passing the filter in watch.go.
NoLostWakeup ==
    \A v \in VDBs : store[v] # NoVdb =>
        \/ v \in queue \cup delayed
        \/ WorkingOn(v)
        \/ \E i \in 1..Len(watch[v]) : WillEnqueue(v, i)

\* the operator has nothing more to do or to learn about v
Settled(v) == watch[v] = <<>> /\ v \notin queue \cup delayed /\ ~WorkingOn(v)

\* Unless the operator restarted or a call failed (a handler panics only on a
\* spec that a replace left without replicas), a deleted VirtualDatabase
\* leaves no console link behind, even when it was deleted while its link was
\* being created: ConsoleLinks are cluster-scoped and have no owner, so only
\* the Reconcile of the missing resource removes them.
ConsoleLinkRemoved ==
    spent.crashes = 0 /\ spent.faults = 0 /\ spent.replaces = 0 =>
        \A v \in VDBs : store[v] = NoVdb /\ Settled(v) => v \notin consoleLinks

\* A VirtualDatabase that was created without a number of replicas has one in
\* every copy the Deployment action ever gets to see in phase Running, so the
\* dereference in ensureReplicas does not take the operator down: only the
\* write of Initialize supplies it, from a copy that may be stale, and edits,
\* redeployments, failed or repeated writes and relists must not lose it again.
\* A replace that drops it from a running resource is the exception, after
\* which the operator panics for ever.
OperatorStaysUp == [][spent.replaces = 0 => ~HandlerPanics]_vars

\* Every write the worker makes, from a copy read some steps earlier, is the
\* redeployment or the handling of the resource as it is when the write takes
\* effect: the loop implements the atomic life cycle, and an edit that lands
\* in between is never overwritten or skipped over.
Abs == INSTANCE Lifecycle WITH
           object <- [v \in VDBs |-> IF store[v] = NoVdb THEN NoVdb
                                     ELSE store[v].obj]
ImplementsLifecycle == Abs!LSpec

\* Once users stop editing, the digest in the status of every VirtualDatabase
\* becomes and stays that of its source: the last edit is always noticed.
DigestConverges ==
    \A v \in VDBs :
        <>[](store[v] # NoVdb => ~IsVdbUpdated(store[v].obj))

=============================================================================
