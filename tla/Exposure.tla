------------------------------- MODULE Exposure ------------------------------
(***************************************************************************)
(* The CreateService, CreateCertificate and PrometheusMonitor actions in   *)
(* full: the services, the route and the console link that make a          *)
(* VirtualDatabase reachable, the certificate OpenShift issues because the *)
(* service asks for it, the keystore made of that certificate, and the     *)
(* service monitor.                                                        *)
(***************************************************************************)
EXTENDS OwnedObjects

CONSTANT HasPrometheus   \* does a Prometheus select our service monitors?

\* every OpenShift cluster has routes, and any creation may fail
ASSUME ExposureAssumption ==
    /\ HasPrometheus \in BOOLEAN
    /\ {"route", "expose fails"} \subseteq Conditions

-----------------------------------------------------------------------------
(* CreateService.                                                           *)

\* the external service: whichever of the two types comes first is created
Externals(s) == {i \in DOMAIN s.expose : s.expose[i] \in {"LoadBalancer", "NodePort"}}

\* the last of Route and ExposeVia3scale decides, and no word means a route
WantsRoute(s) ==
    LET words == {i \in DOMAIN s.expose : s.expose[i] \in {"Route", "ExposeVia3scale"}}
    IN  words # {} => s.expose[CHOOSE i \in words : \A j \in words : j <= i] = "Route"

Try(o) == [objs |-> o, failed |-> FALSE, routed |-> FALSE, faults |-> 0]

(***************************************************************************)
(* EnsureObject after a Get: nothing is done if the cache shows the object *)
(* (by now, or still); otherwise it is created, which is refused if it is  *)
(* there after all, unknown to the cache.  Either call may fail, the       *)
(* creation also after it has had its effect.                              *)
(***************************************************************************)
Ensured(v, try, k, obj) ==
    LET there   == try.objs[k] # NoObject
        shown   == IF there \/ Seen(v, k) THEN {try} ELSE {}
        refused == IF there /\ k \in Lagging /\ ~Seen(v, k) THEN {[try EXCEPT !.failed = TRUE]} ELSE {}
        made    == IF there THEN {} ELSE {[try EXCEPT !.objs[k] = obj]}
    IN  shown \cup refused \cup made
        \cup {[u EXCEPT !.failed = TRUE, !.faults = @ + 1] : u \in {try} \cup made}

\* The service asks for a certificate unless the secret n is found: an error
\* while looking for it reads as its absence.
Asking(v) == IF Seen(v, "secret") THEN {[ask |-> 0, faults |-> 0], [ask |-> 1, faults |-> 1]}
             ELSE {[ask |-> 1, faults |-> 0]}

ServiceTries(inst, v) ==
    UNION {Ensured(v, [Try(objs[v]) EXCEPT !.faults = a.faults],
                   "service", Own(inst, a.ask)) : a \in Asking(v)}

ExternalTries(inst, v, try) ==
    IF Externals(inst.obj.spec) = {} THEN {try}
    ELSE LET once == Ensured(v, try, "external", Own(inst, 0))
         IN  IF \A i, j \in Externals(inst.obj.spec) : i = j THEN once
             ELSE UNION {Ensured(v, u, "external", Own(inst, 0)) : u \in once}

\* (mutant) the route is recorded although the wait has ended without it
RouteTriesHoped(inst, v, try) ==
    IF ~WantsRoute(inst.obj.spec) THEN {try}
    ELSE {[try EXCEPT !.routed = TRUE],
          [try EXCEPT !.objs = Created(@, "route", Own(inst, 0)), !.routed = TRUE]}

\* A route is created if the cache shows none, and is then waited for: the
\* cache shows it in time, or the wait of six seconds ends without it.
RouteTries(inst, v, try) ==
    IF ~WantsRoute(inst.obj.spec) THEN {try}
    ELSE LET made == IF Seen(v, "route") THEN try.objs
                     ELSE Created(try.objs, "route", Own(inst, 0))
             Found(o) == o["route"] # NoObject \/ Seen(v, "route")
         IN  (IF Found(made) THEN {[try EXCEPT !.objs = made, !.routed = TRUE]} ELSE {})
             \cup {[try EXCEPT !.objs = o, !.failed = TRUE, !.faults = @ + 1] :
                       o \in {try.objs, made}}

\* (mutant) a failed creation is not reported
ExposeTriesSilent(inst, v) ==
    {[u EXCEPT !.failed = FALSE] : u \in ServiceTries(inst, v)}

\* everything hangs on the service: nothing more is done if it cannot be had
ExposeTries(inst, v) ==
    LET first    == ServiceTries(inst, v)
        external == UNION {ExternalTries(inst, v, u) : u \in {w \in first : ~w.failed}}
    IN  {u \in first : u.failed}
        \cup UNION {RouteTries(inst, v, u) : u \in external}

\* nothing is done if the service is there, unless looking for it failed
CreateServiceTries(inst, v) ==
    IF Seen(v, "service")
    THEN {Try(objs[v])} \cup {[u EXCEPT !.faults = @ + 1] : u \in ExposeTries(inst, v)}
    ELSE ExposeTries(inst, v)

\* (mutant) the phase Error stays
ToldError(t, try) ==
    [t EXCEPT !.status.failure = IF try.failed THEN "expose" ELSE @,
              !.status.route   = @ \/ try.routed,
              !.status.phase   = IF try.failed THEN Error ELSE ServiceCreated]

\* failure and route are recorded; the phase Error is overwritten
Told(t, try) ==
    [t EXCEPT !.status.failure = IF try.failed THEN "expose" ELSE @,
              !.status.route   = @ \/ try.routed,
              !.status.phase   = ServiceCreated]

\* what the wait for the route has shown to the cache
RouteSeen(v, try) ==
    seen' = IF /\ try.routed /\ "route" \in Lagging
               /\ try.objs["route"] # NoObject
            THEN [seen EXCEPT ![v]["route"] = try.objs["route"]] ELSE seen

CreateService ==
    LET t == worker.inst.obj
        v == worker.key
    IN  /\ AtStep("CreateService")
        /\ \E try \in CreateServiceTries(worker.inst, v) :
              /\ Left(v, try.objs)
              /\ RouteSeen(v, try)
              /\ Faulty(try.faults)
              /\ Handled(Return(Told(t, try)))
              /\ \/ UNCHANGED consoleLinks
                 \/ try.routed /\ Linked(v)

\* the objects of CreateService, in the order it creates them
CreationOrder(s) ==
    <<"service">> \o (IF Externals(s) = {} THEN <<>> ELSE <<"external">>)
                  \o (IF WantsRoute(s) THEN <<"route">> ELSE <<>>)

\* the operator crashes between two of the creations, or while it waits
CrashInCreateService ==
    LET v == worker.key
        inst == worker.inst
        order == CreationOrder(inst.obj.spec)
    IN  /\ AtStep("CreateService")
        /\ ~Seen(v, "service")
        /\ \E n \in 1..Len(order), a \in {b \in Asking(v) : b.faults = 0} :
              Left(v, [k \in Kinds |->
                          IF /\ \E i \in 1..n : order[i] = k
                             /\ objs[v][k] = NoObject
                          THEN Own(inst, IF k = "service" THEN a.ask ELSE 0)
                          ELSE objs[v][k]])
        /\ Crash
        /\ Relisted
        /\ UNCHANGED ownedFaults

-----------------------------------------------------------------------------
(* CreateCertificate.                                                       *)

\* OpenShift's service CA issues a certificate for a service that asks
IssueCertificate(v) ==
    /\ objs[v]["service"] # NoObject
    /\ objs[v]["service"].value = 1
    /\ objs[v]["certificates"] = NoObject
    /\ objs' = [objs EXCEPT ![v]["certificates"] =
                    [owner |-> objs[v]["service"].owner, value |-> 0]]
    /\ UNCHANGED <<vars, seen, ownedFaults>>

\* (mutant) the certificates are looked for under the name of the user's secret
CertificatesSeenMisnamed(v) == Seen(v, "secret")

CertificatesSeen(v) == Seen(v, "certificates")

\* (mutant) an error on the way to the keystore is logged and dropped
SecuredAnyway(t, o, made) == Return(InPhase(t, KeystoreCreated))

\* the handler is done if it has made the keystore, and fails otherwise
Secured(t, o, made) ==
    IF made = o THEN Fail(t) ELSE Return(InPhase(t, KeystoreCreated))

CreateCertificate ==
    LET t == worker.inst.obj
        v == worker.key
        made == IF CertificatesSeen(v)
                THEN Created(objs[v], "keystore", Own(worker.inst, 0)) ELSE objs[v]
        done == Return(InPhase(t, KeystoreCreated))
    IN  /\ AtStep("CreateCertificate")
        /\ \/ Seen(v, "keystore") /\ Left(v, objs[v]) /\ Faulty(0) /\ Handled(done)
           \/ /\ Faulty(IF Seen(v, "keystore") THEN 1 ELSE 0)
              /\ Left(v, made)
              /\ Handled(Secured(t, objs[v], made))
           \/ /\ \E o \in {objs[v], made} : Left(v, o)
              /\ Faulty(1) /\ Handled(Fail(t))
        /\ UNCHANGED <<seen, consoleLinks>>

-----------------------------------------------------------------------------
(* PrometheusMonitor, which runs again with every reconciliation.           *)

\* (mutant) no service monitor is ever missing
MonitorMissingNever(o) == FALSE

MonitorMissing(o) == HasPrometheus /\ o["monitor"] = NoObject

PrometheusMonitor ==
    LET t == worker.inst.obj
        v == worker.key
        made == IF MonitorMissing(objs[v])
                THEN Created(objs[v], "monitor", Own(worker.inst, 0)) ELSE objs[v]
    IN  /\ AtStep("PrometheusMonitor")
        /\ \/ Left(v, made) /\ Faulty(0) /\ Handled(Return(t))
           \/ /\ \E o \in {objs[v], made} : Left(v, o)
              /\ Faulty(1)
              /\ \E r \in {Return(t), Fail(t)} : Handled(r)
        /\ UNCHANGED <<seen, consoleLinks>>

-----------------------------------------------------------------------------
(* Properties.                                                              *)

PastService == {ServiceCreated, KeystoreCreated, Deploying, Running}

FirstOfItsName(v) == store[v] # NoVdb /\ store[v].uid = 1

\* A VirtualDatabase past "Service Created" has its service, or its status
\* says that it could not be exposed: the handler overwrites the phase Error,
\* so the failure is all that is left, and it must survive retries, restarts
\* and the writes that are refused.  The exception is a recreated one, which
\* may have found the service of its predecessor.
ServiceOrFailure ==
    \A v \in VDBs :
        /\ FirstOfItsName(v)
        /\ store[v].obj.status.phase \in PastService
        /\ store[v].obj.status.failure = ""
        => objs[v]["service"] # NoObject

\* A route named in the status exists, except that of a recreated
\* VirtualDatabase, which may have found the route of its predecessor.
RecordedRouteExists ==
    \A v \in VDBs :
        FirstOfItsName(v) /\ store[v].obj.status.route =>
            objs[v]["route"] # NoObject

\* The keystore that the pods of a Deployment mount exists from the phase
\* "Keystore Created" on, whatever fails on the way to it and however stale the
\* copy and the cache are that the handlers work on: pods do not start without
\* it, and no later phase comes back to make it.  The exception is a recreated
\* VirtualDatabase, which may have found the keystore of its predecessor.
MountedKeystoreExists ==
    \A v \in VDBs :
        /\ FirstOfItsName(v)
        /\ store[v].obj.status.phase \in {KeystoreCreated, Deploying, Running}
        => objs[v]["keystore"] # NoObject

\* A VirtualDatabase does not wait for its certificate for ever: errors are
\* dropped and retried until the certificate is there.  It does if there is
\* no service to issue one for, or one that does not ask for it.
CertificateWaitEnds ==
    \A v \in VDBs :
        (store[v] # NoVdb /\ store[v].obj.status.phase = ServiceCreated) ~>
        \/ store[v] = NoVdb
        \/ store[v].obj.status.phase # ServiceCreated
        \/ objs[v]["service"] = NoObject
        \/ objs[v]["service"].value = 0

\* A VirtualDatabase that keeps running comes to have a service monitor and
\* keeps it, even if it first found that of its predecessor, which the
\* garbage collector then removed.
MonitorStays ==
    HasPrometheus =>
        \A v \in VDBs :
            <>[](store[v] # NoVdb /\ store[v].obj.status.phase = Running =>
                     objs[v]["monitor"] # NoObject)
=============================================================================
