----------------------------- MODULE Provisioning ----------------------------
(***************************************************************************)
(* The actions that prepare and expose a VirtualDatabase, composed: its    *)
(* cache store, the builder image it shares with the others, and its       *)
(* services, route, keystore and monitor.  They share the garbage          *)
(* collector, the informer cache and the restarts, and each relies on what *)
(* an earlier one left in the cluster or in the status.  The service image *)
(* and the Deployment are as in Reconciler; the modules ServiceBuild and   *)
(* Deployment have them in full.                                           *)
(***************************************************************************)
EXTENDS BuilderImage, CacheStore, Exposure

provVars == <<builderVars, ownedVars, ispn>>
pVars    == <<vars, provVars>>

PInit ==
    /\ OwnedInit
    /\ CacheStoreInit
    /\ builder = <<>> /\ baseImage = FALSE /\ builderFaults = 0

-----------------------------------------------------------------------------
HandlersLeft == HandleInitialize \/ HandleServiceImage \/ HandleDeployment

PHandle ==
    \/ HandlersLeft /\ UNCHANGED provVars
    \/ RunCacheStore /\ UNCHANGED builderVars
    \/ (BuildBuilderImage \/ MonitorBuilderImage)
          /\ UNCHANGED <<ownedVars, ispn>>
    \/ (CreateService \/ CreateCertificate \/ PrometheusMonitor)
          /\ UNCHANGED <<builderVars, ispn>>

PLoop == OwnedLoop /\ UNCHANGED <<builderVars, ispn>>

PCrash ==
    \/ CrashInCacheStore /\ UNCHANGED builderVars
    \/ CrashInBuilder /\ UNCHANGED <<objs, ownedFaults, ispn>> /\ Relisted
    \/ CrashInCreateService /\ UNCHANGED <<builderVars, ispn>>

\* the cluster around the operator
BuildersMove == \E p \in BuildPhases : BuilderMoves(p)

Cluster ==
    \/ (BuildersMove \/ ImportBaseImage) /\ UNCHANGED <<ownedVars, ispn>>
    \/ InstallInfinispan /\ UNCHANGED builderVars
    \/ \E v \in VDBs :
          /\ \/ \E k \in Lagging : CatchUp(v, k)
             \/ \E k \in Kinds : Collect(v, k)
             \/ IssueCertificate(v)
          /\ UNCHANGED <<builderVars, ispn>>

PNext == PLoop \/ PHandle \/ PCrash \/ Cluster

PSpec == PInit /\ [][PNext]_pVars

(***************************************************************************)
(* Fairness, besides that of Reconciler: builds end, the base image is     *)
(* imported, caches catch up, and the service CA issues certificates.      *)
(* Nothing is assumed of the garbage collector.                            *)
(***************************************************************************)
Same == UNCHANGED provVars

PFairness ==
    /\ \A v \in VDBs :
          /\ WF_pVars(Deliver(v) /\ Same)
          /\ WF_pVars(DelayOver(v) /\ Same)
          /\ SF_pVars(Reconcile(v) /\ Same)
          /\ WF_pVars(/\ \E k \in Lagging : CatchUp(v, k)
                      /\ UNCHANGED <<builderVars, ispn>>)
          /\ WF_pVars(IssueCertificate(v) /\ UNCHANGED <<builderVars, ispn>>)
    /\ WF_pVars(PHandle \/ (HandlerPanics /\ Same))
    /\ WF_pVars((UpdateSucceeds \/ UpdateRejected) /\ Same)
    /\ WF_pVars((BuildersMove \/ ImportBaseImage)
                    /\ UNCHANGED <<ownedVars, ispn>>)

PFairSpec == PSpec /\ PFairness

-----------------------------------------------------------------------------
(* Properties.                                                              *)

\* The composed actions, with everything they leave in the cluster, do what
\* Reconciler lets them do and nothing else.
ProvisioningImplementsReconciler == Spec
=============================================================================
