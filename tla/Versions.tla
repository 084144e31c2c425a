------------------------------ MODULE Versions -------------------------------
(***************************************************************************)
(* The version numbers of deployments.  A history of which source was      *)
(* deployed under which version is kept beside Reconciler; it is read by   *)
(* no action.                                                              *)
(***************************************************************************)
EXTENDS Reconciler

VARIABLE deployed   \* VDBs -> <<version, digest>> of every deployment begun

\* a deployment begins when the write of Initialize takes effect
Record(v) ==
    IF store'[v] = NoVdb THEN {}
    ELSE IF store'[v].obj.status.phase = CreateCacheStore
    THEN deployed[v] \cup {<<store'[v].obj.status.version,
                             store'[v].obj.status.digest>>}
    ELSE deployed[v]

VInit == Init /\ deployed = [v \in VDBs |-> {}]

VNext == Next /\ deployed' = [v \in VDBs |-> Record(v)]

VSpec == VInit /\ [][VNext]_<<vars, deployed>>

\* While a VirtualDatabase lives, no two sources are deployed under the same
\* version: RedeployVdb increments the version of a DDL exactly once for each
\* change, whatever conflicts, lost answers and restarts its write meets.
VersionNamesOneSource ==
    \A v \in VDBs : \A x, y \in deployed[v] : x[1] = y[1] => x[2] = y[2]
=============================================================================
