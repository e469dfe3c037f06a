------------------------------ MODULE Accounts -------------------------------
(***************************************************************************)
(* The committed account state every gateway process shares through MySQL: *)
(* device rows, device credentials, trials and paid slots, and the         *)
(* transactions that change them (internal/mysqlstore entitlement_store.go *)
(* and dashboard_store.go).                                                *)
(*                                                                         *)
(* Each transaction locks the rows it decides on and commits or rolls back *)
(* as a unit, so it is one action; a transaction that fails changes        *)
(* nothing.  The trial window is kept as where it stands against the       *)
(* clock.  A user has at most one license, and its occupied slots are the  *)
(* set of devices that hold one: no code that runs changes the status of a *)
(* license or the ordinal of a slot, or gives a credential an expiry.      *)
(***************************************************************************)
EXTENDS Ids

CONSTANTS Users,         \* accounts
          Creds,         \* device credentials, by their digest
          Fingerprints,  \* hashes of the computers that run a Bridge
          Licensed       \* users who hold an active license

ASSUME AccountsAssumption ==
    /\ None \notin Users \cup Creds \cup Fingerprints
    /\ Licensed \subseteq Users

VARIABLES
    device,  \* rows of devices, None when there is no row
    cred,    \* rows of device_credentials, None when there is no row
    trial,   \* rows of trial_entitlements
    bound    \* devices with an active license_device_bindings row

accountVars == <<device, cred, trial, bound>>

DeviceRows ==
    [owner : Users, status : {"active", "revoked"}, fp : Fingerprints \cup {None}]
CredRows == [user : Users, device : Devices, revoked : BOOLEAN]

\* The absence of a row is not a row.
ASSUME RowAssumption == None \notin DeviceRows \cup CredRows

AccountsTypeOK ==
    /\ device \in [Devices -> DeviceRows \cup {None}]
    /\ cred \in [Creds -> CredRows \cup {None}]
    /\ trial \in [Users -> {"none", "active", "expired"}]
    /\ bound \subseteq Devices

\* A gateway with no accounts yet.
AccountsInit ==
    /\ device = [d \in Devices |-> None]
    /\ cred = [k \in Creds |-> None]
    /\ trial = [u \in Users |-> "none"]
    /\ bound = {}

Live(k) == cred[k] # None /\ ~cred[k].revoked
Owns(u, d) == device[d] # None /\ device[d].owner = u
OwnsActive(u, d) == Owns(u, d) /\ device[d].status = "active"

-----------------------------------------------------------------------------
(* Credentials *)

\* UPDATE device_credentials SET revoked_at ... WHERE revoked_at IS NULL, over
\* the credentials of u for a device of ds.
Revoking(u, ds) ==
    [k \in Creds |-> IF Live(k) /\ cred[k].user = u /\ cred[k].device \in ds
                     THEN [cred[k] EXCEPT !.revoked = TRUE]
                     ELSE cred[k]]

\* INSERT INTO device_credentials of a digest that was never seen before.
Inserting(rows, k, u, d) ==
    [rows EXCEPT ![k] = [user |-> u, device |-> d, revoked |-> FALSE]]

-----------------------------------------------------------------------------
(* Pairing: EntitlementStore.BindFirstDevice *)

\* With a trial the device must be registered to u and active; without one it
\* must be u's or unknown.
MayBind(u, d) ==
    IF trial[u] # "none" THEN OwnsActive(u, d)
                         ELSE device[d] = None \/ Owns(u, d)

\* ErrDeviceAlreadyUsed: another account's device has the fingerprint, or the
\* row is written and the unique key finds it on another device of u.
AlreadyUsed(u, d, f) ==
    \E e \in Devices : /\ device[e] # None
                       /\ device[e].fp = f
                       /\ device[e].owner # u \/ (MayBind(u, d) /\ e # d)

\* Mutant: a re-claim leaves the credentials it replaces alive.
Reclaim_KeepsOld(u, d, f, k) ==
    /\ trial[u] # "none"
    /\ OwnsActive(u, d)
    /\ device' = [device EXCEPT ![d].fp = f]
    /\ cred' = Inserting(cred, k, u, d)
    /\ UNCHANGED <<trial, bound>>

\* The user already holds a trial: the device's old credentials are revoked, the
\* new one is inserted, and the trial window stays as it is.
Reclaim(u, d, f, k) ==
    /\ trial[u] # "none"
    /\ OwnsActive(u, d)
    /\ device' = [device EXCEPT ![d].fp = f]
    /\ cred' = Inserting(Revoking(u, {d}), k, u, d)
    /\ UNCHANGED <<trial, bound>>

\* The first pairing starts the trial.  It revokes nothing and does not look at
\* the status of a row that is already there.
StartTrial(u, d, f, k) ==
    /\ trial[u] = "none"
    /\ device[d] = None \/ Owns(u, d)
    /\ device' = [device EXCEPT ![d] =
                    IF @ = None
                    THEN [owner |-> u, status |-> "active", fp |-> f]
                    ELSE [@ EXCEPT !.fp = f]]
    /\ cred' = Inserting(cred, k, u, d)
    /\ trial' = [trial EXCEPT ![u] = "active"]
    /\ UNCHANGED bound

BindFirstDevice(u, d, f, k) ==
    /\ cred[k] = None
    /\ ~AlreadyUsed(u, d, f)
    /\ Reclaim(u, d, f, k) \/ StartTrial(u, d, f, k)

-----------------------------------------------------------------------------
(* The owner's dashboard: DashboardStore *)

\* Revoking an owned device revokes its credentials with it and keeps its slot
\* occupied; revoking it again changes nothing.
RevokeDevice(u, d) ==
    /\ Owns(u, d)
    /\ device' = [device EXCEPT ![d].status = "revoked"]
    /\ cred' = IF device[d].status = "active" THEN Revoking(u, {d}) ELSE cred
    /\ UNCHANGED <<trial, bound>>

\* The administrator makes a revoked device active again; its credentials stay
\* revoked, it has to be paired anew.
RestoreDevice(u, d) ==
    /\ Owns(u, d)
    /\ device' = [device EXCEPT ![d].status = "active"]
    /\ UNCHANGED <<cred, trial, bound>>

\* A new credential for an active device replaces the ones it had.
RotateDeviceCredential(u, d, k) ==
    /\ OwnsActive(u, d)
    /\ cred[k] = None
    /\ cred' = Inserting(Revoking(u, {d}), k, u, d)
    /\ UNCHANGED <<device, trial, bound>>

-----------------------------------------------------------------------------
(* The administrator: EntitlementStore *)

\* The slot of one device moves to another device of the same owner that holds
\* none; the status of neither device is looked at.
TransferDevice(old, new) ==
    /\ old \in bound
    /\ new \notin bound
    /\ \E u \in Users : Owns(u, old) /\ Owns(u, new)
    /\ bound' = (bound \ {old}) \cup {new}
    /\ UNCHANGED <<device, cred, trial>>

\* Every live credential of the account is revoked, the trial is not touched.
RecoverIdentity(u) ==
    /\ cred' = Revoking(u, Devices)
    /\ UNCHANGED <<device, trial, bound>>

\* A strictly later expiry, which may still lie in the past.
ExtendTrial(u) ==
    /\ trial[u] # "none"
    /\ trial' \in {trial, [trial EXCEPT ![u] = "active"]}
    /\ UNCHANGED <<device, cred, bound>>

\* The clock passes ends_at.
TrialEnds(u) ==
    /\ trial[u] = "active"
    /\ trial' = [trial EXCEPT ![u] = "expired"]
    /\ UNCHANGED <<device, cred, bound>>

-----------------------------------------------------------------------------
(* Properties of the rows *)

\* A device has at most one live credential: pairing again or rotating replaces
\* what it had, although the first pairing revokes nothing.
OneLiveCredential ==
    \A k, l \in Creds :
        Live(k) /\ Live(l) /\ cred[k].device = cred[l].device => k = l

\* A revoked device holds no live credential, whatever pairing was under way
\* when it was revoked: restoring it does not bring an old Bridge back.
RevokedHoldsNothing ==
    \A k \in Creds : Live(k) => OwnsActive(cred[k].user, cred[k].device)

\* Whatever pairs, rotates, revokes and recovers in between, at most one key
\* opens a device, and none opens a revoked one.
CredentialsHold == OneLiveCredential /\ RevokedHoldsNothing

=============================================================================
