--------------------------- MODULE AccountsProofs ----------------------------
(***************************************************************************)
(* What every account transaction preserves, for every set of accounts,    *)
(* devices, credentials and fingerprints.                                  *)
(*                                                                         *)
(* OneLiveCredential and RevokedHoldsNothing are not inductive: the first  *)
(* pairing neither revokes a credential nor reads the status of a row it   *)
(* finds.  It is right because a row it could find has an owner who holds  *)
(* a trial (DeviceHasTrial) and a credential has a row (CredHasDevice), so *)
(* that a user without a trial has neither.                                *)
(***************************************************************************)
EXTENDS Accounts, TLAPS

CredHasDevice ==
    \A k \in Creds : cred[k] # None => Owns(cred[k].user, cred[k].device)

DeviceHasTrial ==
    \A d \in Devices : device[d] # None => trial[device[d].owner] # "none"

AccountsInv ==
    /\ AccountsTypeOK
    /\ CredHasDevice
    /\ DeviceHasTrial
    /\ OneLiveCredential
    /\ RevokedHoldsNothing

\* With no rows there is nothing to be wrong.
LEMMA AccountsInitInv == AccountsInit => AccountsInv
  BY IdsAssumption, AccountsAssumption, RowAssumption
     DEF AccountsInit, AccountsInv, AccountsTypeOK, CredHasDevice, DeviceHasTrial,
         OneLiveCredential, RevokedHoldsNothing, Live, Owns, OwnsActive

\* The shape of rows, for the provers.
LEMMA RowShape ==
  ASSUME AccountsTypeOK
  PROVE  /\ \A d \in Devices : device[d] # None =>
              /\ device[d].owner \in Users
              /\ device[d].status \in {"active", "revoked"}
              /\ device[d].fp \in Fingerprints \cup {None}
         /\ \A k \in Creds : cred[k] # None =>
              /\ cred[k].user \in Users
              /\ cred[k].device \in Devices
              /\ cred[k].revoked \in BOOLEAN
  BY DEF AccountsTypeOK, DeviceRows, CredRows

\* Revoking keeps every row's user and device, and leaves exactly the live
\* credentials that are not the user's for one of the devices.
LEMMA RevokingRows ==
  ASSUME AccountsTypeOK, NEW u \in Users, NEW ds \in SUBSET Devices,
         NEW k \in Creds
  PROVE  LET r == Revoking(u, ds)[k] IN
         /\ r \in CredRows \cup {None}
         /\ r = None <=> cred[k] = None
         /\ r # None => r.user = cred[k].user /\ r.device = cred[k].device
         /\ r # None => (~r.revoked <=> /\ ~cred[k].revoked
                                        /\ ~(cred[k].user = u /\ cred[k].device \in ds))
<1>1. Revoking(u, ds)[k] = IF Live(k) /\ cred[k].user = u /\ cred[k].device \in ds
                           THEN [cred[k] EXCEPT !.revoked = TRUE]
                           ELSE cred[k]
  BY DEF Revoking
<1>2. CASE Live(k) /\ cred[k].user = u /\ cred[k].device \in ds
  <2>1. cred[k] \in CredRows
    BY <1>2 DEF AccountsTypeOK, Live
  <2>2. /\ [cred[k] EXCEPT !.revoked = TRUE] \in CredRows
        /\ [cred[k] EXCEPT !.revoked = TRUE].user = cred[k].user
        /\ [cred[k] EXCEPT !.revoked = TRUE].device = cred[k].device
        /\ [cred[k] EXCEPT !.revoked = TRUE].revoked = TRUE
    BY <2>1 DEF CredRows
  <2> QED BY <1>1, <1>2, <2>1, <2>2, RowAssumption DEF Live
<1>3. CASE ~(Live(k) /\ cred[k].user = u /\ cred[k].device \in ds)
  <2>1. cred[k] \in CredRows \cup {None}
    BY DEF AccountsTypeOK
  <2> QED BY <1>1, <1>3, <2>1 DEF Live, CredRows
<1> QED BY <1>2, <1>3
LEMMA RevokingType ==
  ASSUME AccountsTypeOK, NEW u \in Users, NEW ds \in SUBSET Devices
  PROVE  Revoking(u, ds) \in [Creds -> CredRows \cup {None}]
<1>1. \A rows : rows = Revoking(u, ds) /\ (\A k \in Creds : rows[k] \in CredRows \cup {None})
               => rows \in [Creds -> CredRows \cup {None}]
  BY DEF Revoking
<1>2. \A k \in Creds : Revoking(u, ds)[k] \in CredRows \cup {None}
  BY RevokingRows
<1> QED BY <1>1, <1>2

-----------------------------------------------------------------------------
(* Transactions that only revoke *)

\* Revoking credentials while every device keeps its row.
LEMMA RevokingKeeps ==
  ASSUME AccountsInv, NEW u \in Users, NEW ds \in SUBSET Devices,
         cred' = Revoking(u, ds), UNCHANGED <<device, trial, bound>>
  PROVE  AccountsInv'
<1>1. \A k \in Creds :
        /\ cred'[k] \in CredRows \cup {None}
        /\ cred'[k] = None <=> cred[k] = None
        /\ cred'[k] # None => cred'[k].user = cred[k].user /\ cred'[k].device = cred[k].device
        /\ cred'[k] # None /\ ~cred'[k].revoked => ~cred[k].revoked
  BY RevokingRows DEF AccountsInv
<1>2. cred' \in [Creds -> CredRows \cup {None}]
  BY <1>1 DEF Revoking
<1>3. AccountsTypeOK'
  BY <1>2 DEF AccountsInv, AccountsTypeOK
<1>4. CredHasDevice'
  BY <1>1 DEF AccountsInv, CredHasDevice, Owns
<1>5. DeviceHasTrial'
  BY DEF AccountsInv, DeviceHasTrial
<1>6. \A k \in Creds : Live(k)' => Live(k)
  BY <1>1 DEF Live
<1>7. OneLiveCredential'
  BY <1>1, <1>6 DEF AccountsInv, OneLiveCredential, Live
<1>8. RevokedHoldsNothing'
  BY <1>1, <1>6 DEF AccountsInv, RevokedHoldsNothing, OwnsActive, Owns, Live
<1> QED BY <1>3, <1>4, <1>5, <1>7, <1>8 DEF AccountsInv

\* RecoverIdentity.
LEMMA RecoverIdentityKeeps ==
  ASSUME AccountsInv, NEW u \in Users, RecoverIdentity(u)
  PROVE  AccountsInv'
  BY RevokingKeeps DEF RecoverIdentity

\* DashboardStore.RevokeDevice: when the row was active its live credentials
\* are the owner's and go with it, when it was revoked it had none.
LEMMA RevokeDeviceKeeps ==
  ASSUME AccountsInv, NEW u \in Users, NEW d \in Devices, RevokeDevice(u, d)
  PROVE  AccountsInv'
<1> USE DEF AccountsInv
<1>0. \A k \in Creds : cred[k] # None => cred[k].device \in Devices
  BY RowShape
<1>1. /\ Owns(u, d)
      /\ device' = [device EXCEPT ![d].status = "revoked"]
      /\ cred' = IF device[d].status = "active" THEN Revoking(u, {d}) ELSE cred
      /\ trial' = trial /\ bound' = bound
  BY DEF RevokeDevice
<1>2. \A k \in Creds :
        /\ cred'[k] \in CredRows \cup {None}
        /\ cred'[k] = None <=> cred[k] = None
        /\ cred'[k] # None => cred'[k].user = cred[k].user /\ cred'[k].device = cred[k].device
        /\ cred'[k] # None /\ ~cred'[k].revoked => ~cred[k].revoked
        /\ ~ /\ cred'[k] # None /\ ~cred'[k].revoked
             /\ device[d].status = "active"
             /\ cred[k].user = u /\ cred[k].device = d
  <2>1. CASE device[d].status = "active"
    BY <1>1, <2>1, RevokingRows
  <2>2. CASE device[d].status # "active"
    BY <1>1, <2>2 DEF AccountsTypeOK
  <2> QED BY <2>1, <2>2
<1>3. /\ device[d] \in DeviceRows
      /\ device' \in [Devices -> DeviceRows \cup {None}]
      /\ \A e \in Devices :
           /\ device'[e] = None <=> device[e] = None
           /\ device[e] # None => device'[e].owner = device[e].owner
           /\ e # d => device'[e] = device[e]
  BY <1>1, RowAssumption DEF AccountsTypeOK, DeviceRows, Owns
<1>4. cred' \in [Creds -> CredRows \cup {None}]
  <2>1. CASE device[d].status = "active"
    BY <1>1, <1>2, <2>1 DEF Revoking
  <2>2. CASE device[d].status # "active"
    BY <1>1, <2>2 DEF AccountsTypeOK
  <2> QED BY <2>1, <2>2
<1>5. AccountsTypeOK'
  BY <1>1, <1>3, <1>4 DEF AccountsTypeOK
<1>6. CredHasDevice'
  BY <1>0, <1>2, <1>3 DEF CredHasDevice, Owns
<1>7. DeviceHasTrial'
  BY <1>1, <1>3 DEF DeviceHasTrial
<1>8. OneLiveCredential'
  BY <1>2 DEF OneLiveCredential, Live
<1>9. RevokedHoldsNothing'
  <2> SUFFICES ASSUME NEW k \in Creds, Live(k)'
               PROVE  OwnsActive(cred[k].user, cred[k].device)'
    BY DEF RevokedHoldsNothing
  <2>1. Live(k) /\ cred'[k].user = cred[k].user /\ cred'[k].device = cred[k].device
    BY <1>2 DEF Live
  <2>2. OwnsActive(cred[k].user, cred[k].device)
    BY <2>1 DEF RevokedHoldsNothing
  <2>3. cred[k].device # d
    BY <1>1, <1>2, <2>1, <2>2 DEF OwnsActive, Owns, Live
  <2>4. cred[k].device \in Devices
    BY <1>0, <2>1 DEF Live
  <2> QED BY <1>3, <2>1, <2>2, <2>3, <2>4 DEF OwnsActive, Owns
<1> QED BY <1>5, <1>6, <1>7, <1>8, <1>9

\* DashboardStore.RestoreDevice only makes more rows active.
LEMMA RestoreDeviceKeeps ==
  ASSUME AccountsInv, NEW u \in Users, NEW d \in Devices, RestoreDevice(u, d)
  PROVE  AccountsInv'
<1> USE DEF AccountsInv
<1>0. \A k \in Creds : cred[k] # None => cred[k].device \in Devices
  BY RowShape
<1>1. /\ Owns(u, d)
      /\ device' = [device EXCEPT ![d].status = "active"]
      /\ cred' = cred /\ trial' = trial /\ bound' = bound
  BY DEF RestoreDevice
<1>2. /\ device' \in [Devices -> DeviceRows \cup {None}]
      /\ \A e \in Devices :
           /\ device'[e] = None <=> device[e] = None
           /\ device[e] # None => device'[e].owner = device[e].owner
           /\ (device[e] # None /\ device[e].status = "active"
                => device'[e].status = "active")
  BY <1>1, RowAssumption DEF AccountsTypeOK, DeviceRows, Owns
<1>3. AccountsTypeOK' /\ DeviceHasTrial'
  BY <1>1, <1>2 DEF AccountsTypeOK, DeviceHasTrial
<1>4. CredHasDevice'
  BY <1>0, <1>1, <1>2 DEF CredHasDevice, Owns
<1>5. OneLiveCredential'
  BY <1>1 DEF OneLiveCredential, Live
<1>6. RevokedHoldsNothing'
  BY <1>0, <1>1, <1>2 DEF RevokedHoldsNothing, OwnsActive, Owns, Live
<1> QED BY <1>3, <1>4, <1>5, <1>6

\* TransferDevice, ExtendTrial and the clock touch no row of a device or of a
\* credential, and a trial that exists does not go away.
LEMMA WindowAndSlotsKeep ==
  ASSUME AccountsInv, UNCHANGED <<device, cred>>, bound' \subseteq Devices,
         trial' \in [Users -> {"none", "active", "expired"}],
         \A u \in Users : trial[u] # "none" => trial'[u] # "none"
  PROVE  AccountsInv'
<1>1. AccountsTypeOK'
  BY DEF AccountsInv, AccountsTypeOK
<1>2. DeviceHasTrial'
  BY RowShape DEF AccountsInv, DeviceHasTrial
<1> QED
  BY <1>1, <1>2 DEF AccountsInv, CredHasDevice, OneLiveCredential,
                    RevokedHoldsNothing, Owns, OwnsActive, Live

LEMMA TransferDeviceKeeps ==
  ASSUME AccountsInv, NEW old \in Devices, NEW new \in Devices,
         TransferDevice(old, new)
  PROVE  AccountsInv'
  BY WindowAndSlotsKeep DEF TransferDevice, AccountsInv, AccountsTypeOK

LEMMA TrialKeeps ==
  ASSUME AccountsInv, NEW u \in Users, ExtendTrial(u) \/ TrialEnds(u)
  PROVE  AccountsInv'
<1>1. /\ trial' \in [Users -> {"none", "active", "expired"}]
      /\ \A v \in Users : trial[v] # "none" => trial'[v] # "none"
      /\ UNCHANGED <<device, cred, bound>>
  BY DEF ExtendTrial, TrialEnds, AccountsInv, AccountsTypeOK
<1> QED BY <1>1, WindowAndSlotsKeep DEF AccountsInv, AccountsTypeOK

-----------------------------------------------------------------------------
(* Transactions that mint a credential *)

\* What inserting a credential over rows r gives.
LEMMA InsertingRows ==
  \A r \in [Creds -> CredRows \cup {None}], k \in Creds, u \in Users, d \in Devices :
    /\ Inserting(r, k, u, d) \in [Creds -> CredRows \cup {None}]
    /\ Inserting(r, k, u, d)[k] # None
    /\ Inserting(r, k, u, d)[k].user = u
    /\ Inserting(r, k, u, d)[k].device = d
    /\ \A l \in Creds \ {k} : Inserting(r, k, u, d)[l] = r[l]
<1> TAKE r \in [Creds -> CredRows \cup {None}], k \in Creds, u \in Users, d \in Devices
<1> DEFINE row == [user |-> u, device |-> d, revoked |-> FALSE]
<1>1. /\ row \in CredRows
      /\ row.user = u /\ row.device = d
  BY DEF CredRows
<1>2. row # None
  BY <1>1, RowAssumption
<1>3. Inserting(r, k, u, d) = [r EXCEPT ![k] = row]
  BY DEF Inserting
<1> HIDE DEF row
<1>4. /\ Inserting(r, k, u, d) \in [Creds -> CredRows \cup {None}]
      /\ Inserting(r, k, u, d)[k] = row
      /\ \A l \in Creds \ {k} : Inserting(r, k, u, d)[l] = r[l]
  BY <1>1, <1>3
<1> QED BY <1>1, <1>2, <1>4

\* The device's credentials are revoked and one is inserted for its owner, while
\* its row stays active: a re-claim and a rotation.
LEMMA ReplacingKeeps ==
  ASSUME AccountsInv, NEW u \in Users, NEW d \in Devices, NEW k \in Creds,
         OwnsActive(u, d), cred[k] = None,
         cred' = Inserting(Revoking(u, {d}), k, u, d),
         device' \in [Devices -> DeviceRows \cup {None}],
         \A e \in Devices : device[e] # None =>
           /\ device'[e] # None
           /\ device'[e].owner = device[e].owner
           /\ device'[e].status = device[e].status,
         \A e \in Devices : device[e] = None => device'[e] = None,
         UNCHANGED <<trial, bound>>
  PROVE  AccountsInv'
<1> USE DEF AccountsInv
<1>0. \A l \in Creds : cred[l] # None => cred[l].device \in Devices
  BY RowShape
<1> DEFINE rows == Revoking(u, {d})
<1>1. /\ rows \in [Creds -> CredRows \cup {None}]
      /\ \A l \in Creds :
           /\ rows[l] = None <=> cred[l] = None
           /\ rows[l] # None => rows[l].user = cred[l].user /\ rows[l].device = cred[l].device
           /\ rows[l] # None /\ ~rows[l].revoked =>
                ~cred[l].revoked /\ ~(cred[l].user = u /\ cred[l].device = d)
  <2>1. {d} \in SUBSET Devices
    OBVIOUS
  <2>2. rows \in [Creds -> CredRows \cup {None}]
    BY <2>1, RevokingType
  <2>3. ASSUME NEW l \in Creds
        PROVE  /\ rows[l] = None <=> cred[l] = None
               /\ rows[l] # None => rows[l].user = cred[l].user /\ rows[l].device = cred[l].device
               /\ rows[l] # None => (~rows[l].revoked <=> /\ ~cred[l].revoked
                                                          /\ ~(cred[l].user = u /\ cred[l].device \in {d}))
    BY <2>1, RevokingRows
  <2> QED BY <2>2, <2>3
<1> HIDE DEF rows
<1>2. /\ cred' \in [Creds -> CredRows \cup {None}]
      /\ cred'[k] # None /\ cred'[k].user = u /\ cred'[k].device = d
      /\ \A l \in Creds \ {k} : cred'[l] = rows[l]
  <2>1. cred' = Inserting(rows, k, u, d)
    BY DEF rows
  <2>2. /\ Inserting(rows, k, u, d) \in [Creds -> CredRows \cup {None}]
        /\ Inserting(rows, k, u, d)[k] # None
        /\ Inserting(rows, k, u, d)[k].user = u
        /\ Inserting(rows, k, u, d)[k].device = d
        /\ \A l \in Creds \ {k} : Inserting(rows, k, u, d)[l] = rows[l]
    BY <1>1, InsertingRows
  <2> QED BY <2>1, <2>2
<1>3. \A l \in Creds \ {k} :
        /\ cred'[l] # None => cred[l] # None
        /\ cred'[l] # None => cred'[l].user = cred[l].user /\ cred'[l].device = cred[l].device
        /\ cred'[l] # None /\ ~cred'[l].revoked =>
             ~cred[l].revoked /\ ~(cred[l].user = u /\ cred[l].device = d)
  BY <1>1, <1>2
<1>4. AccountsTypeOK'
  BY <1>2 DEF AccountsTypeOK
<1>5. CredHasDevice'
  <2> SUFFICES ASSUME NEW l \in Creds, cred'[l] # None
               PROVE  Owns(cred[l].user, cred[l].device)'
    BY DEF CredHasDevice
  <2>1. CASE l = k
    BY <1>2, <2>1 DEF OwnsActive, Owns
  <2>2. CASE l # k
    <3>1. /\ cred'[l].user = cred[l].user /\ cred'[l].device = cred[l].device
          /\ cred[l].device \in Devices
          /\ Owns(cred[l].user, cred[l].device)
      BY <1>0, <1>3, <2>2 DEF CredHasDevice
    <3> QED BY <3>1 DEF Owns
  <2> QED BY <2>1, <2>2
<1>6. DeviceHasTrial'
  BY DEF DeviceHasTrial
<1>7. \A l \in Creds \ {k} :
        Live(l)' => Live(l) /\ cred'[l].device = cred[l].device /\ cred[l].device # d
  \* A live credential for d would be its owner's, that is u's.
  <2> SUFFICES ASSUME NEW l \in Creds \ {k}, Live(l)'
               PROVE  Live(l) /\ cred'[l].device = cred[l].device /\ cred[l].device # d
    OBVIOUS
  <2>1. Live(l) /\ cred'[l].device = cred[l].device /\ ~(cred[l].user = u /\ cred[l].device = d)
    BY <1>3 DEF Live
  <2>2. Owns(cred[l].user, cred[l].device)
    BY <2>1 DEF CredHasDevice, Live
  <2> QED BY <2>1, <2>2 DEF OwnsActive, Owns
<1>8. OneLiveCredential'
  <2> SUFFICES ASSUME NEW l \in Creds, NEW m \in Creds,
                      Live(l)', Live(m)', cred'[l].device = cred'[m].device
               PROVE  l = m
    BY DEF OneLiveCredential
  <2>1. CASE l = k /\ m # k
    <3>1. cred'[m].device # d
      BY <1>7, <2>1
    <3> QED BY <1>2, <2>1, <3>1
  <2>2. CASE l # k /\ m = k
    <3>1. cred'[l].device # d
      BY <1>7, <2>2
    <3> QED BY <1>2, <2>2, <3>1
  <2>3. CASE l # k /\ m # k
    <3>1. Live(l) /\ Live(m) /\ cred[l].device = cred[m].device
      BY <1>7, <2>3
    <3> QED BY <3>1 DEF OneLiveCredential
  <2> QED BY <2>1, <2>2, <2>3
<1>9. RevokedHoldsNothing'
  <2> SUFFICES ASSUME NEW l \in Creds, Live(l)'
               PROVE  OwnsActive(cred[l].user, cred[l].device)'
    BY DEF RevokedHoldsNothing
  <2>1. CASE l = k
    BY <1>2, <2>1 DEF OwnsActive, Owns
  <2>2. CASE l # k
    <3>1. OwnsActive(cred[l].user, cred[l].device) /\ cred[l].device \in Devices
      BY <1>0, <1>7, <2>2 DEF RevokedHoldsNothing, Live
    <3>2. cred'[l].user = cred[l].user /\ cred'[l].device = cred[l].device
      BY <1>3, <2>2 DEF Live
    <3> QED BY <3>1, <3>2 DEF OwnsActive, Owns
  <2> QED BY <2>1, <2>2
<1> QED BY <1>4, <1>5, <1>6, <1>8, <1>9

LEMMA RotateDeviceCredentialKeeps ==
  ASSUME AccountsInv, NEW u \in Users, NEW d \in Devices, NEW k \in Creds,
         RotateDeviceCredential(u, d, k)
  PROVE  AccountsInv'
  BY ReplacingKeeps DEF RotateDeviceCredential, AccountsInv, AccountsTypeOK

LEMMA ReclaimKeeps ==
  ASSUME AccountsInv, NEW u \in Users, NEW d \in Devices, NEW f \in Fingerprints,
         NEW k \in Creds, cred[k] = None, Reclaim(u, d, f, k)
  PROVE  AccountsInv'
<1>1. /\ OwnsActive(u, d)
      /\ device' = [device EXCEPT ![d].fp = f]
      /\ cred' = Inserting(Revoking(u, {d}), k, u, d)
      /\ UNCHANGED <<trial, bound>>
  BY DEF Reclaim
<1>2. device[d] \in DeviceRows
  BY <1>1 DEF OwnsActive, Owns, AccountsInv, AccountsTypeOK
<1>3. /\ [device[d] EXCEPT !.fp = f] \in DeviceRows
      /\ [device[d] EXCEPT !.fp = f].owner = device[d].owner
      /\ [device[d] EXCEPT !.fp = f].status = device[d].status
  BY <1>2 DEF DeviceRows
<1>4. /\ device' \in [Devices -> DeviceRows \cup {None}]
      /\ device'[d] = [device[d] EXCEPT !.fp = f]
      /\ \A e \in Devices \ {d} : device'[e] = device[e]
  BY <1>1, <1>3 DEF AccountsInv, AccountsTypeOK
<1>5. /\ \A e \in Devices : device[e] # None =>
            /\ device'[e] # None
            /\ device'[e].owner = device[e].owner
            /\ device'[e].status = device[e].status
      /\ \A e \in Devices : device[e] = None => device'[e] = None
  BY <1>2, <1>3, <1>4, RowAssumption
<1> QED BY <1>1, <1>4, <1>5, ReplacingKeeps

\* The first pairing: a user without a trial owns no device, so that the row it
\* writes is new and no credential names it.
LEMMA StartTrialKeeps ==
  ASSUME AccountsInv, NEW u \in Users, NEW d \in Devices, NEW f \in Fingerprints,
         NEW k \in Creds, cred[k] = None, StartTrial(u, d, f, k)
  PROVE  AccountsInv'
<1> USE DEF AccountsInv
<1> DEFINE row == [owner |-> u, status |-> "active", fp |-> f]
<1>1. /\ trial[u] = "none"
      /\ device[d] = None \/ Owns(u, d)
      /\ cred' = Inserting(cred, k, u, d)
      /\ trial' = [trial EXCEPT ![u] = "active"]
      /\ bound' = bound
  BY DEF StartTrial
<1>2. device[d] = None
  BY <1>1 DEF Owns, DeviceHasTrial
<1>3. device' = [device EXCEPT ![d] = row]
  BY <1>2 DEF StartTrial, AccountsTypeOK
<1>4. /\ row \in DeviceRows
      /\ row.owner = u /\ row.status = "active"
  BY DEF DeviceRows
<1>5. row # None
  BY <1>4, RowAssumption
<1> HIDE DEF row
<1>6. /\ device' \in [Devices -> DeviceRows \cup {None}]
      /\ device'[d] = row
      /\ \A e \in Devices \ {d} : device'[e] = device[e]
  BY <1>3, <1>4 DEF AccountsTypeOK
<1>7. /\ cred' \in [Creds -> CredRows \cup {None}]
      /\ cred'[k] # None /\ cred'[k].user = u /\ cred'[k].device = d
      /\ \A l \in Creds \ {k} : cred'[l] = cred[l]
  <2>1. /\ Inserting(cred, k, u, d) \in [Creds -> CredRows \cup {None}]
        /\ Inserting(cred, k, u, d)[k] # None
        /\ Inserting(cred, k, u, d)[k].user = u
        /\ Inserting(cred, k, u, d)[k].device = d
        /\ \A l \in Creds \ {k} : Inserting(cred, k, u, d)[l] = cred[l]
    BY InsertingRows DEF AccountsTypeOK
  <2> QED BY <1>1, <2>1
<1>8. ASSUME NEW l \in Creds, cred[l] # None
      PROVE  cred[l].device \in Devices \ {d}
  <2>1. cred[l].device \in Devices /\ Owns(cred[l].user, cred[l].device)
    BY <1>8, RowShape DEF CredHasDevice
  <2> QED BY <1>2, <2>1 DEF Owns
<1>9. AccountsTypeOK'
  BY <1>1, <1>6, <1>7 DEF AccountsTypeOK
<1>10. CredHasDevice'
  BY <1>4, <1>5, <1>6, <1>7, <1>8 DEF CredHasDevice, Owns
<1>11. DeviceHasTrial'
  <2>1. \A v \in Users : trial'[v] = "none" => trial[v] = "none" /\ v # u
    BY <1>1 DEF AccountsTypeOK
  <2>2. \A e \in Devices : device[e] # None => device[e].owner \in Users
    BY RowShape
  <2> QED BY <1>4, <1>6, <2>1, <2>2 DEF DeviceHasTrial
<1>12. OneLiveCredential'
  <2> SUFFICES ASSUME NEW l \in Creds, NEW m \in Creds,
                      Live(l)', Live(m)', cred'[l].device = cred'[m].device
               PROVE  l = m
    BY DEF OneLiveCredential
  <2>1. \A n \in Creds \ {k} : Live(n)' => Live(n) /\ cred'[n].device = cred[n].device
                                                  /\ cred[n].device # d
    BY <1>7, <1>8 DEF Live
  <2>2. CASE l = k /\ m # k
    BY <1>7, <2>1, <2>2
  <2>3. CASE l # k /\ m = k
    BY <1>7, <2>1, <2>3
  <2>4. CASE l # k /\ m # k
    <3>1. Live(l) /\ Live(m) /\ cred[l].device = cred[m].device
      BY <2>1, <2>4
    <3> QED BY <3>1 DEF OneLiveCredential
  <2> QED BY <2>2, <2>3, <2>4
<1>13. RevokedHoldsNothing'
  <2> SUFFICES ASSUME NEW l \in Creds, Live(l)'
               PROVE  OwnsActive(cred[l].user, cred[l].device)'
    BY DEF RevokedHoldsNothing
  <2>1. CASE l = k
    BY <1>4, <1>5, <1>6, <1>7, <2>1 DEF OwnsActive, Owns
  <2>2. CASE l # k
    <3>1. Live(l) /\ cred'[l] = cred[l] /\ cred[l].device \in Devices \ {d}
      BY <1>7, <1>8, <2>2 DEF Live
    <3>2. OwnsActive(cred[l].user, cred[l].device)
      BY <3>1 DEF RevokedHoldsNothing
    <3> QED BY <1>6, <3>1, <3>2 DEF OwnsActive, Owns
  <2> QED BY <2>1, <2>2
<1> QED BY <1>9, <1>10, <1>11, <1>12, <1>13

LEMMA BindFirstDeviceKeeps ==
  ASSUME AccountsInv, NEW u \in Users, NEW d \in Devices, NEW f \in Fingerprints,
         NEW k \in Creds, BindFirstDevice(u, d, f, k)
  PROVE  AccountsInv'
  BY ReclaimKeeps, StartTrialKeeps DEF BindFirstDevice

-----------------------------------------------------------------------------
(* A credential that was minted stays what it is *)

\* Every credential row is still there, for the same user and the same device.
RowsStay ==
    \A l \in Creds : cred[l] # None =>
        /\ cred'[l] # None
        /\ cred'[l].user = cred[l].user
        /\ cred'[l].device = cred[l].device

\* Revoking credentials changes no other column of their rows.
LEMMA RevokingStays ==
  ASSUME AccountsTypeOK, NEW u \in Users, NEW ds \in SUBSET Devices,
         cred' = Revoking(u, ds)
  PROVE  RowsStay
  BY RevokingRows DEF RowsStay

\* A transaction that mints a credential adds its row to the ones it revokes.
LEMMA MintingStays ==
  ASSUME AccountsTypeOK, NEW u \in Users, NEW d \in Devices, NEW k \in Creds,
         cred[k] = None,
         cred' = Inserting(Revoking(u, {d}), k, u, d) \/ cred' = Inserting(cred, k, u, d)
  PROVE  RowsStay /\ cred'[k].user = u /\ cred'[k].device = d /\ cred'[k] # None
<1> DEFINE rows == Revoking(u, {d})
<1>1. /\ rows \in [Creds -> CredRows \cup {None}]
      /\ \A l \in Creds : cred[l] # None =>
           rows[l] # None /\ rows[l].user = cred[l].user /\ rows[l].device = cred[l].device
  BY RevokingType, RevokingRows
<1> HIDE DEF rows
<1>2. CASE cred' = Inserting(rows, k, u, d)
  <2>1. /\ cred'[k] # None /\ cred'[k].user = u /\ cred'[k].device = d
        /\ \A l \in Creds \ {k} : cred'[l] = rows[l]
    BY <1>1, <1>2, InsertingRows
  <2> QED BY <1>1, <2>1 DEF RowsStay
<1>3. CASE cred' = Inserting(cred, k, u, d)
  <2>1. /\ cred'[k] # None /\ cred'[k].user = u /\ cred'[k].device = d
        /\ \A l \in Creds \ {k} : cred'[l] = cred[l]
    BY <1>3, InsertingRows DEF AccountsTypeOK
  <2> QED BY <2>1 DEF RowsStay
<1> QED BY <1>2, <1>3 DEF rows

\* What the dashboard and the administrator do.
LEMMA AdministrationStays ==
  ASSUME AccountsInv, NEW u \in Users,
         \/ \E d \in Devices : RevokeDevice(u, d) \/ RestoreDevice(u, d)
         \/ \E d \in Devices, k \in Creds : RotateDeviceCredential(u, d, k)
         \/ RecoverIdentity(u)
  PROVE  AccountsInv' /\ RowsStay
<1>1. AccountsTypeOK
  BY DEF AccountsInv
<1>2. ASSUME NEW d \in Devices, RevokeDevice(u, d)
      PROVE  AccountsInv' /\ RowsStay
  <2>1. cred' = Revoking(u, {d}) \/ cred' = cred
    BY <1>2 DEF RevokeDevice
  <2>2. RowsStay
    BY <1>1, <2>1, RevokingStays DEF RowsStay
  <2> QED BY <1>2, <2>2, RevokeDeviceKeeps
<1>3. ASSUME NEW d \in Devices, RestoreDevice(u, d)
      PROVE  AccountsInv' /\ RowsStay
  BY <1>3, RestoreDeviceKeeps DEF RestoreDevice, RowsStay
<1>4. ASSUME NEW d \in Devices, NEW k \in Creds, RotateDeviceCredential(u, d, k)
      PROVE  AccountsInv' /\ RowsStay
  BY <1>1, <1>4, RotateDeviceCredentialKeeps, MintingStays DEF RotateDeviceCredential
<1>5. ASSUME RecoverIdentity(u)
      PROVE  AccountsInv' /\ RowsStay
  <2>1. cred' = Revoking(u, Devices)
    BY <1>5 DEF RecoverIdentity
  <2> QED BY <1>1, <1>5, <2>1, RecoverIdentityKeeps, RevokingStays
<1> QED BY <1>2, <1>3, <1>4, <1>5

\* Pairing mints one credential, for the user and the device it is given.
LEMMA BindFirstDeviceStays ==
  ASSUME AccountsInv, NEW u \in Users, NEW d \in Devices, NEW f \in Fingerprints,
         NEW k \in Creds, BindFirstDevice(u, d, f, k)
  PROVE  /\ AccountsInv'
         /\ RowsStay
         /\ cred[k] = None
         /\ cred'[k] # None /\ cred'[k].user = u /\ cred'[k].device = d
<1>1. AccountsTypeOK /\ cred[k] = None
  BY DEF AccountsInv, BindFirstDevice
<1>2. cred' = Inserting(Revoking(u, {d}), k, u, d) \/ cred' = Inserting(cred, k, u, d)
  BY DEF BindFirstDevice, Reclaim, StartTrial
<1> QED BY <1>1, <1>2, BindFirstDeviceKeeps, MintingStays

=============================================================================
