---------------------------- MODULE AccessProofs -----------------------------
(***************************************************************************)
(* Whom revocation reaches: the connections of a revoked device, for every *)
(* set of accounts, devices, credentials and connections and whatever the  *)
(* owner, the administrator and the connections do at the same time.       *)
(*                                                                         *)
(* RevokedIsOffline is not inductive: a connection is registered by an     *)
(* authentication whose reads are over, so it rests on what was true of    *)
(* the device then.  It is right because a credential of a revoked device  *)
(* is revoked with it (RevokedHoldsNothing), so that no authentication     *)
(* begins afterwards, and the ones under way at the commit are known       *)
(* (LateIsOvertaken).                                                      *)
(***************************************************************************)
EXTENDS Access, AccountsProofs

\* Every device was paired or provisioned, and no code deletes its row.
DevicesHaveRows == \A d \in Devices : device[d] # None

\* The registry files a connection under the device it authenticated as.
FiledUnderDevice ==
    \A d \in Devices : registry[d] # None => connDevice[registry[d]] = d

UnderWay == {"device", "entitlement", "binding", "admitted"}

\* An authentication that got past its first read has found a credential.
AuthHasRow ==
    \A c \in Conns :
        auth[c].at \in UnderWay => auth[c].cred \in Creds /\ CredOf(c) # None

\* A connection that may yet be registered for a revoked device was on its way
\* when the device was revoked.
LateIsOvertaken ==
    \A c \in Conns :
        /\ ~Connected(c)
        /\ auth[c].at \in UnderWay
        /\ device[CredOf(c).device].status = "revoked"
        => c \in overtaken

AccessInv ==
    /\ AccessTypeOK
    /\ AccountsInv
    /\ DevicesHaveRows
    /\ FiledUnderDevice
    /\ AuthHasRow
    /\ LateIsOvertaken
    /\ RevokedIsOffline

-----------------------------------------------------------------------------
(* The initial state *)

\* A first credential is the one of one device.
LEMMA FirstRows ==
  ASSUME AccessInit, NEW k \in Creds, cred[k] # None
  PROVE  \E d \in Devices :
           /\ FirstCred[d] = k
           /\ cred[k] = [user |-> Owner[d], device |-> d, revoked |-> FALSE]
<1> DEFINE e == CHOOSE d \in Devices : FirstCred[d] = k
<1>1. \E d \in Devices : FirstCred[d] = k
  BY DEF AccessInit
<1>2. e \in Devices /\ FirstCred[e] = k
  BY <1>1
<1>3. cred[k] = [user |-> Owner[e], device |-> e, revoked |-> FALSE]
  BY <1>1 DEF AccessInit
<1> QED BY <1>2, <1>3

LEMMA AccessInitInv == AccessInit => AccessInv
<1> SUFFICES ASSUME AccessInit
             PROVE  AccessInv
  OBVIOUS
<1>1. ASSUME NEW d \in Devices
      PROVE  /\ device[d] \in DeviceRows /\ device[d] # None
             /\ device[d].status = "active" /\ device[d].owner = Owner[d]
  <2>1. device[d] = [owner |-> Owner[d], status |-> "active", fp |-> None]
    BY DEF AccessInit
  <2>2. Owner[d] \in Users
    BY AccessAssumption
  <2>3. device[d] \in DeviceRows
    BY <2>1, <2>2 DEF DeviceRows
  <2> QED BY <2>1, <2>3, RowAssumption
<1>2. ASSUME NEW k \in Creds, cred[k] # None
      PROVE  /\ cred[k] \in CredRows
             /\ cred[k].device \in Devices
             /\ FirstCred[cred[k].device] = k
             /\ cred[k].user = Owner[cred[k].device]
  <2>1. PICK d \in Devices :
          /\ FirstCred[d] = k
          /\ cred[k] = [user |-> Owner[d], device |-> d, revoked |-> FALSE]
    BY <1>2, FirstRows
  <2>2. Owner[d] \in Users
    BY AccessAssumption
  <2>3. cred[k] \in CredRows
    BY <2>1, <2>2 DEF CredRows
  <2> QED BY <2>1, <2>3
<1> USE IdsAssumption, AccountsAssumption, RowAssumption, AccessAssumption
<1>4. AccountsTypeOK
  <2>1. device \in [Devices -> DeviceRows \cup {None}]
    BY <1>1 DEF AccessInit
  <2>2. \A k \in Creds : cred[k] \in CredRows \cup {None}
    BY <1>2
  <2>3. cred \in [Creds -> CredRows \cup {None}]
    BY <2>2 DEF AccessInit
  <2>4. trial \in [Users -> {"none", "active", "expired"}] /\ bound \subseteq Devices
    BY DEF AccessInit
  <2> QED BY <2>1, <2>3, <2>4 DEF AccountsTypeOK
<1>5. CredHasDevice /\ RevokedHoldsNothing
  BY <1>1, <1>2 DEF CredHasDevice, RevokedHoldsNothing, OwnsActive, Owns, Live, CredRows
<1>6. DeviceHasTrial
  BY <1>1 DEF DeviceHasTrial, AccessInit
<1>7. OneLiveCredential
  BY <1>2 DEF OneLiveCredential, Live
<1>8. HubTypeOK /\ FiledUnderDevice
  <2>1. HubInit
    BY DEF AccessInit
  <2> QED BY <2>1 DEF HubInit, HubTypeOK, ReaderStates, FiledUnderDevice
<1>9. AccessTypeOK
  BY <1>4, <1>8 DEF AccessInit, AccessTypeOK, AuthStates
<1>10. AuthHasRow /\ LateIsOvertaken
  BY DEF AccessInit, AuthHasRow, LateIsOvertaken, UnderWay
<1>11. RevokedIsOffline
  BY <1>1 DEF RevokedIsOffline
<1> QED BY <1>1, <1>4, <1>5, <1>6, <1>7, <1>8, <1>9, <1>10, <1>11
        DEF AccessInv, AccountsInv, DevicesHaveRows

-----------------------------------------------------------------------------
(* What the steps do to the connections *)

HubMove ==
    \/ UNCHANGED hubVars
    \/ \E c \in Conns, d \in Devices : Connect(c, d)
    \/ \E c \in Conns : \/ Start(c) \/ FinishDisconnect(c) \/ ReadFails(c)
                        \/ CloseConn(c) \/ Leave(c)
    \/ \E d \in Devices : Disconnect(d)

\* A closed connection stays closed and a connection keeps its device.
LEMMA HubMoveKeeps ==
  ASSUME HubTypeOK, FiledUnderDevice, HubMove
  PROVE  /\ HubTypeOK' /\ FiledUnderDevice'
         /\ closed \subseteq closed'
         /\ \A c \in Conns : Connected(c) => connDevice'[c] = connDevice[c]
<1> USE IdsAssumption, HubAssumption DEF HubTypeOK, FiledUnderDevice, ReaderStates
<1> DEFINE Kept == /\ HubTypeOK' /\ FiledUnderDevice'
                   /\ closed \subseteq closed'
                   /\ \A c \in Conns : Connected(c) => connDevice'[c] = connDevice[c]
<1>1. CASE UNCHANGED hubVars
  BY <1>1 DEF hubVars
<1>2. ASSUME NEW c \in Conns, NEW d \in Devices, Connect(c, d)
      PROVE  Kept
  BY <1>2 DEF Connect, Connected
<1>3. ASSUME NEW c \in Conns, Start(c)
      PROVE  Kept
  BY <1>3 DEF Start
<1>4. ASSUME NEW c \in Conns, FinishDisconnect(c) \/ CloseConn(c)
      PROVE  Kept
  BY <1>4 DEF FinishDisconnect, CloseConn
<1>5. ASSUME NEW c \in Conns, ReadFails(c)
      PROVE  Kept
  <2>1. <<>> \in Seq(Uplink)
    OBVIOUS
  <2> QED BY <1>5, <2>1 DEF ReadFails
<1>6. ASSUME NEW c \in Conns, Leave(c)
      PROVE  Kept
  <2>1. <<>> \in Seq(Downlink)
    OBVIOUS
  <2>2. registry' \in [Devices -> Conns \cup {None}]
    BY <1>6 DEF Leave
  <2>3. queue' \in [Conns -> Seq(Downlink)]
    BY <1>6, <2>1 DEF Leave
  <2>4. FiledUnderDevice'
    BY <1>6 DEF Leave
  <2> QED BY <1>6, <2>2, <2>3, <2>4 DEF Leave
<1>7. ASSUME NEW d \in Devices, Disconnect(d)
      PROVE  Kept
  BY <1>7 DEF Disconnect
<1> QED BY <1>1, <1>2, <1>3, <1>4, <1>5, <1>6, <1>7 DEF HubMove

\* Disconnecting a device leaves it with no connection in the registry and no
\* other device with a new one.
LEMMA Disconnecting ==
  ASSUME HubTypeOK, NEW d \in Devices, DisconnectDevice(d)
  PROVE  /\ HubMove /\ registry'[d] = None
         /\ UNCHANGED <<connDevice, closed>>
         /\ \A e \in Devices : registry'[e] \in {registry[e], None}
BY DEF DisconnectDevice, Disconnect, HubMove, hubVars, HubTypeOK

-----------------------------------------------------------------------------
(* What the steps do to the accounts *)

AccountMove ==
    \/ UNCHANGED accountVars
    \/ \E u \in Users : \/ \E d \in Devices : RevokeDevice(u, d) \/ RestoreDevice(u, d)
                        \/ \E d \in Devices, k \in Creds : RotateDeviceCredential(u, d, k)
                        \/ RecoverIdentity(u) \/ ExtendTrial(u) \/ TrialEnds(u)
    \/ \E old, new \in Devices : TransferDevice(old, new)

LEMMA AccountMoveKeeps ==
  ASSUME AccountsInv, DevicesHaveRows, AccountMove
  PROVE  AccountsInv' /\ DevicesHaveRows' /\ RowsStay
<1> DEFINE Kept == AccountsInv' /\ DevicesHaveRows' /\ RowsStay
<1>1. CASE UNCHANGED accountVars
  BY <1>1 DEF accountVars, AccountsInv, AccountsTypeOK, CredHasDevice, DeviceHasTrial,
     OneLiveCredential, RevokedHoldsNothing, OwnsActive, Owns, Live, DevicesHaveRows, RowsStay
<1>2. ASSUME NEW u \in Users, NEW d \in Devices, RevokeDevice(u, d) \/ RestoreDevice(u, d)
      PROVE  Kept
  <2>1. AccountsInv' /\ RowsStay
    BY <1>2, AdministrationStays
  <2>2. device[d] \in DeviceRows
    BY DEF DevicesHaveRows, AccountsInv, AccountsTypeOK
  <2>3. /\ [device[d] EXCEPT !.status = "revoked"] \in DeviceRows
        /\ [device[d] EXCEPT !.status = "active"] \in DeviceRows
    BY <2>2 DEF DeviceRows
  <2>4. DevicesHaveRows'
    BY <1>2, <2>3, RowAssumption
    DEF RevokeDevice, RestoreDevice, DevicesHaveRows, AccountsInv, AccountsTypeOK
  <2> QED BY <2>1, <2>4
<1>3. ASSUME NEW u \in Users,
             \/ \E d \in Devices, k \in Creds : RotateDeviceCredential(u, d, k)
             \/ RecoverIdentity(u)
      PROVE  Kept
  <2>1. AccountsInv' /\ RowsStay
    BY <1>3, AdministrationStays
  <2>2. device' = device
    BY <1>3 DEF RotateDeviceCredential, RecoverIdentity
  <2> QED BY <2>1, <2>2 DEF DevicesHaveRows
<1>4. ASSUME NEW u \in Users, ExtendTrial(u) \/ TrialEnds(u)
      PROVE  Kept
  BY <1>4, TrialKeeps DEF ExtendTrial, TrialEnds, DevicesHaveRows, RowsStay
<1>5. ASSUME NEW old \in Devices, NEW new \in Devices, TransferDevice(old, new)
      PROVE  Kept
  BY <1>5, TransferDeviceKeeps DEF TransferDevice, DevicesHaveRows, RowsStay
<1> QED BY <1>1, <1>2, <1>3, <1>4, <1>5 DEF AccountMove

\* Of the handlers that only commit, none revokes a device.
LEMMA ChangesRevokeNone ==
  ASSUME AccountsInv, DevicesHaveRows, AccountChanges
  PROVE  \A d \in Devices : device'[d].status = "revoked" => device[d].status = "revoked"
<1>1. ASSUME NEW e \in Devices, NEW u \in Users, RestoreDevice(u, e)
      PROVE  \A d \in Devices : device'[d].status = "revoked" => device[d].status = "revoked"
  <2>1. device[e] \in DeviceRows
    BY DEF DevicesHaveRows, AccountsInv, AccountsTypeOK
  <2>2. [device[e] EXCEPT !.status = "active"].status = "active"
    BY <2>1 DEF DeviceRows
  <2> QED BY <1>1, <2>2 DEF RestoreDevice, AccountsInv, AccountsTypeOK
<1>2. device' = device \/ \E u \in Users : Restores(u)
  BY DEF AccountChanges, Rotates, Extends, RotateDeviceCredential, ExtendTrial, TrialEnds
<1> QED BY <1>1, <1>2, AccessAssumption DEF Restores

-----------------------------------------------------------------------------
(* Every step is one of these at most, on either side *)

LEMMA AccessMoves ==
  ASSUME AccessInv, [AccessNext]_accessVars
  PROVE  HubMove /\ AccountMove
<1> USE AccessAssumption
<1>1. ASSUME NEW c \in Conns, Authenticates(c)
      PROVE  HubMove /\ AccountMove
  BY <1>1 DEF Authenticates, LookupDeviceCredential, Refuse, DeviceOwnedAndActive, Authorize,
     HasActiveDeviceBinding, Accept, GoesTo, HubMove, AccountMove
<1>2. ASSUME NEW c \in Conns, Register(c)
      PROVE  HubMove /\ AccountMove
  <2>1. auth[c].cred \in Creds /\ cred[auth[c].cred] # None
    BY <1>2 DEF Register, AccessInv, AuthHasRow, UnderWay, CredOf
  <2>2. CredOf(c).device \in Devices
    BY <2>1, RowShape DEF AccessInv, AccountsInv, CredOf
  <2> QED BY <1>2, <2>2 DEF Register, HubMove, AccountMove
<1>3. ASSUME NEW c \in Conns, Leaves(c)
      PROVE  HubMove /\ AccountMove
  BY <1>3 DEF Leaves, HubMove, AccountMove
<1>4. ASSUME NEW u \in Users, NEW d \in Managed, RevokeCommits(u, d)
      PROVE  HubMove /\ AccountMove
  BY <1>4 DEF RevokeCommits, HubMove, AccountMove
<1>5. ASSUME NEW d \in Devices, RevokeDisconnects(d) \/ RecoverDisconnects(d)
      PROVE  HubMove /\ AccountMove
  BY <1>5 DEF RevokeDisconnects, RecoverDisconnects, DisconnectDevice, HubMove, AccountMove
<1>6. CASE \E old, new \in Devices : TransferChecks(old, new)
  BY <1>6 DEF TransferChecks, HubMove, AccountMove
<1>7. CASE TransferDisconnects \/ TransferCommits \/ TransferReturns
  <2>1. transfer # None => transfer.old \in Devices /\ transfer.new \in Devices
    BY DEF AccessInv, AccessTypeOK, Cases
  <2>2. CASE TransferDisconnects
    BY <2>1, <2>2 DEF TransferDisconnects, DisconnectDevice, HubMove, AccountMove
  <2>3. CASE TransferCommits
    BY <2>1, <2>3 DEF TransferCommits, HubMove, AccountMove
  <2>4. CASE TransferReturns
    BY <2>4 DEF TransferReturns, HubMove, AccountMove
  <2> QED BY <1>7, <2>2, <2>3, <2>4
<1>8. CASE \E u \in Users : RecoverReads(u)
  BY <1>8 DEF RecoverReads, HubMove, AccountMove
<1>9. CASE RecoverCommits
  <2>1. recovery # None => recovery.user \in Users
    BY DEF AccessInv, AccessTypeOK
  <2> QED BY <1>9, <2>1 DEF RecoverCommits, HubMove, AccountMove
<1>10. CASE AccountChanges
  <2>1. AccountMove
    BY <1>10 DEF AccountChanges, Rotates, Restores, Extends, AccountMove
  <2>2. HubMove
    BY <1>10 DEF AccountChanges, HubMove
  <2> QED BY <2>1, <2>2
<1>11. CASE ConnectionSteps
  BY <1>11 DEF ConnectionSteps, HubMove, AccountMove
<1>12. CASE UNCHANGED accessVars
  BY <1>12 DEF accessVars, HubMove, AccountMove
<1> QED
  BY <1>1, <1>2, <1>3, <1>4, <1>5, <1>6, <1>7, <1>8, <1>9, <1>10, <1>11, <1>12 DEF AccessNext

\* The state of the authentications and the handlers keeps its type.
LEMMA HandlerTypes ==
  ASSUME AccessInv, [AccessNext]_accessVars
  PROVE  /\ auth' \in [Conns -> [cred : Creds \cup {None}, at : AuthStates]]
         /\ owed' \subseteq Devices
         /\ transfer' \in Cases \cup {None}
         /\ recovery' \in [user : Users, left : SUBSET Devices] \cup {None}
         /\ overtaken' \subseteq Conns
<1> USE AccessAssumption
<1>0. /\ auth \in [Conns -> [cred : Creds \cup {None}, at : AuthStates]]
      /\ owed \subseteq Devices
      /\ transfer \in Cases \cup {None}
      /\ recovery \in [user : Users, left : SUBSET Devices] \cup {None}
      /\ overtaken \subseteq Conns
  BY DEF AccessInv, AccessTypeOK
<1> DEFINE Attempts == [cred : Creds \cup {None}, at : AuthStates]
           Typed == /\ auth' \in [Conns -> Attempts]
                    /\ owed' \subseteq Devices
                    /\ transfer' \in Cases \cup {None}
                    /\ recovery' \in [user : Users, left : SUBSET Devices] \cup {None}
                    /\ overtaken' \subseteq Conns
<1>a. \A c \in Conns : auth[c].cred \in Creds \cup {None} /\ auth[c].at \in AuthStates
  BY <1>0
<1>b. \A k \in Creds \cup {None}, l \in AuthStates : [cred |-> k, at |-> l] \in Attempts
  OBVIOUS
<1>c. \A c \in Conns, x \in Attempts : [auth EXCEPT ![c] = x] \in [Conns -> Attempts]
  BY <1>0
<1> HIDE DEF Attempts
<1>1. ASSUME NEW c \in Conns, Authenticates(c)
      PROVE  Typed
  <2>1. ASSUME NEW k \in Creds \cup {None}, NEW l \in AuthStates, GoesTo(c, k, l)
        PROVE  Typed
    BY <1>0, <1>b, <1>c, <2>1 DEF GoesTo
  <2>2. "device" \in AuthStates /\ "entitlement" \in AuthStates /\ "binding" \in AuthStates
        /\ "idle" \in AuthStates /\ "admitted" \in AuthStates /\ "refused" \in AuthStates
    BY DEF AuthStates
  <2>3. ASSUME NEW k \in Creds, Refuse(c, k)
        PROVE  Typed
    <3>1. \E x \in Attempts : auth' = [auth EXCEPT ![c] = x]
      <4>1. CASE Connected(c)
        BY <2>2, <2>3, <4>1, <1>b DEF Refuse
      <4>2. CASE ~Connected(c)
        BY <2>2, <2>3, <4>2, <1>b DEF Refuse
      <4> QED BY <4>1, <4>2
    <3> QED BY <1>0, <1>c, <2>3, <3>1 DEF Refuse
  <2>4. CASE \E k \in Creds : LookupDeviceCredential(c, k)
    BY <2>1, <2>2, <2>4 DEF LookupDeviceCredential
  <2>5. CASE Accept(c)
    BY <1>a, <2>1, <2>2, <2>5 DEF Accept
  <2>6. CASE DeviceOwnedAndActive(c)
    BY <1>a, <2>1, <2>2, <2>6 DEF DeviceOwnedAndActive
  <2>7. CASE Authorize(c)
    BY <1>a, <2>1, <2>2, <2>5, <2>7 DEF Authorize
  <2>8. CASE HasActiveDeviceBinding(c)
    BY <2>5, <2>8 DEF HasActiveDeviceBinding
  <2> QED BY <1>1, <2>3, <2>4, <2>6, <2>7, <2>8 DEF Authenticates
<1>2. ASSUME NEW c \in Conns, Register(c)
      PROVE  Typed
  <2>1. [auth[c] EXCEPT !.at = "idle"] \in Attempts
    BY <1>0 DEF Attempts, AuthStates
  <2>2. auth' = [auth EXCEPT ![c] = [auth[c] EXCEPT !.at = "idle"]]
    BY <1>2 DEF Register
  <2> QED BY <1>0, <1>2, <1>c, <2>1, <2>2 DEF Register
<1>3. ASSUME NEW c \in Conns, Leaves(c)
      PROVE  Typed
  <2>1. [cred |-> None, at |-> "idle"] \in Attempts
    BY <1>b DEF AuthStates
  <2> QED BY <1>0, <1>3, <1>c, <2>1 DEF Leaves
<1>4. ASSUME NEW u \in Users, NEW d \in Managed, RevokeCommits(u, d)
      PROVE  Typed
  BY <1>0, <1>4 DEF RevokeCommits, Arriving, Attempts
<1>5. ASSUME NEW d \in Devices, RevokeDisconnects(d)
      PROVE  Typed
  BY <1>0, <1>5 DEF RevokeDisconnects, Attempts
<1>6. ASSUME NEW d \in Devices, RecoverDisconnects(d)
      PROVE  Typed
  <2>1. [recovery EXCEPT !.left = @ \ {d}] \in [user : Users, left : SUBSET Devices]
    BY <1>0, <1>6 DEF RecoverDisconnects
  <2> QED BY <1>0, <1>6, <2>1 DEF RecoverDisconnects, Attempts
<1>7. ASSUME NEW old \in Devices, NEW new \in Devices, TransferChecks(old, new)
      PROVE  Typed
  BY <1>0, <1>7 DEF TransferChecks, Cases, Attempts
<1>8. CASE TransferDisconnects \/ TransferCommits
  <2>1. transfer # None => /\ [transfer EXCEPT !.at = "disconnected"] \in Cases
                           /\ [transfer EXCEPT !.at = "done"] \in Cases
    BY <1>0 DEF Cases
  <2> QED BY <1>0, <1>8, <2>1 DEF TransferDisconnects, TransferCommits, Attempts
<1>9. CASE TransferReturns
  BY <1>0, <1>9 DEF TransferReturns, Attempts
<1>10. ASSUME NEW u \in Users, RecoverReads(u)
       PROVE  Typed
  BY <1>0, <1>10 DEF RecoverReads, Attempts
<1>11. CASE RecoverCommits
  BY <1>0, <1>11 DEF RecoverCommits, Attempts
<1>12. CASE AccountChanges \/ ConnectionSteps \/ UNCHANGED accessVars
  BY <1>0, <1>12 DEF AccountChanges, ConnectionSteps, accessVars, Attempts
<1> QED
  BY <1>1, <1>2, <1>3, <1>4, <1>5, <1>6, <1>7, <1>8, <1>9, <1>10, <1>11, <1>12
  DEF AccessNext, Attempts

-----------------------------------------------------------------------------
(* Authentications under way *)

\* A step that begins no authentication, revokes no device and forgets nobody
\* who may still arrive.
LEMMA ArrivalsKept ==
  ASSUME AccessInv, RowsStay,
         \A c \in Conns : Connected(c) => connDevice'[c] = connDevice[c],
         \A d \in Devices : device'[d].status = "revoked" => device[d].status = "revoked",
         \A c \in Conns : auth'[c].at \in UnderWay =>
             auth[c].at \in UnderWay /\ auth'[c].cred = auth[c].cred,
         \A c \in overtaken : c \in overtaken' \/ Connected(c)
  PROVE  AuthHasRow' /\ LateIsOvertaken'
<1> SUFFICES ASSUME NEW c \in Conns, auth'[c].at \in UnderWay
             PROVE  /\ auth'[c].cred \in Creds /\ cred'[auth'[c].cred] # None
                    /\ ~Connected(c)'
                       /\ device'[cred'[auth'[c].cred].device].status = "revoked"
                       => c \in overtaken'
  BY DEF AuthHasRow, LateIsOvertaken, CredOf
<1>1. auth[c].at \in UnderWay /\ auth'[c].cred = auth[c].cred
  OBVIOUS
<1>2. auth[c].cred \in Creds /\ cred[auth[c].cred] # None
  BY <1>1 DEF AccessInv, AuthHasRow, CredOf
<1>3. /\ cred'[auth[c].cred] # None
      /\ cred'[auth[c].cred].device = cred[auth[c].cred].device
  BY <1>2 DEF RowsStay
<1>4. cred[auth[c].cred].device \in Devices
  BY <1>2, RowShape DEF AccessInv, AccountsInv
<1>5. ~Connected(c)' => ~Connected(c)
  BY IdsAssumption DEF Connected
<1>6. ASSUME ~Connected(c)', device'[cred'[auth'[c].cred].device].status = "revoked"
      PROVE  c \in overtaken'
  <2>1. device[cred[auth[c].cred].device].status = "revoked"
    BY <1>1, <1>3, <1>4, <1>6
  <2>2. c \in overtaken
    BY <1>1, <1>5, <1>6, <2>1 DEF AccessInv, LateIsOvertaken, CredOf
  <2> QED BY <1>5, <1>6, <2>2
<1> QED BY <1>1, <1>2, <1>3, <1>6

\* LookupDeviceCredential: a live credential is never a revoked device's.
LEMMA LookupArrives ==
  ASSUME AccessInv, NEW c \in Conns, NEW k \in Creds, LookupDeviceCredential(c, k)
  PROVE  AuthHasRow' /\ LateIsOvertaken'
<1>1. /\ auth' = [auth EXCEPT ![c] = [cred |-> k, at |-> "device"]]
      /\ UNCHANGED <<accountVars, hubVars, overtaken>>
      /\ cred[k] # None /\ ~cred[k].revoked
  BY DEF LookupDeviceCredential, GoesTo, Presents
<1>2. auth'[c].cred = k /\ \A e \in Conns \ {c} : auth'[e] = auth[e]
  BY <1>1 DEF AccessInv, AccessTypeOK
<1>3. device[cred[k].device].status = "active"
  BY <1>1 DEF AccessInv, AccountsInv, RevokedHoldsNothing, OwnsActive, Live
<1>4. UNCHANGED <<device, cred, connDevice>>
  BY <1>1 DEF accountVars, hubVars
<1>5. AuthHasRow'
  BY <1>1, <1>2, <1>4 DEF AccessInv, AuthHasRow, CredOf
<1>6. LateIsOvertaken'
  BY <1>1, <1>2, <1>3, <1>4 DEF AccessInv, LateIsOvertaken, CredOf, Connected
<1> QED BY <1>5, <1>6

\* The commit of a revocation takes note of who is on the way.
LEMMA RevokeNotes ==
  ASSUME AccessInv, RowsStay, NEW u \in Users, NEW d \in Managed, RevokeCommits(u, d)
  PROVE  AuthHasRow' /\ LateIsOvertaken'
<1> SUFFICES ASSUME NEW c \in Conns, auth'[c].at \in UnderWay
             PROVE  /\ auth'[c].cred \in Creds /\ cred'[auth'[c].cred] # None
                    /\ ~Connected(c)'
                       /\ device'[cred'[auth'[c].cred].device].status = "revoked"
                       => c \in overtaken'
  BY DEF AuthHasRow, LateIsOvertaken, CredOf
<1>1. /\ UNCHANGED <<hubVars, auth>> /\ overtaken' = overtaken \cup Arriving(d)
      /\ device' = [device EXCEPT ![d].status = "revoked"]
  BY DEF RevokeCommits, RevokeDevice
<1>2. /\ auth[c].at \in UnderWay /\ auth[c].cred \in Creds /\ cred[auth[c].cred] # None
      /\ cred'[auth[c].cred] # None
      /\ cred'[auth[c].cred].device = cred[auth[c].cred].device
      /\ cred[auth[c].cred].device \in Devices
  BY <1>1, RowShape DEF AccessInv, AccountsInv, AuthHasRow, CredOf, RowsStay
<1>3. ASSUME ~Connected(c)', device'[cred'[auth[c].cred].device].status = "revoked"
      PROVE  c \in overtaken'
  <2>1. ~Connected(c)
    BY <1>1, <1>3 DEF Connected, hubVars
  <2>2. CASE CredOf(c).device = d
    BY <1>1, <1>2, <2>1, <2>2 DEF Arriving, UnderWay
  <2>3. CASE CredOf(c).device # d
    <3>1. device[CredOf(c).device].status = "revoked"
      BY <1>1, <1>2, <1>3, <2>3 DEF CredOf, AccessInv, AccountsInv, AccountsTypeOK
    <3> QED BY <1>1, <1>2, <2>1, <3>1 DEF AccessInv, LateIsOvertaken
  <2> QED BY <2>2, <2>3
<1> QED BY <1>1, <1>2, <1>3

-----------------------------------------------------------------------------
(* The connections of revoked devices *)

\* A step that registers nobody, and neither revokes a device nor ends the
\* handler that did.
LEMMA OfflineKept ==
  ASSUME AccessInv, closed \subseteq closed', overtaken \subseteq overtaken',
         \A d \in Devices : registry'[d] \in {registry[d], None},
         \A d \in Devices :
             device'[d].status = "revoked" /\ d \notin owed' /\ registry'[d] # None =>
                 device[d].status = "revoked" /\ d \notin owed
  PROVE  RevokedIsOffline'
BY DEF AccessInv, RevokedIsOffline

\* Only Register enters a connection.
LEMMA RegistryShrinks ==
  ASSUME HubTypeOK, HubMove, NEW d \in Devices,
         ~\E c \in Conns, e \in Devices : Connect(c, e)
  PROVE  registry'[d] \in {registry[d], None}
<1>1. CASE \E c \in Conns : Leave(c)
  BY <1>1 DEF Leave, HubTypeOK
<1>2. CASE \E e \in Devices : Disconnect(e)
  BY <1>2 DEF Disconnect, HubTypeOK
<1> QED BY <1>1, <1>2 DEF HubMove, hubVars, Start, FinishDisconnect, ReadFails, CloseConn

LEMMA AccessStep ==
  ASSUME AccessInv, [AccessNext]_accessVars
  PROVE  AccessInv'
<1>0. HubTypeOK /\ FiledUnderDevice /\ AccountsInv /\ DevicesHaveRows
  BY DEF AccessInv, AccessTypeOK
<1>1. HubMove /\ AccountMove
  BY AccessMoves
<1>2. /\ HubTypeOK' /\ FiledUnderDevice' /\ closed \subseteq closed'
      /\ \A c \in Conns : Connected(c) => connDevice'[c] = connDevice[c]
  BY <1>0, <1>1, HubMoveKeeps
<1>3. AccountsInv' /\ DevicesHaveRows' /\ RowsStay
  BY <1>0, <1>1, AccountMoveKeeps
<1>4. AccessTypeOK'
  BY <1>2, <1>3, HandlerTypes DEF AccessTypeOK, AccountsInv
<1>5. auth \in [Conns -> [cred : Creds \cup {None}, at : AuthStates]] /\ overtaken \subseteq Conns
  BY DEF AccessInv, AccessTypeOK
<1> DEFINE Rest == AuthHasRow' /\ LateIsOvertaken' /\ RevokedIsOffline'
\* A handler or a connection that leaves the authentications alone.
<1>6. ASSUME UNCHANGED <<auth, overtaken>>, owed \subseteq owed',
             ~\E c \in Conns, d \in Devices : Connect(c, d),
             \A d \in Devices : device'[d].status = "revoked" => device[d].status = "revoked"
      PROVE  Rest
  <2>1. AuthHasRow' /\ LateIsOvertaken'
    BY <1>2, <1>3, <1>6, ArrivalsKept
  <2>2. \A d \in Devices : registry'[d] \in {registry[d], None}
    BY <1>0, <1>1, <1>6, RegistryShrinks
  <2> QED BY <1>2, <1>6, <2>1, <2>2, OfflineKept
\* A step of the authentication of c.
<1>7. ASSUME NEW c \in Conns, Authenticates(c)
      PROVE  Rest
  <2>1. UNCHANGED <<device, owed, overtaken, registry>>
    BY <1>7 DEF Authenticates, LookupDeviceCredential, Refuse, DeviceOwnedAndActive, Authorize,
       HasActiveDeviceBinding, Accept, GoesTo, CloseConn, accountVars, hubVars
  <2>2. RevokedIsOffline'
    BY <1>2, <2>1, OfflineKept
  <2>3. CASE \E k \in Creds : LookupDeviceCredential(c, k)
    BY <2>2, <2>3, LookupArrives
  <2>4. ASSUME \A e \in Conns : auth'[e].at \in UnderWay =>
                   auth[e].at \in UnderWay /\ auth'[e].cred = auth[e].cred
        PROVE  Rest
    BY <1>2, <1>3, <2>1, <2>2, <2>4, ArrivalsKept
  <2>5. ASSUME NEW l, auth[c].at \in UnderWay, GoesTo(c, auth[c].cred, l)
        PROVE  Rest
    BY <1>5, <2>4, <2>5 DEF GoesTo
  <2>6. CASE DeviceOwnedAndActive(c)
    BY <2>5, <2>6 DEF DeviceOwnedAndActive, UnderWay
  <2>7. CASE Authorize(c)
    BY <2>5, <2>7 DEF Authorize, Accept, UnderWay
  <2>8. CASE HasActiveDeviceBinding(c)
    BY <2>5, <2>8 DEF HasActiveDeviceBinding, Accept, UnderWay
  <2>9. ASSUME NEW k \in Creds, Refuse(c, k)
        PROVE  Rest
    <3>1. auth'[c].at \notin UnderWay /\ \A e \in Conns \ {c} : auth'[e] = auth[e]
      BY <1>5, <2>9 DEF Refuse, UnderWay
    <3> QED BY <2>4, <3>1
  <2> QED BY <1>7, <2>3, <2>6, <2>7, <2>8, <2>9 DEF Authenticates
<1>8. ASSUME NEW c \in Conns, Register(c)
      PROVE  Rest
  <2> DEFINE d == CredOf(c).device
  <2>1. /\ Connect(c, d) /\ auth[c].at = "admitted"
        /\ auth' = [auth EXCEPT ![c].at = "idle"]
        /\ UNCHANGED <<device, owed, overtaken>>
    BY <1>8 DEF Register, accountVars
  <2>2. \A e \in Conns : auth'[e].at \in UnderWay =>
            auth[e].at \in UnderWay /\ auth'[e].cred = auth[e].cred
    BY <1>5, <2>1 DEF UnderWay
  <2>3. AuthHasRow' /\ LateIsOvertaken'
    BY <1>2, <1>3, <2>1, <2>2, ArrivalsKept
  <2>4. device[d].status = "revoked" => c \in overtaken
    BY <2>1 DEF AccessInv, LateIsOvertaken, UnderWay, Connect
  <2>5. \A e \in Devices : registry'[e] = IF e = d THEN c ELSE registry[e]
    BY <1>0, <2>1 DEF Connect, HubTypeOK
  <2>6. RevokedIsOffline'
    BY <1>2, <2>1, <2>4, <2>5 DEF AccessInv, RevokedIsOffline
  <2> QED BY <2>3, <2>6
<1>9. ASSUME NEW c \in Conns, Leaves(c)
      PROVE  Rest
  <2>1. /\ Leave(c) /\ overtaken' = overtaken \ {c} /\ UNCHANGED <<device, owed, closed, connDevice>>
        /\ auth' = [auth EXCEPT ![c] = [cred |-> None, at |-> "idle"]]
    BY <1>9 DEF Leaves, Leave, accountVars
  <2>2. \A e \in Conns : auth'[e].at \in UnderWay => e # c /\ auth'[e] = auth[e]
    BY <1>5, <2>1 DEF UnderWay
  <2>3. AuthHasRow' /\ LateIsOvertaken'
    <3>1. \A e \in Conns : e # c => (e \in overtaken <=> e \in overtaken')
      BY <2>1
    <3>2. AuthHasRow'
      BY <1>3, <2>1, <2>2 DEF AccessInv, AuthHasRow, CredOf, RowsStay
    <3>3. cred' = cred
      BY <1>9 DEF Leaves, accountVars
    <3>4. LateIsOvertaken'
      BY <2>1, <2>2, <3>1, <3>3 DEF AccessInv, LateIsOvertaken, CredOf, Connected
    <3> QED BY <3>2, <3>4
  <2>4. \A e \in Devices : /\ registry'[e] \in {registry[e], None}
                           /\ registry'[e] # c \/ registry'[e] = None
    BY <1>0, <2>1, HubAssumption DEF Leave, HubTypeOK, FiledUnderDevice
  <2>5. RevokedIsOffline'
    BY <2>1, <2>4 DEF AccessInv, RevokedIsOffline
  <2> QED BY <2>3, <2>5
<1>10. ASSUME NEW u \in Users, NEW d \in Managed, RevokeCommits(u, d)
       PROVE  Rest
  <2>1. AuthHasRow' /\ LateIsOvertaken'
    BY <1>3, <1>10, RevokeNotes
  <2>2. /\ UNCHANGED <<registry, closed>> /\ owed' = owed \cup {d} /\ overtaken \subseteq overtaken'
        /\ device' = [device EXCEPT ![d].status = "revoked"]
    BY <1>10 DEF RevokeCommits, RevokeDevice, hubVars
  <2>3. \A e \in Devices : e \notin owed' => device'[e] = device[e] /\ e \notin owed
    BY <1>0, <2>2 DEF AccountsInv, AccountsTypeOK
  <2>4. RevokedIsOffline'
    BY <2>2, <2>3, OfflineKept
  <2> QED BY <2>1, <2>4
<1>11. ASSUME NEW d \in Devices, RevokeDisconnects(d)
       PROVE  Rest
  <2>1. /\ DisconnectDevice(d) /\ owed' = owed \ {d} /\ UNCHANGED <<device, auth, overtaken>>
    BY <1>11 DEF RevokeDisconnects, accountVars
  <2>2. AuthHasRow' /\ LateIsOvertaken'
    BY <1>2, <1>3, <2>1, ArrivalsKept
  <2>3. registry'[d] = None /\ \A e \in Devices : registry'[e] \in {registry[e], None}
    BY <1>0, <2>1, Disconnecting
  <2>4. RevokedIsOffline'
    BY <1>2, <2>1, <2>3, OfflineKept
  <2> QED BY <2>2, <2>4
<1>12. ASSUME \/ \E d \in Devices : RecoverDisconnects(d)
              \/ \E old, new \in Devices : TransferChecks(old, new)
              \/ TransferDisconnects \/ TransferCommits \/ TransferReturns
              \/ \E u \in Users : RecoverReads(u)
              \/ RecoverCommits \/ ConnectionSteps \/ UNCHANGED accessVars
       PROVE  Rest
  <2>1. UNCHANGED <<auth, overtaken, owed, device>>
    BY <1>12 DEF RecoverDisconnects, TransferChecks, TransferDisconnects, TransferCommits,
       TransferDevice, TransferReturns, RecoverReads, RecoverCommits, RecoverIdentity,
       ConnectionSteps, accessVars, accountVars
  <2>2. ~\E c \in Conns, d \in Devices : Connect(c, d)
    <3>1. \/ connDevice' = connDevice
      BY <1>12 DEF RecoverDisconnects, TransferChecks, TransferDisconnects, TransferCommits,
         TransferReturns, RecoverReads, RecoverCommits, ConnectionSteps, accessVars, hubVars,
         DisconnectDevice, Disconnect, Start, FinishDisconnect, ReadFails
    <3> QED BY <1>0, <3>1, IdsAssumption DEF Connect, Connected, HubTypeOK
  <2> QED BY <1>6, <2>1, <2>2
<1>13. ASSUME AccountChanges
       PROVE  Rest
  <2>1. UNCHANGED <<auth, overtaken, owed, connDevice>>
    BY <1>13 DEF AccountChanges, hubVars
  <2>2. ~\E c \in Conns, d \in Devices : Connect(c, d)
    BY <1>0, <2>1, IdsAssumption DEF Connect, Connected, HubTypeOK
  <2>3. \A d \in Devices : device'[d].status = "revoked" => device[d].status = "revoked"
    BY <1>0, <1>13, ChangesRevokeNone
  <2> QED BY <1>6, <2>1, <2>2, <2>3
<1>14. Rest
  BY <1>7, <1>8, <1>9, <1>10, <1>11, <1>12, <1>13 DEF AccessNext
<1> QED BY <1>2, <1>3, <1>4, <1>14 DEF AccessInv

\* The inductive invariant of the handlers, the authentications and the live
\* connections holds in every reachable state.
THEOREM AccessInvHolds == AccessSpec => []AccessInv
BY AccessInitInv, AccessStep, PTL DEF AccessSpec

\* Accounts, connections and the state of every handler keep their types.
THEOREM AccessTypesHold == AccessSpec => []AccessTypeOK
BY AccessInvHolds, PTL DEF AccessInv

\* When the revoke handler (api.go, revokeDevice) has returned, the registry has
\* no open connection of the revoked device, but for one whose authentication
\* was under way when the revocation was committed.
THEOREM RevokedIsOfflineHolds == AccessSpec => []RevokedIsOffline
BY AccessInvHolds, PTL DEF AccessInv

\* What holds of the accounts while devices pair holds while they connect too:
\* a device has at most one live credential and a revoked one has none.
THEOREM CredentialsHoldWhileConnected == AccessSpec => []CredentialsHold
<1>1. AccessInv => CredentialsHold
  BY DEF AccessInv, AccountsInv, CredentialsHold
<1> QED BY <1>1, AccessInvHolds, PTL

=============================================================================
