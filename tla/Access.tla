------------------------------- MODULE Access --------------------------------
(***************************************************************************)
(* Who may hold a live Bridge connection: internal/bridgehub auth.go and   *)
(* the reauthentication of handler.go against the accounts of module       *)
(* Accounts, and the handlers of internal/httpserver api.go and admin.go   *)
(* that change an account and close its connections in module Hub.         *)
(*                                                                         *)
(* A Bridge is authenticated by a sequence of reads before its connection  *)
(* is registered, and again by the same reads every ReauthInterval while   *)
(* it lives; a handler commits a transaction and disconnects a device in   *)
(* two steps.  Every read, transaction and disconnect is a step of its     *)
(* own.  Envelopes play no part: Downlink and Uplink are empty.  A bound   *)
(* of the model: the administrator works on one case at a time.            *)
(***************************************************************************)
EXTENDS Accounts, Hub

CONSTANTS Owner,      \* the owner of each device that was paired or provisioned
          FirstCred,  \* the credential a device was given, None for a row that
                      \* was provisioned without one
          Slots,      \* the devices that occupy a license slot at first
          Managed     \* bound of the model: devices that are revoked, restored
                      \* or given a new credential

ASSUME AccessAssumption ==
    /\ Owner \in [Devices -> Users]
    /\ FirstCred \in [Devices -> Creds \cup {None}]
    /\ \A d, e \in Devices : FirstCred[d] = FirstCred[e] /\ FirstCred[d] # None => d = e
    /\ Managed \subseteq Devices
    /\ Slots \subseteq {d \in Devices : Owner[d] \in Licensed}

VARIABLES
    auth,      \* the authentication a connection is going through: the
               \* credential it presented and the next read
    owed,      \* devices revoked by a handler that has yet to disconnect them
    transfer,  \* the administrator's transfer case, None when there is none
    recovery,  \* the administrator's recovery case with the devices it has
               \* yet to disconnect, None when there is none
    overtaken  \* history: connections whose authentication was under way when
               \* their device was revoked

accessVars == <<accountVars, hubVars, auth, owed, transfer, recovery, overtaken>>

AuthStates == {"idle", "device", "entitlement", "binding", "admitted", "refused"}
Cases == [old : Devices, new : Devices, at : {"checked", "disconnected", "done"}]

AccessTypeOK ==
    /\ AccountsTypeOK
    /\ HubTypeOK
    /\ auth \in [Conns -> [cred : Creds \cup {None}, at : AuthStates]]
    /\ owed \subseteq Devices
    /\ transfer \in Cases \cup {None}
    /\ recovery \in [user : Users, left : SUBSET Devices] \cup {None}
    /\ overtaken \subseteq Conns

\* Every device is active and was given at most one credential; nobody is
\* connected.
AccessInit ==
    /\ HubInit
    /\ device = [d \in Devices |->
                   [owner |-> Owner[d], status |-> "active", fp |-> None]]
    /\ cred = [k \in Creds |->
                 IF \E d \in Devices : FirstCred[d] = k
                 THEN LET d == CHOOSE e \in Devices : FirstCred[e] = k
                      IN [user |-> Owner[d], device |-> d, revoked |-> FALSE]
                 ELSE None]
    /\ trial \in [Users -> {"active", "expired"}]
    /\ bound = Slots
    /\ auth = [c \in Conns |-> [cred |-> None, at |-> "idle"]]
    /\ owed = {}
    /\ transfer = None
    /\ recovery = None
    /\ overtaken = {}

-----------------------------------------------------------------------------
(* Authentication: Authenticator.AuthenticateDigest *)

CredOf(c) == cred[auth[c].cred]
Open(c) == Connected(c) /\ c \notin closed

\* A request presents a credential, or the reauthentication ticker of an open
\* connection fires.
Presents(c, k) ==
    /\ auth[c].at = "idle"
    /\ cred[k] # None
    /\ IF Connected(c) THEN Open(c) /\ auth[c].cred = k
                       ELSE auth[c].cred = None

\* A read that lets the authentication go on; the reads of a closed connection
\* fail, its context is cancelled.
GoesTo(c, k, label) ==
    /\ c \notin closed
    /\ auth' = [auth EXCEPT ![c] = [cred |-> k, at |-> label]]
    /\ UNCHANGED <<accountVars, hubVars, owed, transfer, recovery, overtaken>>

\* A live connection goes back to waiting for the ticker, a new one is let in.
Accept(c) == GoesTo(c, auth[c].cred, IF Connected(c) THEN "idle" ELSE "admitted")

LookupDeviceCredential(c, k) ==
    Presents(c, k) /\ ~cred[k].revoked /\ GoesTo(c, k, "device")

DeviceOwnedAndActive(c) ==
    /\ auth[c].at = "device"
    /\ OwnsActive(CredOf(c).user, CredOf(c).device)
    /\ GoesTo(c, auth[c].cred, "entitlement")

\* Service.Authorize: an active trial is enough, a license alone needs a slot.
Authorize(c) ==
    /\ auth[c].at = "entitlement"
    /\ \/ trial[CredOf(c).user] = "active" /\ Accept(c)
       \/ /\ trial[CredOf(c).user] # "active"
          /\ CredOf(c).user \in Licensed
          /\ GoesTo(c, auth[c].cred, "binding")

\* Mutant: a license alone is enough.
HasActiveDeviceBinding_Any(c) ==
    auth[c].at = "binding" /\ Accept(c)

HasActiveDeviceBinding(c) ==
    auth[c].at = "binding" /\ CredOf(c).device \in bound /\ Accept(c)

\* A read refuses, or the database does not answer, which counts as a refusal:
\* a request is answered 401, a live connection is closed.
Refuse(c, k) ==
    /\ \/ Presents(c, k)
       \/ auth[c].at \in {"device", "entitlement", "binding"} /\ auth[c].cred = k
    /\ auth' = [auth EXCEPT ![c] =
                  IF Connected(c) THEN [cred |-> k, at |-> "idle"]
                                  ELSE [cred |-> None, at |-> "refused"]]
    /\ IF Connected(c) THEN CloseConn(c) ELSE UNCHANGED hubVars
    /\ UNCHANGED <<accountVars, owed, transfer, recovery, overtaken>>

Authenticates(c) ==
    \/ \E k \in Creds : LookupDeviceCredential(c, k) \/ Refuse(c, k)
    \/ DeviceOwnedAndActive(c) \/ Authorize(c) \/ HasActiveDeviceBinding(c)

\* The rest of ServeHTTP accepts the socket and registers it.
Register(c) ==
    /\ auth[c].at = "admitted"
    /\ Connect(c, CredOf(c).device)
    /\ auth' = [auth EXCEPT ![c].at = "idle"]
    /\ UNCHANGED <<accountVars, owed, transfer, recovery, overtaken>>

-----------------------------------------------------------------------------
(* The handlers of the owner and of the administrator *)

\* Registry.Disconnect, which does nothing for a device that is offline.
DisconnectDevice(d) ==
    IF registry[d] = None THEN UNCHANGED hubVars ELSE Disconnect(d)

\* Connections that are being authenticated for d.
Arriving(d) ==
    {c \in Conns : /\ ~Connected(c)
                   /\ auth[c].at \notin {"idle", "refused"}
                   /\ CredOf(c).device = d}

\* Mutant: revokeDevice leaves the live connection to the reauthentication.
RevokeCommits_Only(u, d) ==
    /\ RevokeDevice(u, d)
    /\ overtaken' = overtaken \cup Arriving(d)
    /\ UNCHANGED <<hubVars, auth, owed, transfer, recovery>>

\* dashboardAPI.revokeDevice commits first ...
RevokeCommits(u, d) ==
    /\ RevokeDevice(u, d)
    /\ owed' = owed \cup {d}
    /\ overtaken' = overtaken \cup Arriving(d)
    /\ UNCHANGED <<hubVars, auth, transfer, recovery>>

\* ... and disconnects then.
RevokeDisconnects(d) ==
    /\ d \in owed
    /\ DisconnectDevice(d)
    /\ owed' = owed \ {d}
    /\ UNCHANGED <<accountVars, auth, transfer, recovery, overtaken>>

\* adminAPI.transfer reads the account: an active license, two active devices
\* of its owner and the state the administrator has seen.
TransferChecks(old, new) ==
    /\ transfer = None /\ recovery = None
    /\ old # new
    /\ \E u \in Licensed : OwnsActive(u, old) /\ OwnsActive(u, new)
    /\ transfer' = [old |-> old, new |-> new, at |-> "checked"]
    /\ UNCHANGED <<accountVars, hubVars, auth, owed, recovery, overtaken>>

\* It closes the connection of the old device before the slot moves.
TransferDisconnects ==
    /\ transfer # None /\ transfer.at = "checked"
    /\ DisconnectDevice(transfer.old)
    /\ transfer' = [transfer EXCEPT !.at = "disconnected"]
    /\ UNCHANGED <<accountVars, auth, owed, recovery, overtaken>>

TransferCommits ==
    /\ transfer # None /\ transfer.at = "disconnected"
    /\ TransferDevice(transfer.old, transfer.new)
    /\ transfer' = [transfer EXCEPT !.at = "done"]
    /\ UNCHANGED <<hubVars, auth, owed, recovery, overtaken>>

\* The handler returns, after the commit or because the transaction failed.
TransferReturns ==
    /\ transfer # None /\ transfer.at \in {"disconnected", "done"}
    /\ transfer' = None
    /\ UNCHANGED <<accountVars, hubVars, auth, owed, recovery, overtaken>>

\* adminAPI.recover disconnects every device of the account it has read ...
RecoverReads(u) ==
    /\ transfer = None /\ recovery = None
    /\ recovery' = [user |-> u, left |-> {d \in Devices : Owns(u, d)}]
    /\ UNCHANGED <<accountVars, hubVars, auth, owed, transfer, overtaken>>

RecoverDisconnects(d) ==
    /\ recovery # None /\ d \in recovery.left
    /\ DisconnectDevice(d)
    /\ recovery' = [recovery EXCEPT !.left = @ \ {d}]
    /\ UNCHANGED <<accountVars, auth, owed, transfer, overtaken>>

\* ... and revokes the credentials then, unless an earlier step failed.
RecoverCommits ==
    /\ recovery # None /\ recovery.left = {}
    /\ RecoverIdentity(recovery.user) \/ UNCHANGED accountVars
    /\ recovery' = None
    /\ UNCHANGED <<hubVars, auth, owed, transfer, overtaken>>

\* The handlers that only commit.  What they check before is checked again by
\* the transaction, or only narrows what they accept.
Rotates(u) == \E d \in Managed, k \in Creds : RotateDeviceCredential(u, d, k)
Restores(u) == \E d \in Managed : RestoreDevice(u, d)
Extends(u) == ExtendTrial(u)

\* One of them, or the clock.
AccountChanges ==
    /\ \E u \in Users : Rotates(u) \/ Restores(u) \/ Extends(u) \/ TrialEnds(u)
    /\ UNCHANGED <<hubVars, auth, owed, transfer, recovery, overtaken>>

\* What the connections do on their own, and adminAPI.disconnectDevice.
ConnectionSteps ==
    /\ \/ \E c \in Conns : Start(c) \/ FinishDisconnect(c) \/ ReadFails(c)
       \/ \E d \in Devices : Disconnect(d)
    /\ UNCHANGED <<accountVars, auth, owed, transfer, recovery, overtaken>>

\* The connection is over and its reauthentication loop with it.
Leaves(c) ==
    /\ Leave(c)
    /\ auth' = [auth EXCEPT ![c] = [cred |-> None, at |-> "idle"]]
    /\ overtaken' = overtaken \ {c}
    /\ UNCHANGED <<accountVars, owed, transfer, recovery>>

AccessNext ==
    \/ \E c \in Conns : Authenticates(c) \/ Register(c) \/ Leaves(c)
    \/ \E u \in Users, d \in Managed : RevokeCommits(u, d)
    \/ \E d \in Devices : RevokeDisconnects(d) \/ RecoverDisconnects(d)
    \/ \E old, new \in Devices : TransferChecks(old, new)
    \/ TransferDisconnects \/ TransferCommits \/ TransferReturns
    \/ \E u \in Users : RecoverReads(u)
    \/ RecoverCommits
    \/ AccountChanges
    \/ ConnectionSteps

\* The reauthentication ticker of a live connection fires and its reads return,
\* and the hub's goroutines run.  Nobody has to connect, administer or wait.
AccessFairness ==
    \A c \in Conns :
        /\ WF_accessVars(Connected(c) /\ Authenticates(c))
        /\ WF_accessVars(Start(c) /\ ConnectionSteps)
        /\ WF_accessVars(FinishDisconnect(c) /\ ConnectionSteps)

AccessSpec == AccessInit /\ [][AccessNext]_accessVars /\ AccessFairness

-----------------------------------------------------------------------------
(* Properties *)

\* The credential of c is good for a live connection in this state.
Permitted(c) ==
    /\ Live(auth[c].cred)
    /\ OwnsActive(CredOf(c).user, CredOf(c).device)
    /\ \/ trial[CredOf(c).user] = "active"
       \/ CredOf(c).user \in Licensed /\ CredOf(c).device \in bound

\* "revocation disconnects active bridges", and what ends a permission any other
\* way does so too: no connection stays open for good without it, although a
\* rotation disconnects nobody, a trial ends by itself, a slot moves, and a
\* connection may be registered after the handler has disconnected its device.
LostPermissionIsClosed ==
    \A c \in Conns : ~<>[](Open(c) /\ ~Permitted(c))

\* When the revoke handler has returned, the registry has no open connection of
\* the revoked device, but for one whose authentication was under way when the
\* revocation was committed.
RevokedIsOffline ==
    \A d \in Devices :
        LET c == registry[d] IN
          device[d].status = "revoked" /\ d \notin owed /\ c # None =>
            c \in closed \/ c \in overtaken
=============================================================================
