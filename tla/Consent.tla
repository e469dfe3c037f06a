------------------------------- MODULE Consent -------------------------------
(***************************************************************************)
(* The authorize endpoint and its consent: internal/mcpoauth authorize.go, *)
(* consent.go and registration.go over the client, grant, consent and code *)
(* rows of internal/mysqlstore oauth_store.go, and the dashboard's         *)
(* SetConnectorTarget, which moves a grant to another target.              *)
(*                                                                         *)
(* A grant is the approval of a client for a device, with the Studio and   *)
(* the scopes approved last; a web session remembers which grant it        *)
(* approved for a client, and may then have codes without being asked.     *)
(* Every handler reads first, and what it read is checked again in the     *)
(* transaction that inserts the code.  Other people change the account     *)
(* between the two.                                                        *)
(***************************************************************************)
EXTENDS SignIn

CONSTANTS Clients, Devices, Studios,
          Scopes,        \* scope packages a client may ask for
          Grants,        \* grant ids
          Codes,         \* authorization codes, each drawn once
          Authorizers    \* authorize requests in flight at a time

ASSUME ConsentAssumption ==
    None \notin Clients \cup Devices \cup Studios \cup Scopes \cup Grants

VARIABLES
    registered,    \* rows of oauth_clients
    eligible,      \* targets a code may be issued for: the device is owned and
                   \* active, the Studio session active and bound to it, and
                   \* the account's entitlement permits MCP
    grant,         \* rows of oauth_grants
    grantRevoked,  \* grants whose revoked_at is set
    consent,       \* rows of the session consents
    code,          \* rows of oauth_authorization_codes
    authorize      \* what an authorize request holds in its local variables

consentVars == <<registered, eligible, grant, grantRevoked,
                 consent, code, authorize>>

Targets == Devices \X Studios
GrantRows == [client : Clients, device : Devices, studio : Studios \cup {None},
              scopes : Scopes]
ConsentRows == [grant : Grants, scopes : Scopes]
Authorizing == [at : {"remembered", "approved"}, session : Sessions,
                row : GrantRows, grant : Grants \cup {None}]

\* The absence of a row is not a row.
ASSUME ConsentRowAssumption ==
    None \notin GrantRows \cup ConsentRows \cup Authorizing

ConsentTypeOK ==
    /\ registered \subseteq Clients
    /\ eligible \subseteq Targets
    /\ grant \in [Grants -> GrantRows \cup {None}]
    /\ grantRevoked \subseteq Grants
    /\ consent \in [Sessions -> [Clients -> ConsentRows \cup {None}]]
    /\ code \in [Codes -> GrantRows \cup {None}]
    /\ authorize \in [Authorizers -> Authorizing \cup {None}]

ConsentInit ==
    /\ registered = {}
    /\ eligible \in SUBSET Targets
    /\ grant = [g \in Grants |-> None]
    /\ grantRevoked = {}
    /\ consent = [s \in Sessions |-> [c \in Clients |-> None]]
    /\ code = [k \in Codes |-> None]
    /\ authorize = [a \in Authorizers |-> None]

Live(g) == grant[g] # None /\ g \notin grantRevoked

\* The grant of a client for a device, revoked or not: at most one, by the
\* unique key of oauth_grants.
GrantsByOwner(c, d) ==
    {g \in Grants : grant[g] # None /\ grant[g].client = c /\ grant[g].device = d}

-----------------------------------------------------------------------------
(* The account *)

\* Devices are revoked and restored, Studios come and go, trials end and are
\* extended.
AccountChanges ==
    /\ eligible' \in SUBSET Targets
    /\ UNCHANGED <<signInVars, registered, grant, grantRevoked, consent, code, authorize>>

\* Dynamic registration of a client.
RegisterClient(c) ==
    /\ c \notin registered
    /\ registered' = registered \cup {c}
    /\ UNCHANGED <<signInVars, eligible, grant, grantRevoked, consent, code, authorize>>

\* The user repoints a live grant at an owned device, active or not, and at an
\* owned Studio, bound to that device or not, or at none.
SetConnectorTarget(g, d, st) ==
    /\ \E s \in Sessions : SignedIn(s)
    /\ Live(g)
    /\ GrantsByOwner(grant[g].client, d) \subseteq {g}
    /\ grant' = [grant EXCEPT ![g].device = d, ![g].studio = st]
    /\ UNCHANGED <<signInVars, registered, eligible, grantRevoked, consent, code, authorize>>

-----------------------------------------------------------------------------
(* The authorize endpoint *)

\* mcpLockDevice, mcpLockStudioSession and mcpEntitlementPermitsInTx: a grant
\* without a Studio is eligible for nothing.
Eligible(row) == <<row.device, row.studio>> \in eligible

\* The grant is live and says what the request asks for.
GrantMatches(g, row) == Live(g) /\ grant[g] = row

\* The session remembers a grant for this client and these scopes: the request
\* goes on with what it read of the grant.
AuthorizeRemembered(a, s, c, scopes) ==
    /\ authorize[a] = None
    /\ SignedIn(s)
    /\ c \in registered
    /\ consent[s][c] # None
    /\ consent[s][c].scopes = scopes
    /\ LET g == consent[s][c].grant IN
          /\ Live(g)
          /\ grant[g].client = c
          /\ grant[g].scopes = scopes
          /\ grant[g].studio # None
          /\ authorize' = [authorize EXCEPT ![a] =
                [at |-> "remembered", session |-> s, row |-> grant[g], grant |-> g]]
    /\ UNCHANGED <<signInVars, registered, eligible, grant, grantRevoked, consent, code>>

At(a, step) == authorize[a] # None /\ authorize[a].at = step

\* The session still remembers the grant it did when the request was read.
ConsentUnchanged(r) ==
    consent[r.session][r.row.client] = [grant |-> r.grant, scopes |-> r.row.scopes]

\* Mutant: what was read before the transaction is not read again.
RememberedStands_Stale(r) == Validate(r.session)

\* What issueRememberedCodeTx checks again under its row locks.
RememberedStands(r) ==
    /\ Validate(r.session)
    /\ ConsentUnchanged(r)
    /\ GrantMatches(r.grant, r.row)
    /\ Eligible(r.row)

\* The transaction inserts the code and changes nothing else.
IssueRememberedCode(a, k) ==
    /\ At(a, "remembered")
    /\ code[k] = None
    /\ RememberedStands(authorize[a])
    /\ code' = [code EXCEPT ![k] = authorize[a].row]
    /\ authorize' = [authorize EXCEPT ![a] = None]
    /\ UNCHANGED <<signInVars, registered, eligible, grant, grantRevoked, consent>>

\* The user approves on the consent page: the checks before the transaction,
\* which only produce an early denial.
ApproveConsent(a, s, row) ==
    /\ authorize[a] = None
    /\ SignedIn(s)
    /\ row.client \in registered
    /\ Eligible(row)
    /\ authorize' = [authorize EXCEPT ![a] =
                       [at |-> "approved", session |-> s, row |-> row, grant |-> None]]
    /\ UNCHANGED <<signInVars, registered, eligible, grant, grantRevoked, consent, code>>

\* The rows the upsert of a grant may write: the one of this client and device,
\* else a new one.
UpsertGrants(row) ==
    IF GrantsByOwner(row.client, row.device) # {}
    THEN GrantsByOwner(row.client, row.device)
    ELSE {g \in Grants : grant[g] = None}

\* What recordApprovalTx checks again under its row locks.
ApprovalStands(r) == Validate(r.session) /\ Eligible(r.row)

\* mcpSaveSessionConsentInTx: the session's consent for a client is replaced.
Remembers(r, g) ==
    consent' = [consent EXCEPT ![r.session][r.row.client] =
                  [grant |-> g, scopes |-> r.row.scopes]]

\* The approval: grant (no longer revoked), session consent, audit event and
\* code in one transaction.
RecordApproval(a, k, g) ==
    /\ At(a, "approved")
    /\ code[k] = None
    /\ ApprovalStands(authorize[a])
    /\ LET r == authorize[a] IN
          /\ g \in UpsertGrants(r.row)
          /\ grant' = [grant EXCEPT ![g] = r.row]
          /\ grantRevoked' = grantRevoked \ {g}
          /\ Remembers(r, g)
          /\ code' = [code EXCEPT ![k] = r.row]
    /\ authorize' = [authorize EXCEPT ![a] = None]
    /\ UNCHANGED <<signInVars, registered, eligible>>

\* Nothing that was checked stands any more, or a statement fails or the
\* browser goes away: the transaction rolls back as a whole.
AuthorizeEnds(a) ==
    /\ authorize[a] # None
    /\ authorize' = [authorize EXCEPT ![a] = None]
    /\ UNCHANGED <<signInVars, registered, eligible, grant, grantRevoked, consent, code>>

ConsentNext ==
    \/ AccountChanges
    \/ \E c \in Clients : RegisterClient(c)
    \/ \E g \in Grants, d \in Devices, st \in Studios \cup {None} :
          SetConnectorTarget(g, d, st)
    \/ \E a \in Authorizers :
          \/ \E s \in Sessions :
                \/ \E c \in Clients, scopes \in Scopes :
                      AuthorizeRemembered(a, s, c, scopes)
                \/ \E row \in GrantRows : ApproveConsent(a, s, row)
          \/ \E k \in Codes :
                \/ IssueRememberedCode(a, k)
                \/ \E g \in Grants : RecordApproval(a, k, g)
          \/ AuthorizeEnds(a)

-----------------------------------------------------------------------------
(* Properties *)

\* A code is inserted only while the session it was asked in is valid, its
\* target is eligible, and a live grant says exactly what the code says and is
\* the one this session remembers: whatever a logout, a revocation, another
\* approval or a new target did since the request was read.
NewCodeIsBacked ==
    [][\A k \in Codes : (code[k] = None /\ code'[k] # None) =>
          /\ Eligible(code'[k])
          /\ \E s \in Sessions, g \in Grants :
                /\ Validate(s)
                /\ grant'[g] = code'[k]
                /\ g \notin grantRevoked'
                /\ consent'[s][code'[k].client] =
                      [grant |-> g, scopes |-> code'[k].scopes]
      ]_<<signInVars, consentVars>>
=============================================================================
