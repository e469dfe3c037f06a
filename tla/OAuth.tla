-------------------------------- MODULE OAuth --------------------------------
(***************************************************************************)
(* The token endpoint and every way a connector is revoked: internal/      *)
(* mcpoauth provider.go, the store fosite calls back into, over the code   *)
(* and token rows of internal/mysqlstore oauth_store.go; the dashboard's   *)
(* RevokeConnector and the administrator's account recovery.               *)
(*                                                                         *)
(* fosite (external) decides the order of the calls of a token request,    *)
(* and answers a used code or refresh token with two revocations.  Each    *)
(* call is one statement or one transaction of its own, so requests        *)
(* interleave between any two of them, and a request may be gone after any *)
(* of them.                                                                *)
(*                                                                         *)
(* An access token and the refresh token minted with it are one pair; the  *)
(* first pair of an exchange is the root and the name of its family.       *)
(***************************************************************************)
EXTENDS Consent

CONSTANTS Pairs,      \* access and refresh tokens minted together
          Requests    \* requests of clients in flight at a time

ASSUME OAuthAssumption == None \notin Codes \cup Pairs

VARIABLES
    consumed,        \* codes whose consumed_at is set
    pair,            \* rows of oauth_access_tokens and oauth_refresh_tokens
    used,            \* refresh tokens whose used_at is set
    refreshRevoked,  \* refresh tokens whose revoked_at is set
    accessRevoked,   \* access tokens whose revoked_at is set
    request,         \* what a token or revocation request holds
    recovering,      \* an administrator recovers the account
    toRevoke         \* the grants the recovery read and has yet to revoke

tokenVars == <<consumed, pair, used, refreshRevoked, accessRevoked>>
oauthVars == <<signInVars, consentVars, tokenVars, request, recovering, toRevoke>>

PairRows == [grant : Grants, family : Pairs, parent : Pairs \cup {None}, code : Codes]

\* The steps of a request, by the call it makes next.
Steps == {"consume", "read grant", "issue",
          "find grant", "revoke grant", "rotate", "revoke family"}
Held == [at : Steps, code : Codes \cup {None}, pair : Pairs \cup {None},
         grant : Grants \cup {None}]

\* The absence of a row is not a row.
ASSUME OAuthRowAssumption == None \notin PairRows \cup Held

OAuthTypeOK ==
    /\ SignInTypeOK
    /\ ConsentTypeOK
    /\ consumed \subseteq Codes
    /\ pair \in [Pairs -> PairRows \cup {None}]
    /\ used \subseteq Pairs
    /\ refreshRevoked \subseteq Pairs
    /\ accessRevoked \subseteq Pairs
    /\ request \in [Requests -> Held \cup {None}]
    /\ recovering \in BOOLEAN
    /\ toRevoke \subseteq Grants

OAuthInit ==
    /\ SignInInit
    /\ ConsentInit
    /\ consumed = {}
    /\ pair = [q \in Pairs |-> None]
    /\ used = {}
    /\ refreshRevoked = {}
    /\ accessRevoked = {}
    /\ request = [x \in Requests |-> None]
    /\ recovering = FALSE
    /\ toRevoke = {}

Minted == {q \in Pairs : pair[q] # None}
Family(q) == {r \in Minted : pair[r].family = pair[q].family}
Under(g) == {q \in Minted : pair[q].grant = g}

\* AccessTokenByDigest: what the gateway accepts of a token in time.
Usable(q) == q \in Minted \ accessRevoked /\ Live(pair[q].grant)

-----------------------------------------------------------------------------
(* Revocation, as transactions of the store *)

\* RevokeGrant: the grant with all of its tokens, whatever their family.
RevokeGrant(g) ==
    /\ grantRevoked' = grantRevoked \cup {g}
    /\ refreshRevoked' = refreshRevoked \cup Under(g)
    /\ accessRevoked' = accessRevoked \cup Under(g)
    /\ UNCHANGED <<consumed, pair, used>>

\* Mutant: the tokens that came of a rotation are left.
RevokeFamily_RootOnly(q) ==
    /\ grantRevoked' = grantRevoked \cup {pair[q].grant}
    /\ refreshRevoked' = refreshRevoked \cup {pair[q].family}
    /\ accessRevoked' = accessRevoked \cup Under(pair[q].grant)
    /\ UNCHANGED <<consumed, pair, used>>

\* oauthRevokeFamilyTx: the refresh tokens of the family, the access tokens of
\* the grant and the grant; refresh tokens of its other families are left.
RevokeFamily(q) ==
    /\ grantRevoked' = grantRevoked \cup {pair[q].grant}
    /\ refreshRevoked' = refreshRevoked \cup Family(q)
    /\ accessRevoked' = accessRevoked \cup Under(pair[q].grant)
    /\ UNCHANGED <<consumed, pair, used>>

\* What the revocations leave alone.
Elsewhere == <<signInVars, registered, eligible, grant, consent, code,
               authorize>>

-----------------------------------------------------------------------------
(* A token request for a code *)

Idle(x) == request[x] = None
Doing(x, step) == request[x] # None /\ request[x].at = step

\* The request goes on with another step, or is over.
Goes(x, step) == request' = [request EXCEPT ![x].at = step]
Over(x) == request' = [request EXCEPT ![x] = None]

Rest == <<signInVars, consentVars, tokenVars, recovering, toRevoke>>

\* The grant a code is exchanged under, looked up by the device the code names.
GrantOfCode(k) == GrantsByOwner(code[k].client, code[k].device)
Redeemable(k) == \E g \in GrantOfCode(k) : Live(g)

\* GetAuthorizeCodeSession, with the client, redirect and resource the code is
\* bound to: a used code makes fosite revoke what it bought.  fosite reads the
\* code a second time before it is consumed, which can only end the request; so
\* can the lifetime of an unused code, here and when it is consumed.
PresentCode(x, k) ==
    /\ Idle(x)
    /\ code[k] # None
    /\ Redeemable(k)
    /\ request' = [request EXCEPT ![x] =
          [at |-> IF k \in consumed THEN "find grant" ELSE "consume",
           code |-> k, pair |-> None, grant |-> None]]
    /\ UNCHANGED Rest

\* Mutant: the row lock of the consumption does not see the code's use.
ConsumeAuthorizationCode_Twice(x) ==
    /\ Doing(x, "consume")
    /\ Goes(x, "read grant")
    /\ consumed' = consumed \cup {request[x].code}
    /\ UNCHANGED <<signInVars, consentVars, pair, used, refreshRevoked,
                   accessRevoked, recovering, toRevoke>>

\* The single-use transaction; of two exchanges the later revokes.
ConsumeAuthorizationCode(x) ==
    /\ Doing(x, "consume")
    /\ LET k == request[x].code IN
          IF k \in consumed
          THEN Goes(x, "find grant") /\ UNCHANGED consumed
          ELSE Goes(x, "read grant") /\ consumed' = consumed \cup {k}
    /\ UNCHANGED <<signInVars, consentVars, pair, used, refreshRevoked,
                   accessRevoked, recovering, toRevoke>>

\* Mutant: the tokens are issued under whatever the failed look-up returned.
ReadGrant_ErrorIgnored(x) ==
    /\ Doing(x, "read grant")
    /\ request' = [request EXCEPT ![x].at = "issue", ![x].grant =
          IF Redeemable(request[x].code)
          THEN CHOOSE g \in GrantOfCode(request[x].code) : TRUE
          ELSE None]
    /\ UNCHANGED Rest

\* The grant is read without a lock, and the tokens are issued under it later.
ReadGrant(x) ==
    /\ Doing(x, "read grant")
    /\ IF Redeemable(request[x].code)
       THEN \E g \in GrantOfCode(request[x].code) :
               request' = [request EXCEPT ![x].at = "issue", ![x].grant = g]
       ELSE Over(x)
    /\ UNCHANGED Rest

\* A new pair is inserted; nothing of it is used or revoked.
Mint(q, row) == pair[q] = None /\ pair' = [pair EXCEPT ![q] = row]

\* IssueTokens: the root of a new family.
IssueTokens(x, q) ==
    /\ Doing(x, "issue")
    /\ Mint(q, [grant |-> request[x].grant, family |-> q, parent |-> None,
                code |-> request[x].code])
    /\ Over(x)
    /\ UNCHANGED <<signInVars, consentVars, consumed, used,
                   refreshRevoked, accessRevoked, recovering, toRevoke>>

\* revokeByRequestID for the id of a code: the grant its client has for its
\* device now, if there is one, is read without a lock and revoked later.
FindGrantOfCode(x) ==
    /\ Doing(x, "find grant")
    /\ \/ \E g \in GrantOfCode(request[x].code) :
             request' = [request EXCEPT ![x].at = "revoke grant", ![x].grant = g]
       \/ GrantOfCode(request[x].code) = {} /\ Over(x)
    /\ UNCHANGED Rest

\* fosite asks twice when it saw the code used, the consumption once: here any
\* request may ask again, as another replay of the code would.
RevokeByCode(x) ==
    /\ Doing(x, "revoke grant")
    /\ RevokeGrant(request[x].grant)
    /\ \/ Over(x)
       \/ request' = [request EXCEPT ![x].at = "find grant", ![x].grant = None]
    /\ UNCHANGED <<Elsewhere, recovering, toRevoke>>

-----------------------------------------------------------------------------
(* A token request for a refresh token, and the revocation endpoint *)

\* GetRefreshTokenSession in a token request.  It does not look at the grant's
\* revocation; a used or revoked token makes fosite revoke its family.
PresentRefresh(x, q) ==
    /\ Idle(x)
    /\ q \in Minted
    /\ request' = [request EXCEPT ![x] =
          [at |-> IF q \in used \cup refreshRevoked THEN "revoke family" ELSE "rotate",
           code |-> None, pair |-> q, grant |-> None]]
    /\ UNCHANGED Rest

\* Mutant: the rotation does not look whether the old token was used meanwhile.
RotateRefreshToken_Unlocked(x, n) ==
    /\ Doing(x, "rotate")
    /\ LET q == request[x].pair IN
          /\ q \notin refreshRevoked
          /\ used' = used \cup {q}
          /\ Mint(n, [pair[q] EXCEPT !.parent = q])
    /\ Over(x)
    /\ UNCHANGED <<signInVars, consentVars, consumed, refreshRevoked,
                   accessRevoked, recovering, toRevoke>>

\* RotateRefreshToken under the lock of the old row, unless it has expired.
RotateRefreshToken(x, n) ==
    /\ Doing(x, "rotate")
    /\ LET q == request[x].pair IN
          /\ q \notin used \cup refreshRevoked
          /\ used' = used \cup {q}
          /\ Mint(n, [pair[q] EXCEPT !.parent = q])
    /\ Over(x)
    /\ UNCHANGED <<signInVars, consentVars, consumed, refreshRevoked,
                   accessRevoked, recovering, toRevoke>>

\* The old token was used or revoked since it was read: the same transaction
\* revokes the family instead.
RotateFindsReuse(x) ==
    /\ Doing(x, "rotate")
    /\ request[x].pair \in used \cup refreshRevoked
    /\ RevokeFamily(request[x].pair)
    /\ Over(x)
    /\ UNCHANGED <<Elsewhere, recovering, toRevoke>>

\* revokeByRequestID for the id of a family; fosite asks twice, and here a request
\* may ask again.
RevokeByFamily(x) ==
    /\ Doing(x, "revoke family")
    /\ RevokeFamily(request[x].pair)
    /\ Over(x) \/ UNCHANGED request
    /\ UNCHANGED <<Elsewhere, recovering, toRevoke>>

\* A client revokes a refresh token, used or not: fosite revokes its family.
RevokeRefreshToken(x, q) ==
    /\ Idle(x)
    /\ q \in Minted
    /\ request' = [request EXCEPT ![x] =
          [at |-> "revoke family", code |-> None, pair |-> q, grant |-> None]]
    /\ UNCHANGED Rest

\* A client revokes an access token that is accepted: this token alone.
RevokeAccessToken(q) ==
    /\ Usable(q)
    /\ accessRevoked' = accessRevoked \cup {q}
    /\ UNCHANGED <<signInVars, consentVars, consumed, pair, used,
                   refreshRevoked, request, recovering, toRevoke>>

\* A statement fails, the client goes away or the gateway stops: what was
\* committed stays.
RequestEnds(x) ==
    /\ request[x] # None
    /\ Over(x)
    /\ UNCHANGED Rest

-----------------------------------------------------------------------------
(* The dashboard and the administrator *)

\* The user revokes a connector; one that is revoked already is left as it is.
RevokeConnector(g) ==
    /\ \E s \in Sessions : SignedIn(s)
    /\ Live(g)
    /\ RevokeGrant(g)
    /\ UNCHANGED <<Elsewhere, request, recovering, toRevoke>>

\* The recovery reads the live connectors, revokes them one by one, and then
\* ends the sessions in the transaction that completes the case.
RecoveryReads ==
    /\ ~recovering
    /\ recovering' = TRUE
    /\ toRevoke' = {g \in Grants : Live(g)}
    /\ UNCHANGED <<signInVars, consentVars, tokenVars, request>>

RecoveryRevokes(g) ==
    /\ g \in toRevoke
    /\ RevokeGrant(g)
    /\ toRevoke' = toRevoke \ {g}
    /\ UNCHANGED <<Elsewhere, request, recovering>>

RecoverIdentity ==
    /\ recovering
    /\ toRevoke = {}
    /\ recovering' = FALSE
    /\ ended' = ended \cup {s \in Sessions : session[s] # None}
    /\ UNCHANGED <<transactions, startedBy, tooOld, binding, callback, session,
                   consentVars, tokenVars, request, toRevoke>>

\* A revocation of the recovery fails, and with it the recovery.
RecoveryFails ==
    /\ recovering
    /\ recovering' = FALSE
    /\ toRevoke' = {}
    /\ UNCHANGED <<signInVars, consentVars, tokenVars, request>>

TokenNext ==
    \/ \E x \in Requests :
          \/ \E k \in Codes : PresentCode(x, k)
          \/ \E q \in Pairs :
                \/ PresentRefresh(x, q) \/ RevokeRefreshToken(x, q)
                \/ IssueTokens(x, q) \/ RotateRefreshToken(x, q)
          \/ ConsumeAuthorizationCode(x) \/ ReadGrant(x)
          \/ FindGrantOfCode(x) \/ RevokeByCode(x) \/ RotateFindsReuse(x) \/ RevokeByFamily(x)
          \/ RequestEnds(x)
    \/ \E q \in Pairs : RevokeAccessToken(q)
    \/ \E g \in Grants : RevokeConnector(g) \/ RecoveryRevokes(g)
    \/ RecoveryReads \/ RecoverIdentity \/ RecoveryFails

Unaffected == <<tokenVars, request, recovering, toRevoke>>

OAuthNext ==
    \/ SignInNext /\ UNCHANGED <<consentVars, Unaffected>>
    \/ ConsentNext /\ UNCHANGED Unaffected
    \/ TokenNext

OAuthSpec == OAuthInit /\ [][OAuthNext]_oauthVars

-----------------------------------------------------------------------------
(* Properties *)

\* A code buys one family of tokens, however many exchanges read it before the
\* first consumed it.
CodeBuysOnePair ==
    \A q, r \in Minted :
        (pair[q].parent = None /\ pair[r].parent = None
           /\ pair[q].code = pair[r].code) => q = r

\* A family is a line: a refresh token is replaced once, and only its last one
\* is still good, whatever requests present the same token at the same time.
FamilyIsALine ==
    /\ \A q, r \in Minted :
          (pair[q].parent = pair[r].parent /\ pair[q].parent # None) => q = r
    /\ \A q, r \in Minted \ used :
          pair[q].family = pair[r].family => q = r

\* A family is revoked as a whole, refresh and access tokens alike, and no
\* rotation that was under way adds a token to it afterwards.
RevokedFamilyIsDead ==
    \A q \in Minted \cap refreshRevoked :
        Family(q) \subseteq refreshRevoked \cap accessRevoked

\* Recovering an account ends every session, grant and token of it.
RecoveryEndsConnectors ==
    [][(recovering /\ ~recovering' /\ ended' # ended) =>
          \A g \in Grants : grant'[g] # None => g \in grantRevoked']_oauthVars
=============================================================================
