----------------------------- MODULE OAuthProofs -----------------------------
(***************************************************************************)
(* From a login to the tokens of a connector: what a login, a code and a   *)
(* family of tokens are worth, whoever else is at work.                    *)
(*                                                                         *)
(* The invariant has a part for each module.  Steps of one module leave    *)
(* the variables of the others alone, but for the revocations, which       *)
(* change the grants of Consent, and the recovery, which ends sessions.    *)
(***************************************************************************)
EXTENDS OAuth, TLAPS

-----------------------------------------------------------------------------
(* Signing in *)

Spent(l) == \E s \in Sessions : session[s] # None /\ session[s].login = l

\* A login waits in the memory, is carried by its callback or has bought its
\* session, and is never two of these; before it begins it is none.
LoginIsOnce ==
    \A l \in Logins :
        /\ l \in transactions => callback[l] = None /\ ~Spent(l)
        /\ callback[l] # None => ~Spent(l)
        /\ startedBy[l] = None => /\ l \notin transactions
                                  /\ callback[l] = None
                                  /\ ~Spent(l)

\* A cookie is held, and a callback made, by the browser that began the login.
BrowserIsSame ==
    /\ \A b \in Browsers : binding[b] # None => startedBy[binding[b]] = b
    /\ \A l \in Logins : callback[l] # None => callback[l].browser = startedBy[l]

SignInInv == SignInTypeOK /\ LoginIsOnce /\ BrowserIsSame /\ LoginBuysOneSession

LEMMA SignInInitInv == SignInInit => SignInInv
BY SignInAssumption DEF SignInInit, SignInInv, SignInTypeOK, LoginIsOnce, BrowserIsSame,
       LoginBuysOneSession, Spent

\* What the steps of the login transaction need of their arguments.
LEMMA CookiesAnswered ==
    ASSUME SignInTypeOK, NEW b \in Browsers, binding' \in Answered(b)
    PROVE  /\ binding' \in [Browsers -> Logins \cup {None}]
           /\ \A a \in Browsers : binding'[a] # None => binding'[a] = binding[a]
BY DEF SignInTypeOK, Answered

\* A step that ends sessions leaves everything else of signing in as it is.
LEMMA SessionsEnd ==
    ASSUME SignInInv,
           UNCHANGED <<transactions, startedBy, tooOld, binding, callback, session>>,
           ended' \in SUBSET Sessions
    PROVE  SignInInv'
BY DEF SignInInv, SignInTypeOK, LoginIsOnce, BrowserIsSame, LoginBuysOneSession, Spent

LEMMA SignInStep ==
    ASSUME SignInInv, [SignInNext]_signInVars
    PROVE  SignInInv'
<1> USE SignInAssumption, SignInRowAssumption
    DEF SignInInv, SignInTypeOK, LoginIsOnce, BrowserIsSame, LoginBuysOneSession, Spent
<1>1. ASSUME NEW l \in Logins, NEW b \in Browsers, BeginLogin(l, b)
      PROVE  SignInInv'
    BY <1>1 DEF BeginLogin, Purged
<1>2. ASSUME NEW l \in Logins, NEW b \in Browsers, CompleteTakes(l, b)
      PROVE  SignInInv'
    BY <1>2 DEF CompleteTakes, Callbacks
<1>3. ASSUME NEW l \in Logins, NEW b \in Browsers, CompleteRefuses(l, b)
      PROVE  SignInInv'
    BY <1>3, CookiesAnswered DEF CompleteRefuses
<1>4. CASE BeginLoginRefused
    BY <1>4 DEF BeginLoginRefused, Purged
<1>5. ASSUME NEW l \in Logins, LoginLapses(l)
      PROVE  SignInInv'
    BY <1>5 DEF LoginLapses
<1>6. ASSUME NEW l \in Logins, ProviderAnswers(l) \/ UpsertRobloxIdentity(l)
      PROVE  SignInInv'
    BY <1>6 DEF ProviderAnswers, UpsertRobloxIdentity, InCallback, Callbacks
<1>7. ASSUME NEW l \in Logins, CallbackFails(l)
      PROVE  SignInInv'
    <2>1. callback[l].browser \in Browsers
        BY <1>7 DEF CallbackFails, Callbacks
    <2> QED BY <1>7, <2>1, CookiesAnswered DEF CallbackFails
<1>8. ASSUME NEW l \in Logins, NEW s \in Sessions, CreateSession(l, s)
      PROVE  SignInInv'
    BY <1>8 DEF CreateSession, InCallback, Callbacks, SessionRows
<1>9. CASE RevokeAll \/ \E s \in Sessions : SessionExpires(s)
    BY <1>9, SessionsEnd DEF RevokeAll, SessionExpires
<1>10. CASE LoginsAreForgotten
    BY <1>10 DEF LoginsAreForgotten
<1>11. CASE UNCHANGED signInVars
    BY <1>11 DEF signInVars
<1> QED
    BY <1>1, <1>2, <1>3, <1>4, <1>5, <1>6, <1>7, <1>8, <1>9, <1>10, <1>11 DEF SignInNext

-----------------------------------------------------------------------------
(* Consent *)

\* A request that goes by a remembered approval knows its grant.
ConsentInv ==
    /\ ConsentTypeOK
    /\ \A a \in Authorizers : At(a, "remembered") => authorize[a].grant \in Grants

LEMMA ConsentInitInv == ConsentInit => ConsentInv
BY DEF ConsentInit, ConsentInv, ConsentTypeOK, At

\* What an approval writes is well formed.
LEMMA ApprovalType ==
    ASSUME ConsentTypeOK, NEW a \in Authorizers, NEW k \in Codes, NEW g \in Grants,
           RecordApproval(a, k, g)
    PROVE  ConsentTypeOK'
<1>1. /\ authorize[a] \in Authorizing
      /\ authorize[a].session \in Sessions
      /\ authorize[a].row \in GrantRows
      /\ authorize[a].row.client \in Clients
      /\ authorize[a].row.scopes \in Scopes
    BY DEF RecordApproval, At, ConsentTypeOK, Authorizing, GrantRows
<1>2. [grant |-> g, scopes |-> authorize[a].row.scopes] \in ConsentRows
    BY <1>1 DEF ConsentRows
<1>3. consent' \in [Sessions -> [Clients -> ConsentRows \cup {None}]]
    BY <1>1, <1>2 DEF RecordApproval, Remembers, ConsentTypeOK
<1>4. grant' \in [Grants -> GrantRows \cup {None}] /\ grantRevoked' \subseteq Grants
    BY <1>1 DEF RecordApproval, ConsentTypeOK
<1>5. code' \in [Codes -> GrantRows \cup {None}]
    BY <1>1 DEF RecordApproval, ConsentTypeOK
<1>6. authorize' \in [Authorizers -> Authorizing \cup {None}]
    BY DEF RecordApproval, ConsentTypeOK
<1> QED BY <1>3, <1>4, <1>5, <1>6 DEF RecordApproval, ConsentTypeOK

LEMMA ConsentStep ==
    ASSUME ConsentInv, ConsentNext
    PROVE  ConsentInv'
<1> USE ConsentRowAssumption DEF ConsentInv, ConsentTypeOK, At
<1>1. CASE AccountChanges \/ \E c \in Clients : RegisterClient(c)
    BY <1>1 DEF AccountChanges, RegisterClient
<1>2. ASSUME NEW g \in Grants, NEW d \in Devices, NEW st \in Studios \cup {None},
             SetConnectorTarget(g, d, st)
      PROVE  ConsentInv'
    <2>1. grant[g] \in GrantRows
        BY <1>2 DEF SetConnectorTarget, Live
    <2>2. [grant[g] EXCEPT !.device = d, !.studio = st] \in GrantRows
        BY <2>1 DEF GrantRows
    <2>3. grant' = [grant EXCEPT ![g] = [grant[g] EXCEPT !.device = d, !.studio = st]]
        BY <1>2, <2>1 DEF SetConnectorTarget, GrantRows
    <2> QED BY <1>2, <2>2, <2>3 DEF SetConnectorTarget
<1>3. ASSUME NEW a \in Authorizers, NEW s \in Sessions, NEW c \in Clients,
             NEW scopes \in Scopes, AuthorizeRemembered(a, s, c, scopes)
      PROVE  ConsentInv'
    <2>1. consent[s][c] \in ConsentRows /\ consent[s][c].grant \in Grants
        BY <1>3 DEF AuthorizeRemembered, ConsentRows
    <2>2. grant[consent[s][c].grant] \in GrantRows
        BY <1>3, <2>1 DEF AuthorizeRemembered, Live
    <2> DEFINE r == [at |-> "remembered", session |-> s,
                     row |-> grant[consent[s][c].grant], grant |-> consent[s][c].grant]
    <2>3. r \in Authorizing /\ r.grant \in Grants
        BY <2>1, <2>2 DEF Authorizing
    <2>4. /\ authorize' = [authorize EXCEPT ![a] = r]
          /\ UNCHANGED <<registered, eligible, grant, grantRevoked, consent, code>>
        BY <1>3 DEF AuthorizeRemembered
    <2> QED BY <2>3, <2>4
<1>4. ASSUME NEW a \in Authorizers, NEW s \in Sessions, NEW row \in GrantRows,
             ApproveConsent(a, s, row)
      PROVE  ConsentInv'
    <2>1. [at |-> "approved", session |-> s, row |-> row, grant |-> None] \in Authorizing
        BY DEF Authorizing
    <2> QED BY <1>4, <2>1 DEF ApproveConsent
<1>5. ASSUME NEW a \in Authorizers, NEW k \in Codes, IssueRememberedCode(a, k)
      PROVE  ConsentInv'
    <2>1. authorize[a].row \in GrantRows
        BY <1>5 DEF IssueRememberedCode, At, Authorizing
    <2> QED BY <1>5, <2>1 DEF IssueRememberedCode
<1>6. ASSUME NEW a \in Authorizers, AuthorizeEnds(a)
      PROVE  ConsentInv'
    BY <1>6 DEF AuthorizeEnds
<1>7. ASSUME NEW a \in Authorizers, NEW k \in Codes, NEW g \in Grants,
             RecordApproval(a, k, g)
      PROVE  ConsentInv'
    BY <1>7, ApprovalType DEF RecordApproval
<1> QED
    BY <1>1, <1>2, <1>3, <1>4, <1>5, <1>6, <1>7 DEF ConsentNext

\* A code that a step of Consent inserts is backed by the state it is inserted
\* in: what a remembered approval or a click on the page was read from is read
\* again by the transaction.
LEMMA BackedStep ==
    ASSUME ConsentInv, ConsentNext,
           NEW k \in Codes, code[k] = None, code'[k] # None
    PROVE  /\ Eligible(code'[k])
           /\ \E s \in Sessions, g \in Grants :
                /\ Validate(s)
                /\ grant'[g] = code'[k]
                /\ g \notin grantRevoked'
                /\ consent'[s][code'[k].client] = [grant |-> g, scopes |-> code'[k].scopes]
<1> USE DEF ConsentInv, ConsentTypeOK
<1>1. PICK a \in Authorizers, j \in Codes :
          IssueRememberedCode(a, j) \/ \E g \in Grants : RecordApproval(a, j, g)
    BY DEF ConsentNext, AccountChanges, RegisterClient, SetConnectorTarget,
           AuthorizeRemembered, ApproveConsent, AuthorizeEnds
<1>2. j = k /\ code'[k] = authorize[a].row
    BY <1>1 DEF IssueRememberedCode, RecordApproval
<1>3. /\ authorize[a] \in Authorizing
      /\ authorize[a].session \in Sessions
      /\ authorize[a].row \in GrantRows
      /\ authorize[a].row.client \in Clients
    BY <1>1 DEF IssueRememberedCode, RecordApproval, At, Authorizing, GrantRows
<1>4. CASE IssueRememberedCode(a, k)
    <2>1. RememberedStands(authorize[a]) /\ UNCHANGED <<grant, grantRevoked, consent>>
        BY <1>4 DEF IssueRememberedCode
    <2>2. authorize[a].grant \in Grants
        BY <1>4 DEF IssueRememberedCode
    <2> QED
        BY <2>1, <2>2, <1>2, <1>3
        DEF RememberedStands, ConsentUnchanged, GrantMatches, Live
<1>5. ASSUME NEW g \in Grants, RecordApproval(a, k, g)
      PROVE  /\ Eligible(code'[k])
             /\ \E s \in Sessions, h \in Grants :
                  /\ Validate(s)
                  /\ grant'[h] = code'[k]
                  /\ h \notin grantRevoked'
                  /\ consent'[s][code'[k].client]
                       = [grant |-> h, scopes |-> code'[k].scopes]
    <2>1. Eligible(authorize[a].row) /\ Validate(authorize[a].session)
        BY <1>5 DEF RecordApproval, ApprovalStands
    <2>2. grant'[g] = authorize[a].row /\ g \notin grantRevoked'
        BY <1>5 DEF RecordApproval
    <2>3. consent'[authorize[a].session][authorize[a].row.client]
              = [grant |-> g, scopes |-> authorize[a].row.scopes]
        BY <1>3, <1>5 DEF RecordApproval, Remembers
    <2> QED BY <1>2, <1>3, <2>1, <2>2, <2>3
<1> QED BY <1>1, <1>2, <1>4, <1>5

-----------------------------------------------------------------------------
(* Tokens *)

TokenTypeOK ==
    /\ consumed \subseteq Codes
    /\ pair \in [Pairs -> PairRows \cup {None}]
    /\ used \subseteq Pairs
    /\ refreshRevoked \subseteq Pairs
    /\ accessRevoked \subseteq Pairs
    /\ request \in [Requests -> Held \cup {None}]
    /\ recovering \in BOOLEAN
    /\ toRevoke \subseteq Grants

\* A request holds what its next call needs.
HeldOK ==
    \A x \in Requests : request[x] # None =>
        /\ request[x].at \in {"consume", "read grant", "issue", "find grant",
                              "revoke grant"}
              => request[x].code \in Codes
        /\ request[x].at \in {"issue", "revoke grant"}
              => request[x].grant \in Grants
        /\ request[x].at \in {"rotate", "revoke family"}
              => request[x].pair \in Minted

\* A request that has consumed its code and has not yet spent it.
Exchanging(x) == Doing(x, "read grant") \/ Doing(x, "issue")
Roots == {q \in Minted : pair[q].parent = None}

\* A consumed code is in the hands of one request, or has bought its one root.
CodeIsSpentOnce ==
    /\ \A x \in Requests : Exchanging(x) =>
          /\ request[x].code \in consumed
          /\ \A y \in Requests :
                (Exchanging(y) /\ request[y].code = request[x].code) => x = y
          /\ \A q \in Roots : pair[q].code # request[x].code
    /\ \A q \in Roots : pair[q].code \in consumed
    /\ CodeBuysOnePair

\* A family is named by its root and is of one grant; every other token of it
\* took the place of a token that is used.
FamilyTree ==
    /\ \A q \in Minted :
          /\ pair[q].family \in Minted
          /\ pair[pair[q].family].grant = pair[q].grant
          /\ pair[q].parent # None => pair[q].parent \in Minted \cap used
    /\ refreshRevoked \subseteq Minted
    /\ FamilyIsALine
    /\ RevokedFamilyIsDead

TokenInv == TokenTypeOK /\ HeldOK /\ CodeIsSpentOnce /\ FamilyTree

LEMMA TokenInitInv == OAuthInit => TokenInv
BY DEF OAuthInit, TokenInv, TokenTypeOK, HeldOK, CodeIsSpentOnce, FamilyTree, Minted,
       Roots, Exchanging, Doing, CodeBuysOnePair, FamilyIsALine, RevokedFamilyIsDead, Family


\* A step that touches neither the tokens nor what requests hold but one, which
\* ends, keeps the invariant; so does one that leaves all requests alone.
LEMMA TokensKept ==
    ASSUME TokenInv, UNCHANGED <<consumed, pair, used, refreshRevoked, accessRevoked>>,
           recovering' \in BOOLEAN, toRevoke' \in SUBSET Grants,
           UNCHANGED request \/ \E x \in Requests : Over(x)
    PROVE  TokenInv'
<1> USE DEF TokenInv
<1>1. TokenTypeOK'
    BY DEF TokenTypeOK, Over
<1>2. /\ Minted' = Minted
      /\ \A q \in Pairs : Family(q)' = Family(q)
    BY DEF Minted, Family
<1>3. HeldOK'
    BY <1>2 DEF HeldOK, Over, TokenTypeOK
<1>4. CodeIsSpentOnce'
    <2>1. \A x \in Requests : Exchanging(x)' => Exchanging(x) /\ request'[x] = request[x]
        BY DEF Exchanging, Doing, Over, TokenTypeOK
    <2> QED BY <1>2, <2>1 DEF CodeIsSpentOnce, Roots, CodeBuysOnePair
<1>5. FamilyTree'
    BY <1>2 DEF FamilyTree, FamilyIsALine, RevokedFamilyIsDead, Minted
<1> QED BY <1>1, <1>3, <1>4, <1>5

\* A family lies under one grant, and its members name the same family.
LEMMA FamilyFacts ==
    ASSUME TokenInv, NEW q \in Minted
    PROVE  /\ q \in Pairs /\ pair[q] \in PairRows
           /\ Family(q) \subseteq Under(pair[q].grant)
           /\ \A r \in Family(q) : Family(r) = Family(q)
BY OAuthRowAssumption DEF TokenInv, TokenTypeOK, FamilyTree, Minted, Family, Under, PairRows

\* What a revocation revokes it revokes by whole families: of the grant all,
\* or of the family this one with the access tokens of its grant.
LEMMA RevocationIsWhole ==
    ASSUME TokenInv, NEW R \in SUBSET Minted, NEW A \in SUBSET Minted, R \subseteq A,
           \A q \in R : Family(q) \subseteq R,
           refreshRevoked' = refreshRevoked \cup R,
           accessRevoked' = accessRevoked \cup A,
           UNCHANGED <<consumed, pair, used>>
    PROVE  FamilyTree' /\ refreshRevoked' \subseteq Pairs /\ accessRevoked' \subseteq Pairs
<1>1. /\ Minted' = Minted
      /\ Minted \subseteq Pairs
      /\ \A q \in Pairs : Family(q)' = Family(q)
    BY DEF Minted, Family
<1>2. RevokedFamilyIsDead'
    BY <1>1 DEF TokenInv, FamilyTree, RevokedFamilyIsDead
<1> QED BY <1>1, <1>2 DEF TokenInv, TokenTypeOK, FamilyTree, FamilyIsALine

LEMMA GrantRevocation ==
    ASSUME TokenInv, NEW g \in Grants, RevokeGrant(g)
    PROVE  FamilyTree' /\ refreshRevoked' \subseteq Pairs /\ accessRevoked' \subseteq Pairs
<1>1. \A q \in Under(g) : Family(q) \subseteq Under(g)
    BY FamilyFacts DEF Under
<1>2. Under(g) \subseteq Minted
    BY DEF Under
<1> QED BY <1>1, <1>2, RevocationIsWhole DEF RevokeGrant

LEMMA FamilyRevocation ==
    ASSUME TokenInv, NEW q \in Minted, RevokeFamily(q)
    PROVE  /\ FamilyTree' /\ refreshRevoked' \subseteq Pairs /\ accessRevoked' \subseteq Pairs
           /\ pair[q].grant \in Grants
<1>1. /\ Family(q) \subseteq Under(pair[q].grant)
      /\ \A r \in Family(q) : Family(r) \subseteq Family(q)
      /\ pair[q].grant \in Grants
    BY FamilyFacts DEF PairRows
<1>2. Family(q) \subseteq Minted /\ Under(pair[q].grant) \subseteq Minted
    BY DEF Under, Family
<1> QED BY <1>1, <1>2, RevocationIsWhole DEF RevokeFamily

\* The requests after a step that mints and consumes nothing.
LEMMA RequestsMove ==
    ASSUME TokenInv, UNCHANGED <<consumed, pair>>,
           request' \in [Requests -> Held \cup {None}],
           \A x \in Requests : request'[x] = request[x] \/ request'[x] = None
              \/ /\ request'[x] # None
                 /\ request'[x].at # "issue"
                 /\ request'[x].at # "read grant"
                 /\ request'[x].at \in {"consume", "find grant", "revoke grant"}
                       => request'[x].code \in Codes
                 /\ request'[x].at = "revoke grant" => request'[x].grant \in Grants
                 /\ request'[x].at \in {"rotate", "revoke family"}
                       => request'[x].pair \in Minted
    PROVE  HeldOK' /\ CodeIsSpentOnce'
<1>1. Minted' = Minted /\ Roots' = Roots
    BY DEF Minted, Roots
<1>2. \A x \in Requests : Exchanging(x)' => Exchanging(x) /\ request'[x] = request[x]
    BY DEF Exchanging, Doing
<1>3. HeldOK'
    BY <1>1 DEF TokenInv, HeldOK
<1>4. CodeIsSpentOnce'
    BY <1>1, <1>2 DEF TokenInv, CodeIsSpentOnce, CodeBuysOnePair
<1> QED BY <1>3, <1>4


\* A request that goes on keeps what it holds.
LEMMA GoesOn ==
    ASSUME TokenTypeOK, NEW x \in Requests, request[x] # None,
           NEW step \in Steps, Goes(x, step)
    PROVE  /\ request' \in [Requests -> Held \cup {None}]
           /\ request'[x] \in Held /\ request'[x] # None
           /\ request'[x].at = step
           /\ request'[x].code = request[x].code
           /\ request'[x].pair = request[x].pair
           /\ \A y \in Requests \ {x} : request'[y] = request[y]
BY OAuthRowAssumption DEF TokenTypeOK, Goes, Held

\* The family tree is a matter of four variables.
LEMMA FamilyTreeStays ==
    ASSUME FamilyTree, UNCHANGED <<pair, used, refreshRevoked, accessRevoked>>
    PROVE  FamilyTree'
BY DEF FamilyTree, Minted, FamilyIsALine, RevokedFamilyIsDead, Family

LEMMA CodeStep ==
    ASSUME TokenInv, NEW x \in Requests,
           \/ \E k \in Codes : PresentCode(x, k)
           \/ ConsumeAuthorizationCode(x)
           \/ ReadGrant(x)
           \/ \E q \in Pairs : IssueTokens(x, q)
           \/ FindGrantOfCode(x)
           \/ RevokeByCode(x)
    PROVE  TokenInv'
<1> USE OAuthAssumption, OAuthRowAssumption DEF TokenInv, TokenTypeOK
<1>1. ASSUME NEW k \in Codes, PresentCode(x, k)
      PROVE  TokenInv'
    <2> DEFINE h == [at |-> IF k \in consumed THEN "find grant" ELSE "consume",
                     code |-> k, pair |-> None, grant |-> None]
    <2>1. h \in Held /\ request' = [request EXCEPT ![x] = h]
        BY <1>1 DEF PresentCode, Held, Steps
    <2>2. UNCHANGED <<tokenVars, recovering, toRevoke>>
        BY <1>1 DEF PresentCode, Rest
    <2>3. HeldOK' /\ CodeIsSpentOnce'
        BY <2>1, <2>2, RequestsMove DEF tokenVars
    <2>4. FamilyTree'
        BY <2>2, FamilyTreeStays DEF tokenVars
    <2> QED BY <2>1, <2>2, <2>3, <2>4 DEF tokenVars
<1>2. CASE ConsumeAuthorizationCode(x)
    <2> DEFINE k == request[x].code
    <2>1. /\ request[x] \in Held /\ k \in Codes
          /\ UNCHANGED <<pair, used, refreshRevoked, accessRevoked,
                         recovering, toRevoke>>
          /\ ~Exchanging(x)
        BY <1>2 DEF ConsumeAuthorizationCode, Doing, HeldOK, Exchanging
    <2>2. Minted' = Minted /\ Roots' = Roots /\ FamilyTree'
        BY <2>1, FamilyTreeStays DEF Minted, Roots
    <2>3. CASE k \in consumed
        <3>1. Goes(x, "find grant") /\ UNCHANGED consumed
            BY <1>2, <2>3 DEF ConsumeAuthorizationCode
        <3>2. /\ request' \in [Requests -> Held \cup {None}]
              /\ request'[x].at = "find grant" /\ request'[x].code = k
              /\ request'[x] # None
              /\ \A y \in Requests \ {x} : request'[y] = request[y]
            BY <2>1, <3>1, GoesOn DEF Steps
        <3>3. HeldOK' /\ CodeIsSpentOnce'
            BY <2>1, <3>1, <3>2, RequestsMove
        <3> QED BY <2>1, <2>2, <3>1, <3>2, <3>3
    <2>4. CASE k \notin consumed
        <3>1. /\ Goes(x, "read grant") /\ consumed' = consumed \cup {k}
            BY <1>2, <2>4 DEF ConsumeAuthorizationCode
        <3>2. /\ request' \in [Requests -> Held \cup {None}]
              /\ request'[x].at = "read grant" /\ request'[x].code = k
              /\ request'[x] # None
              /\ \A y \in Requests \ {x} : request'[y] = request[y]
            BY <2>1, <3>1, GoesOn DEF Steps
        <3>3. HeldOK'
            BY <2>1, <2>2, <3>2 DEF HeldOK
        <3>4. CodeIsSpentOnce'
            <4>1. \A y \in Requests \ {x} : Exchanging(y)' <=> Exchanging(y)
                BY <3>2 DEF Exchanging, Doing
            <4>2. /\ \A y \in Requests : Exchanging(y) => request[y].code # k
                  /\ \A q \in Roots : pair[q].code # k
                BY <2>4 DEF CodeIsSpentOnce
            <4>3. CodeBuysOnePair'
                BY <2>1, <2>2 DEF CodeIsSpentOnce, CodeBuysOnePair
            <4>4. \A q \in Roots' : pair'[q].code \in consumed' /\ pair'[q].code # k
                BY <2>1, <2>2, <3>1, <4>2 DEF CodeIsSpentOnce
            <4>5. \A y \in Requests : Exchanging(y)' => request'[y].code \in consumed'
                BY <3>1, <3>2, <4>1 DEF CodeIsSpentOnce
            <4>6. ASSUME NEW y \in Requests, NEW z \in Requests,
                         Exchanging(y)', Exchanging(z)', request'[z].code = request'[y].code
                  PROVE  y = z
                BY <3>2, <4>1, <4>2, <4>6 DEF CodeIsSpentOnce
            <4>7. ASSUME NEW y \in Requests, NEW q \in Roots', Exchanging(y)'
                  PROVE  pair'[q].code # request'[y].code
                BY <2>1, <2>2, <3>2, <4>1, <4>2, <4>7 DEF CodeIsSpentOnce
            <4> QED BY <4>3, <4>4, <4>5, <4>6, <4>7 DEF CodeIsSpentOnce
        <3> QED BY <2>1, <2>2, <3>1, <3>2, <3>3, <3>4
    <2> QED BY <2>3, <2>4
<1>3. CASE ReadGrant(x)
    <2>1. /\ Doing(x, "read grant") /\ UNCHANGED <<tokenVars, recovering, toRevoke>>
          /\ \/ Over(x)
             \/ \E g \in Grants :
                   request' = [request EXCEPT ![x].at = "issue", ![x].grant = g]
        BY <1>3 DEF ReadGrant, Rest, GrantOfCode, GrantsByOwner
    <2>2. CASE Over(x)
        BY <2>1, <2>2, TokensKept DEF tokenVars
    <2>3. ASSUME NEW g \in Grants,
                 request' = [request EXCEPT ![x].at = "issue", ![x].grant = g]
          PROVE  TokenInv'
        <3>1. /\ request[x] \in Held /\ request[x].code \in Codes /\ Exchanging(x)
            BY <2>1 DEF Doing, HeldOK, Exchanging
        <3>2. /\ request' \in [Requests -> Held \cup {None}]
              /\ request'[x] # None /\ request'[x].at = "issue"
              /\ request'[x].grant = g /\ request'[x].code = request[x].code
            BY <2>3, <3>1 DEF Held, Steps
        <3>3. /\ \A y \in Requests \ {x} : request'[y] = request[y]
              /\ Minted' = Minted /\ Roots' = Roots
            BY <2>1, <2>3 DEF Minted, Roots, tokenVars
        <3>4. HeldOK'
            BY <3>1, <3>2, <3>3 DEF HeldOK
        <3>5. CodeIsSpentOnce'
            <4>1. \A y \in Requests :
                     (Exchanging(y)' <=> Exchanging(y)) /\ request'[y].code = request[y].code
                BY <3>1, <3>2, <3>3 DEF Exchanging, Doing
            <4>2. CodeBuysOnePair' /\ UNCHANGED <<consumed, pair>>
                BY <2>1, <3>3 DEF CodeIsSpentOnce, CodeBuysOnePair, tokenVars
            <4> QED BY <3>3, <4>1, <4>2 DEF CodeIsSpentOnce
        <3>6. FamilyTree'
            BY <2>1, FamilyTreeStays DEF tokenVars
        <3> QED BY <2>1, <3>2, <3>4, <3>5, <3>6 DEF tokenVars
    <2> QED BY <2>1, <2>2, <2>3
<1>4. ASSUME NEW q \in Pairs, IssueTokens(x, q)
      PROVE  TokenInv'
    <2> DEFINE k == request[x].code
               row == [grant |-> request[x].grant, family |-> q, parent |-> None, code |-> k]
    <2>1. /\ row \in PairRows /\ Exchanging(x)
        BY <1>4 DEF IssueTokens, Doing, HeldOK, PairRows, Exchanging
    <2>2. /\ pair[q] = None /\ pair' = [pair EXCEPT ![q] = row]
          /\ request' = [request EXCEPT ![x] = None]
          /\ UNCHANGED <<consumed, used, refreshRevoked, accessRevoked,
                         recovering, toRevoke>>
        BY <1>4 DEF IssueTokens, Mint, Over
    <2> HIDE DEF row
    <2>3. pair'[q] = row /\ row.family = q /\ row.parent = None /\ row.code = k
        BY <2>2 DEF row
    <2>4. /\ q \notin Minted /\ Minted' = Minted \cup {q}
          /\ \A r \in Minted : pair'[r] = pair[r]
        BY <2>1, <2>2 DEF Minted
    <2>5. Roots' = Roots \cup {q}
        BY <2>3, <2>4 DEF Roots
    <2>6. HeldOK'
        BY <2>2, <2>4 DEF HeldOK
    <2>7. CodeIsSpentOnce'
        <3>1. \A y \in Requests :
                 Exchanging(y)' => y # x /\ Exchanging(y) /\ request'[y] = request[y]
            BY <2>2 DEF Exchanging, Doing
        <3>2. \A r \in Roots : pair'[r] = pair[r] /\ pair[r].code # k
            BY <2>1, <2>4 DEF Roots, CodeIsSpentOnce
        <3>3. CodeBuysOnePair'
            BY <2>3, <2>4, <3>2 DEF CodeBuysOnePair, CodeIsSpentOnce, Roots
        <3> QED BY <2>1, <2>2, <2>3, <2>5, <3>1, <3>2, <3>3 DEF CodeIsSpentOnce
    <2>8. FamilyTree'
        <3>1. \A r \in Minted : pair[r].family \in Minted /\ pair[r].parent # q
            BY <2>4, OAuthAssumption DEF FamilyTree
        <3>2. \A r \in Minted : Family(r)' = Family(r)
            BY <2>3, <2>4, <3>1 DEF Family
        <3>3. RevokedFamilyIsDead'
            BY <2>2, <2>4, <3>2 DEF FamilyTree, RevokedFamilyIsDead
        <3>4. FamilyIsALine'
            BY <2>2, <2>3, <2>4, <3>1 DEF FamilyTree, FamilyIsALine
        <3> QED BY <2>2, <2>3, <2>4, <3>3, <3>4 DEF FamilyTree
    <2> QED BY <2>1, <2>2, <2>6, <2>7, <2>8
<1>5. CASE FindGrantOfCode(x)
    <2>1. /\ request[x] \in Held /\ request[x] # None /\ request[x].code \in Codes
          /\ UNCHANGED <<tokenVars, recovering, toRevoke>>
        BY <1>5 DEF FindGrantOfCode, Doing, HeldOK, Rest
    <2>2. FamilyTree'
        BY <2>1, FamilyTreeStays DEF tokenVars
    <2>3. CASE Over(x)
        BY <2>1, <2>3, TokensKept DEF tokenVars
    <2>4. ASSUME NEW g \in Grants,
                 request' = [request EXCEPT ![x].at = "revoke grant", ![x].grant = g]
          PROVE  TokenInv'
        <3>1. /\ request' \in [Requests -> Held \cup {None}]
              /\ request'[x].at = "revoke grant" /\ request'[x].code \in Codes
              /\ request'[x].grant = g /\ request'[x] # None
            BY <2>1, <2>4 DEF Held, Steps
        <3>2. \A y \in Requests \ {x} : request'[y] = request[y]
            BY <2>4
        <3>3. HeldOK' /\ CodeIsSpentOnce'
            BY <2>1, <3>1, <3>2, RequestsMove DEF tokenVars
        <3> QED BY <2>1, <2>2, <3>1, <3>3 DEF tokenVars
    <2> QED BY <1>5, <2>3, <2>4 DEF FindGrantOfCode, GrantOfCode, GrantsByOwner
<1>6. CASE RevokeByCode(x)
    <2>1. /\ request[x] \in Held /\ request[x] # None /\ request[x].grant \in Grants
          /\ RevokeGrant(request[x].grant)
          /\ UNCHANGED <<consumed, pair, used, recovering, toRevoke>>
        BY <1>6 DEF RevokeByCode, Doing, HeldOK, RevokeGrant
    <2>2. FamilyTree' /\ refreshRevoked' \subseteq Pairs /\ accessRevoked' \subseteq Pairs
        <3>1. PICK g \in Grants : g = request[x].grant
            BY <2>1
        <3> QED BY <2>1, <3>1, GrantRevocation
    <2>3. HeldOK' /\ CodeIsSpentOnce' /\ request' \in [Requests -> Held \cup {None}]
        <3>1. CASE Over(x)
            BY <2>1, <3>1, RequestsMove DEF Over
        <3>2. CASE request' = [request EXCEPT ![x].at = "find grant", ![x].grant = None]
            <4>1. request[x].code \in Codes
                BY <1>6 DEF RevokeByCode, Doing, HeldOK
            <4>2. /\ request' \in [Requests -> Held \cup {None}]
                  /\ request'[x].at = "find grant" /\ request'[x].code \in Codes
                  /\ request'[x] # None
                BY <2>1, <3>2, <4>1 DEF Held, Steps
            <4>3. \A y \in Requests \ {x} : request'[y] = request[y]
                BY <3>2
            <4> QED BY <2>1, <4>2, <4>3, RequestsMove
        <3> QED BY <1>6, <3>1, <3>2 DEF RevokeByCode
    <2> QED BY <2>1, <2>2, <2>3
<1> QED BY <1>1, <1>2, <1>3, <1>4, <1>5, <1>6

LEMMA RefreshStep ==
    ASSUME TokenInv, NEW x \in Requests,
           \/ \E q \in Pairs : PresentRefresh(x, q) \/ RevokeRefreshToken(x, q)
           \/ \E n \in Pairs : RotateRefreshToken(x, n)
           \/ RotateFindsReuse(x)
           \/ RevokeByFamily(x)
    PROVE  TokenInv'
<1> USE OAuthAssumption, OAuthRowAssumption DEF TokenInv, TokenTypeOK
<1>1. ASSUME NEW q \in Pairs, PresentRefresh(x, q) \/ RevokeRefreshToken(x, q)
      PROVE  TokenInv'
    <2>1. PICK step \in {"rotate", "revoke family"} :
              request' = [request EXCEPT ![x] =
                            [at |-> step, code |-> None, pair |-> q, grant |-> None]]
        BY <1>1 DEF PresentRefresh, RevokeRefreshToken
    <2>2. q \in Minted /\ UNCHANGED <<tokenVars, recovering, toRevoke>>
        BY <1>1 DEF PresentRefresh, RevokeRefreshToken, Rest
    <2>3. [at |-> step, code |-> None, pair |-> q, grant |-> None] \in Held
        BY DEF Held, Steps
    <2>4. HeldOK' /\ CodeIsSpentOnce'
        BY <2>1, <2>2, <2>3, RequestsMove DEF tokenVars
    <2> QED BY <2>1, <2>2, <2>3, <2>4, FamilyTreeStays DEF tokenVars
<1>2. ASSUME NEW n \in Pairs, RotateRefreshToken(x, n)
      PROVE  TokenInv'
    <2> DEFINE q == request[x].pair
               row == [pair[q] EXCEPT !.parent = q]
    <2>1. /\ q \in Minted /\ q \in Pairs /\ pair[q] \in PairRows
          /\ ~Exchanging(x)
        BY <1>2 DEF RotateRefreshToken, Doing, HeldOK, Minted, Exchanging
    <2>2. /\ q \notin used \cup refreshRevoked /\ used' = used \cup {q}
          /\ pair[n] = None /\ pair' = [pair EXCEPT ![n] = row]
          /\ request' = [request EXCEPT ![x] = None]
          /\ UNCHANGED <<consumed, refreshRevoked, accessRevoked,
                         recovering, toRevoke>>
        BY <1>2 DEF RotateRefreshToken, Mint, Over
    <2>3. /\ row \in PairRows /\ row.family = pair[q].family /\ row.parent = q
          /\ row.grant = pair[q].grant
        BY <2>1 DEF PairRows
    <2> HIDE DEF row
    <2>4. /\ n \notin Minted /\ Minted' = Minted \cup {n} /\ pair'[n] = row
          /\ \A r \in Minted : pair'[r] = pair[r]
        BY <2>2, <2>3 DEF Minted
    <2>5. Roots' = Roots
        BY <2>1, <2>3, <2>4 DEF Roots, Minted
    <2>6. HeldOK'
        BY <2>2, <2>4 DEF HeldOK
    <2>7. CodeIsSpentOnce'
        <3>1. \A y \in Requests :
                 Exchanging(y)' => Exchanging(y) /\ request'[y] = request[y]
            BY <2>2 DEF Exchanging, Doing
        <3>2. \A r \in Roots : pair'[r] = pair[r]
            BY <2>4 DEF Roots
        <3>3. CodeBuysOnePair'
            BY <2>5, <3>2 DEF CodeBuysOnePair, CodeIsSpentOnce, Roots
        <3> QED BY <2>2, <2>5, <3>1, <3>2, <3>3 DEF CodeIsSpentOnce
    <2>8. FamilyTree'
        <3>1. \A r \in Minted : pair[r].family # n /\ pair[r].parent # q
            BY <2>1, <2>2, <2>4 DEF FamilyTree
        <3>2. \A r \in Minted : Family(r)' \subseteq Family(r) \cup {n}
            BY <2>4 DEF Family
        <3>3. q \in Family(q) /\ Family(n)' \subseteq Family(q) \cup {n}
            BY <2>1, <2>3, <2>4 DEF Family
        <3>4. ASSUME NEW r \in Minted, r \in refreshRevoked
              PROVE  Family(r)' = Family(r)
            <4>1. q \notin Family(r)
                BY <2>2, <3>4 DEF FamilyTree, RevokedFamilyIsDead
            <4> QED BY <2>1, <2>3, <2>4, <4>1 DEF Family
        <3>5. RevokedFamilyIsDead'
            BY <2>2, <2>4, <3>4 DEF FamilyTree, RevokedFamilyIsDead
        <3>6. FamilyIsALine'
            <4>1. \A r \in Minted \ used' : pair[r].family # pair[q].family
                BY <2>1, <2>2 DEF FamilyTree, FamilyIsALine
            <4> QED BY <2>2, <2>3, <2>4, <3>1, <4>1 DEF FamilyTree, FamilyIsALine
        <3>7. \A r \in Minted' :
                 /\ pair'[r].family \in Minted
                 /\ pair'[pair'[r].family].grant = pair'[r].grant
                 /\ pair'[r].parent # None => pair'[r].parent \in Minted' \cap used'
            BY <2>1, <2>2, <2>3, <2>4 DEF FamilyTree
        <3> QED BY <2>2, <2>4, <3>5, <3>6, <3>7 DEF FamilyTree
    <2> QED BY <2>1, <2>2, <2>3, <2>6, <2>7, <2>8
<1>3. CASE RotateFindsReuse(x)
    <2>1. /\ request[x].pair \in Minted /\ RevokeFamily(request[x].pair) /\ Over(x)
          /\ UNCHANGED <<consumed, pair, used, recovering, toRevoke>>
        BY <1>3 DEF RotateFindsReuse, Doing, HeldOK, RevokeFamily
    <2>2. FamilyTree' /\ refreshRevoked' \subseteq Pairs /\ accessRevoked' \subseteq Pairs
        BY <2>1, FamilyRevocation
    <2>3. HeldOK' /\ CodeIsSpentOnce' /\ request' \in [Requests -> Held \cup {None}]
        BY <2>1, RequestsMove DEF Over
    <2> QED BY <2>1, <2>2, <2>3
<1>4. CASE RevokeByFamily(x)
    <2>1. /\ request[x] # None
          /\ request[x].pair \in Minted /\ RevokeFamily(request[x].pair)
          /\ Over(x) \/ UNCHANGED request
          /\ UNCHANGED <<consumed, pair, used, recovering, toRevoke>>
        BY <1>4 DEF RevokeByFamily, Doing, HeldOK, RevokeFamily
    <2>2. FamilyTree' /\ refreshRevoked' \subseteq Pairs /\ accessRevoked' \subseteq Pairs
        BY <2>1, FamilyRevocation
    <2>3. HeldOK' /\ CodeIsSpentOnce' /\ request' \in [Requests -> Held \cup {None}]
        <3>1. CASE Over(x)
            BY <2>1, <3>1, RequestsMove DEF Over
        <3>2. CASE UNCHANGED request
            BY <2>1, <3>2, RequestsMove
        <3> QED BY <2>1, <3>1, <3>2
    <2> QED BY <2>1, <2>2, <2>3
<1> QED BY <1>1, <1>2, <1>3, <1>4

LEMMA TokenStep ==
    ASSUME TokenInv, TokenNext
    PROVE  TokenInv'
<1> USE DEF TokenInv, TokenTypeOK
<1>1. CASE \E x \in Requests :
              \/ \E k \in Codes : PresentCode(x, k)
              \/ \E q \in Pairs : \/ PresentRefresh(x, q) \/ RevokeRefreshToken(x, q)
                                  \/ IssueTokens(x, q) \/ RotateRefreshToken(x, q)
              \/ ConsumeAuthorizationCode(x) \/ ReadGrant(x)
              \/ FindGrantOfCode(x) \/ RevokeByCode(x)
              \/ RotateFindsReuse(x) \/ RevokeByFamily(x)
    BY <1>1, CodeStep, RefreshStep
<1>2. ASSUME NEW x \in Requests, RequestEnds(x)
      PROVE  TokenInv'
    BY <1>2, TokensKept DEF RequestEnds, Rest, tokenVars
<1>3. ASSUME NEW q \in Pairs, RevokeAccessToken(q)
      PROVE  TokenInv'
    <2>1. /\ q \in Minted /\ accessRevoked' = accessRevoked \cup {q}
          /\ UNCHANGED <<consumed, pair, used, refreshRevoked, request,
                         recovering, toRevoke>>
        BY <1>3 DEF RevokeAccessToken, Usable
    <2>2. FamilyTree' /\ refreshRevoked' \subseteq Pairs /\ accessRevoked' \subseteq Pairs
        <3>1. {} \in SUBSET Minted /\ {q} \in SUBSET Minted
            BY <2>1
        <3> QED BY <2>1, <3>1, RevocationIsWhole
    <2>3. HeldOK' /\ CodeIsSpentOnce'
        BY <2>1, RequestsMove
    <2> QED BY <2>1, <2>2, <2>3
<1>4. ASSUME NEW g \in Grants, RevokeConnector(g) \/ RecoveryRevokes(g)
      PROVE  TokenInv'
    <2>1. /\ RevokeGrant(g) /\ toRevoke' \subseteq Grants
          /\ UNCHANGED <<consumed, pair, used, request, recovering>>
        BY <1>4 DEF RevokeConnector, RecoveryRevokes, RevokeGrant
    <2>2. FamilyTree' /\ refreshRevoked' \subseteq Pairs /\ accessRevoked' \subseteq Pairs
        BY <2>1, GrantRevocation
    <2>3. HeldOK' /\ CodeIsSpentOnce'
        BY <2>1, RequestsMove
    <2> QED BY <2>1, <2>2, <2>3
<1>5. CASE RecoveryReads \/ RecoverIdentity \/ RecoveryFails
    BY <1>5, TokensKept DEF RecoveryReads, RecoverIdentity, RecoveryFails, tokenVars
<1> QED BY <1>1, <1>2, <1>3, <1>4, <1>5 DEF TokenNext

-----------------------------------------------------------------------------
(* Together *)

OAuthInv == SignInInv /\ ConsentInv /\ TokenInv

LEMMA OAuthInitInv == OAuthInit => OAuthInv
BY SignInInitInv, ConsentInitInv, TokenInitInv DEF OAuthInit, OAuthInv

\* What a step of the token endpoint does to signing in and to consent.
LEMMA TokenElsewhere ==
    ASSUME TokenNext, TokenInv
    PROVE  /\ \/ UNCHANGED signInVars
              \/ /\ UNCHANGED <<transactions, startedBy, tooOld, binding, callback, session>>
                 /\ ended' = ended \cup {s \in Sessions : session[s] # None}
           /\ UNCHANGED <<registered, eligible, grant, consent, code, authorize>>
           /\ grantRevoked' \subseteq grantRevoked \cup Grants
<1>1. CASE \E x \in Requests :
              \/ RevokeByCode(x) \/ RotateFindsReuse(x) \/ RevokeByFamily(x)
    <2>1. /\ UNCHANGED Elsewhere
          /\ \/ UNCHANGED grantRevoked
             \/ \E g \in Grants : RevokeGrant(g)
             \/ \E q \in Minted : RevokeFamily(q)
        BY <1>1 DEF RevokeByCode, RotateFindsReuse, RevokeByFamily, TokenInv, HeldOK, Doing
    <2>2. grantRevoked' \subseteq grantRevoked \cup Grants
        BY <2>1, FamilyFacts DEF RevokeGrant, RevokeFamily, PairRows
    <2> QED BY <2>1, <2>2 DEF Elsewhere
<1>2. CASE \E g \in Grants : RevokeConnector(g) \/ RecoveryRevokes(g)
    BY <1>2 DEF RevokeConnector, RecoveryRevokes, RevokeGrant, Elsewhere
<1>3. CASE RecoverIdentity
    BY <1>3 DEF RecoverIdentity, consentVars
<1>4. CASE UNCHANGED <<signInVars, consentVars>>
    BY <1>4 DEF consentVars
<1> QED
    BY <1>1, <1>2, <1>3, <1>4
    DEF TokenNext, PresentCode, PresentRefresh, RevokeRefreshToken, IssueTokens,
        RotateRefreshToken, ConsumeAuthorizationCode, ReadGrant, RequestEnds, Rest,
        RevokeAccessToken, RecoveryReads, RecoveryFails, FindGrantOfCode

LEMMA OAuthStep ==
    ASSUME OAuthInv, [OAuthNext]_oauthVars
    PROVE  OAuthInv'
<1> USE DEF OAuthInv
<1>1. CASE SignInNext /\ UNCHANGED <<consentVars, Unaffected>>
    <2>1. SignInInv'
        BY <1>1, SignInStep
    <2>2. ConsentInv'
        BY <1>1 DEF ConsentInv, ConsentTypeOK, At, consentVars
    <2>3. TokenInv'
        BY <1>1, TokensKept DEF Unaffected, tokenVars, TokenInv, TokenTypeOK
    <2> QED BY <2>1, <2>2, <2>3
<1>2. CASE ConsentNext /\ UNCHANGED Unaffected
    <2>1. UNCHANGED signInVars
        <3>1. ASSUME NEW a \in Authorizers, NEW k \in Codes,
                     \/ IssueRememberedCode(a, k)
                     \/ \E g \in Grants : RecordApproval(a, k, g)
              PROVE  UNCHANGED signInVars
            BY <3>1 DEF IssueRememberedCode, RecordApproval
        <3>2. ASSUME NEW g \in Grants, NEW d \in Devices, NEW st \in Studios \cup {None},
                     SetConnectorTarget(g, d, st)
              PROVE  UNCHANGED signInVars
            BY <3>2 DEF SetConnectorTarget
        <3>3. ASSUME NEW a \in Authorizers, NEW s \in Sessions,
                     \/ \E c \in Clients, scopes \in Scopes :
                           AuthorizeRemembered(a, s, c, scopes)
                     \/ \E row \in GrantRows : ApproveConsent(a, s, row)
              PROVE  UNCHANGED signInVars
            BY <3>3 DEF AuthorizeRemembered, ApproveConsent
        <3> QED
            BY <1>2, <3>1, <3>2, <3>3
            DEF ConsentNext, AccountChanges, RegisterClient, AuthorizeEnds
    <2>2. SignInInv'
        BY <2>1, SignInStep
    <2>3. TokenInv'
        BY <1>2, TokensKept DEF Unaffected, tokenVars, TokenInv, TokenTypeOK
    <2> QED BY <1>2, <2>2, <2>3, ConsentStep
<1>3. CASE TokenNext
    <2>1. SignInInv'
        <3>1. CASE UNCHANGED signInVars
            BY <3>1, SignInStep
        <3>2. CASE /\ UNCHANGED <<transactions, startedBy, tooOld, binding, callback, session>>
                   /\ ended' = ended \cup {s \in Sessions : session[s] # None}
            <4>1. ended' \in SUBSET Sessions
                BY <3>2 DEF SignInInv, SignInTypeOK
            <4> QED BY <3>2, <4>1, SessionsEnd
        <3> QED BY <1>3, <3>1, <3>2, TokenElsewhere
    <2>2. ConsentInv'
        BY <1>3, TokenElsewhere DEF ConsentInv, ConsentTypeOK, At
    <2> QED BY <1>3, <2>1, <2>2, TokenStep
<1>4. CASE UNCHANGED oauthVars
    BY <1>4, SignInStep, TokensKept
    DEF oauthVars, consentVars, tokenVars, ConsentInv, ConsentTypeOK, At, TokenInv, TokenTypeOK
<1> QED BY <1>1, <1>2, <1>3, <1>4 DEF OAuthNext

\* The inductive invariant of sign-in, consent and tokens holds in every reachable
\* state: a login is in the memory, carried by one callback or spent; a consumed
\* code is in the hands of one request or has bought its one family; and the
\* tokens of a family hang from its root, used ones above (LoginIsOnce,
\* CodeIsSpentOnce, FamilyTree).
THEOREM OAuthInvHolds == OAuthSpec => []OAuthInv
BY OAuthInitInv, OAuthStep, PTL DEF OAuthSpec

\* OAuthTypeOK: whatever requests, callbacks and revocations run against each
\* other, the rows and what requests hold stay well formed.
THEOREM TypesHold == OAuthSpec => []OAuthTypeOK
<1>1. OAuthInv => OAuthTypeOK
    BY DEF OAuthInv, OAuthTypeOK, SignInInv, ConsentInv, TokenInv, TokenTypeOK
<1> QED BY <1>1, OAuthInvHolds, PTL

\* LoginBuysOneSession: a login buys one session at most, for its own browser
\* (Flow.Complete takes the transaction out before it looks at it).
THEOREM LoginBuysOneSessionHolds == OAuthSpec => []LoginBuysOneSession
<1>1. OAuthInv => LoginBuysOneSession
    BY DEF OAuthInv, SignInInv
<1> QED BY <1>1, OAuthInvHolds, PTL

\* CodeBuysOnePair: a code buys one family of tokens, however many exchanges
\* read it unused (ConsumeAuthorizationCode under its row lock).
THEOREM CodeBuysOnePairHolds == OAuthSpec => []CodeBuysOnePair
<1>1. OAuthInv => CodeBuysOnePair
    BY DEF OAuthInv, TokenInv, CodeIsSpentOnce
<1> QED BY <1>1, OAuthInvHolds, PTL

\* FamilyIsALine: of a family one refresh token is good and each was replaced
\* once, whatever requests present the same token (RotateRefreshToken).
THEOREM FamilyIsALineHolds == OAuthSpec => []FamilyIsALine
<1>1. OAuthInv => FamilyIsALine
    BY DEF OAuthInv, TokenInv, FamilyTree
<1> QED BY <1>1, OAuthInvHolds, PTL

\* RevokedFamilyIsDead: with one token of a family revoked all of it is, and no
\* rotation under way adds to it (RevokeGrant, oauthRevokeFamilyTx).
THEOREM RevokedFamilyIsDeadHolds == OAuthSpec => []RevokedFamilyIsDead
<1>1. OAuthInv => RevokedFamilyIsDead
    BY DEF OAuthInv, TokenInv, FamilyTree
<1> QED BY <1>1, OAuthInvHolds, PTL

\* NewCodeIsBacked: every code inserted is backed by the session, target, grant
\* and consent there are when it is inserted, whatever was read before
\* (issueRememberedCodeTx and recordApprovalTx read again under their locks).
THEOREM NewCodeIsBackedHolds == OAuthSpec => NewCodeIsBacked
<1> DEFINE Backed == \A k \in Codes : (code[k] = None /\ code'[k] # None) =>
              /\ Eligible(code'[k])
              /\ \E s \in Sessions, g \in Grants :
                    /\ Validate(s)
                    /\ grant'[g] = code'[k]
                    /\ g \notin grantRevoked'
                    /\ consent'[s][code'[k].client]
                         = [grant |-> g, scopes |-> code'[k].scopes]
<1>1. ASSUME OAuthInv, [OAuthNext]_oauthVars
      PROVE  [Backed]_<<signInVars, consentVars>>
    <2>1. CASE UNCHANGED code
        BY <2>1
    <2>2. CASE ConsentNext
        BY <1>1, <2>2, BackedStep DEF OAuthInv
    <2>3. UNCHANGED code \/ ConsentNext
        BY <1>1, TokenElsewhere DEF OAuthNext, OAuthInv, oauthVars, consentVars
    <2> QED BY <2>1, <2>2, <2>3
<1> QED BY <1>1, OAuthInvHolds, PTL DEF OAuthSpec, NewCodeIsBacked
=============================================================================
