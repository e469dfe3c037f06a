-------------------------------- MODULE SignIn -------------------------------
(***************************************************************************)
(* Signing in with Roblox and the web sessions it buys: internal/robloxauth *)
(* flow.go and handler.go, internal/session service.go over the session    *)
(* and identity rows of internal/mysqlstore.                               *)
(*                                                                         *)
(* Begin puts a login transaction into the gateway's memory and its binding *)
(* into a cookie of the browser.  The callback takes the transaction out   *)
(* under the mutex, asks the provider who signed in without it, writes the *)
(* identity in one transaction and the session in another.  A second Begin *)
(* of the same browser replaces the cookie of the first.                   *)
(*                                                                         *)
(* One account: every statement of the session and OAuth stores carries    *)
(* the user's id, so the rows of two accounts never meet.                  *)
(***************************************************************************)
EXTENDS Integers, FiniteSets

CONSTANTS Browsers, Logins,   \* Logins: one per state value that Begin draws
          Sessions,           \* web session ids
          MaxTransactions,    \* bound of Flow.transactions
          None

ASSUME SignInAssumption ==
    /\ MaxTransactions \in Nat \ {0}
    /\ None \notin Browsers \cup Logins

VARIABLES
    transactions,  \* Flow.transactions: the logins the gateway remembers
    startedBy,     \* the browser a login was begun by
    tooOld,        \* logins whose TTL has passed
    binding,       \* the login-binding cookie of each browser
    callback,      \* the callback in flight for a login: its step and browser
    session,       \* rows of web_sessions: their login, and the browser that
                   \* holds the cookie, None when the answer was lost
    ended          \* sessions revoked or expired

signInVars == <<transactions, startedBy, tooOld, binding, callback, session, ended>>

Callbacks == [at : {"provider", "identity", "session"}, browser : Browsers]
SessionRows == [login : Logins, browser : Browsers \cup {None}]

\* No callback in flight and no row are None.
ASSUME SignInRowAssumption == None \notin Callbacks \cup SessionRows

SignInTypeOK ==
    /\ transactions \subseteq Logins
    /\ startedBy \in [Logins -> Browsers \cup {None}]
    /\ tooOld \subseteq Logins
    /\ binding \in [Browsers -> Logins \cup {None}]
    /\ callback \in [Logins -> Callbacks \cup {None}]
    /\ session \in [Sessions -> SessionRows \cup {None}]
    /\ ended \subseteq Sessions

SignInInit ==
    /\ transactions = {}
    /\ startedBy = [l \in Logins |-> None]
    /\ tooOld = {}
    /\ binding = [b \in Browsers |-> None]
    /\ callback = [l \in Logins |-> None]
    /\ session = [s \in Sessions |-> None]
    /\ ended = {}

\* Service.Validate: the row exists, is not revoked and not expired.
Validate(s) == session[s] # None /\ s \notin ended

\* A request carries the cookie of a valid session.
SignedIn(s) == Validate(s) /\ session[s].browser # None

-----------------------------------------------------------------------------
(* The login transaction *)

\* Only a full memory is purged of what is too old.
Purged == IF Cardinality(transactions) >= MaxTransactions
          THEN transactions \ tooOld
          ELSE transactions

\* Begin draws a state nobody had before and sets the binding cookie.
BeginLogin(l, b) ==
    /\ startedBy[l] = None
    /\ Cardinality(Purged) < MaxTransactions
    /\ transactions' = Purged \cup {l}
    /\ startedBy' = [startedBy EXCEPT ![l] = b]
    /\ binding' = [binding EXCEPT ![b] = l]
    /\ UNCHANGED <<tooOld, callback, session, ended>>

\* ErrTooManyTransactions; the cookie is left alone.
BeginLoginRefused ==
    /\ Cardinality(Purged) >= MaxTransactions
    /\ transactions' = Purged
    /\ UNCHANGED <<startedBy, tooOld, binding, callback, session, ended>>

\* The TTL of a login passes.
LoginLapses(l) ==
    /\ l \in transactions
    /\ tooOld' = tooOld \cup {l}
    /\ UNCHANGED <<transactions, startedBy, binding, callback, session, ended>>

\* The cookies after the answer to browser b, which clears the login cookie:
\* unless the answer is lost.
Answered(b) == {binding, [binding EXCEPT ![b] = None]}

\* Mutant: the callback leaves the transaction in the memory.
CompleteTakes_Keeps(l, b) ==
    /\ l \in transactions \ tooOld
    /\ binding[b] = l
    /\ callback' = [callback EXCEPT ![l] = [at |-> "provider", browser |-> b]]
    /\ UNCHANGED <<transactions, startedBy, tooOld, binding, session, ended>>

\* A browser returns from the provider with the state of a login that is in
\* time and with that login's cookie: the transaction is taken.  The cookie is
\* cleared by the response, so until then the browser may send it again.
CompleteTakes(l, b) ==
    /\ l \in transactions \ tooOld
    /\ binding[b] = l
    /\ transactions' = transactions \ {l}
    /\ callback' = [callback EXCEPT ![l] = [at |-> "provider", browser |-> b]]
    /\ UNCHANGED <<startedBy, tooOld, binding, session, ended>>

\* The state is unknown, too old or another browser's: it is taken all the
\* same, and the response clears the cookie.  A browser without a cookie is
\* refused before, with no effect.
CompleteRefuses(l, b) ==
    /\ startedBy[l] # None
    /\ binding[b] # None
    /\ l \notin transactions \ tooOld \/ binding[b] # l
    /\ transactions' = transactions \ {l}
    /\ binding' \in Answered(b)
    /\ UNCHANGED <<startedBy, tooOld, callback, session, ended>>

InCallback(l, step) == callback[l] # None /\ callback[l].at = step

\* Code exchange, user info and id token agree on who signed in.
ProviderAnswers(l) ==
    /\ InCallback(l, "provider")
    /\ callback' = [callback EXCEPT ![l].at = "identity"]
    /\ UNCHANGED <<transactions, startedBy, tooOld, binding, session, ended>>

\* The identity of a Roblox subject is bound to one account for good, so the
\* upsert leaves the account as it was and finds it.
UpsertRobloxIdentity(l) ==
    /\ InCallback(l, "identity")
    /\ callback' = [callback EXCEPT ![l].at = "session"]
    /\ UNCHANGED <<transactions, startedBy, tooOld, binding, session, ended>>

\* Service.Create; the answer sets the session cookie of the browser and
\* clears its login cookie, or it is lost and nobody holds the session.
CreateSession(l, s) ==
    /\ InCallback(l, "session")
    /\ session[s] = None
    /\ LET b == callback[l].browser IN
          \/ /\ session' = [session EXCEPT ![s] = [login |-> l, browser |-> b]]
             /\ binding' = [binding EXCEPT ![b] = None]
          \/ /\ session' = [session EXCEPT ![s] = [login |-> l, browser |-> None]]
             /\ UNCHANGED binding
    /\ callback' = [callback EXCEPT ![l] = None]
    /\ UNCHANGED <<transactions, startedBy, tooOld, ended>>

\* The provider denies, a step fails or the browser goes away: nothing is
\* undone and the transaction is gone.
CallbackFails(l) ==
    /\ callback[l] # None
    /\ callback' = [callback EXCEPT ![l] = None]
    /\ binding' \in Answered(callback[l].browser)
    /\ UNCHANGED <<transactions, startedBy, tooOld, session, ended>>

-----------------------------------------------------------------------------
(* The web session *)

\* Logout and "sign out everywhere": a request whose session is valid ends
\* every session there is.
RevokeAll ==
    /\ \E s \in Sessions : SignedIn(s)
    /\ ended' = ended \cup {s \in Sessions : session[s] # None}
    /\ UNCHANGED <<transactions, startedBy, tooOld, binding, callback, session>>

\* The lifetime of a session passes.
SessionExpires(s) ==
    /\ Validate(s)
    /\ ended' = ended \cup {s}
    /\ UNCHANGED <<transactions, startedBy, tooOld, binding, callback, session>>

\* The gateway stops and starts: its memory and its callbacks are gone.
LoginsAreForgotten ==
    /\ transactions' = {}
    /\ callback' = [l \in Logins |-> None]
    /\ UNCHANGED <<startedBy, tooOld, binding, session, ended>>

SignInNext ==
    \/ \E l \in Logins, b \in Browsers : 
          BeginLogin(l, b) \/ CompleteTakes(l, b) \/ CompleteRefuses(l, b)
    \/ BeginLoginRefused
    \/ \E l \in Logins :
          \/ LoginLapses(l) \/ ProviderAnswers(l)
          \/ UpsertRobloxIdentity(l) \/ CallbackFails(l)
          \/ \E s \in Sessions : CreateSession(l, s)
    \/ RevokeAll
    \/ \E s \in Sessions : SessionExpires(s)
    \/ LoginsAreForgotten

-----------------------------------------------------------------------------
(* Properties *)

\* A login buys one session at most, and for the browser that began it: no
\* replayed callback, second tab or foreign browser turns a state value into a
\* session (Flow.Complete takes the transaction before it looks at it).
LoginBuysOneSession ==
    /\ \A s \in Sessions : session[s] # None =>
          session[s].browser \in {None, startedBy[session[s].login]}
    /\ \A s, t \in Sessions :
          (session[s] # None /\ session[t] # None
             /\ session[s].login = session[t].login) => s = t
=============================================================================
