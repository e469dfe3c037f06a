----------------------------- MODULE Enrollment ------------------------------
(***************************************************************************)
(* Pairing a Bridge: internal/device enrollment.go over the code table of  *)
(* internal/mysqlstore device_store.go and the accounts of module          *)
(* Accounts.                                                               *)
(*                                                                         *)
(* A pairing is known to the gateway's memory only (pending) until a       *)
(* signed-in user approves it, which adds a row to the code table (codes). *)
(* The Bridge polls Exchange with its code: an exchange checks the memory  *)
(* under the mutex, consumes the code in one transaction, binds the device *)
(* in a second one and forgets the pairing under the mutex again, and a    *)
(* Bridge that gave up waiting may have another exchange in flight.  The   *)
(* gateway may stop between any two of these steps.                        *)
(***************************************************************************)
EXTENDS Accounts, Integers, FiniteSets

CONSTANTS Pairings,    \* pairing codes, each minted once by Begin
          Exchanges,   \* exchange requests in flight at a time
          MaxPending   \* bound of the memory

ASSUME EnrollmentAssumption ==
    /\ MaxPending \in Nat \ {0}
    /\ None \notin Pairings \cup Exchanges

VARIABLES
    begun,     \* pairing codes that Begin has handed out
    pending,   \* Enrollment.pending
    codes,     \* rows of device_enrollment_codes
    exchange,  \* what an Exchange call holds in its local variables
    issued     \* the pairing a credential was minted for: the correlation of
               \* the audit event written with it

enrollmentVars == <<accountVars, begun, pending, codes, exchange, issued>>

Claims == [device : Devices, fp : Fingerprints]
Entries == [claim : Claims, status : {"pending", "approved", "license_required"},
            approvedBy : Users \cup {None}, elapsed : BOOLEAN]
Rows == [user : Users, consumed : BOOLEAN]
Calls == [at : {"consume", "bind", "forget"}, code : Pairings, claim : Claims,
          approvedBy : Users]

\* The absence of an entry is not an entry.
ASSUME EntryAssumption == None \notin Entries \cup Rows \cup Calls

EnrollmentTypeOK ==
    /\ AccountsTypeOK
    /\ begun \subseteq Pairings
    /\ pending \in [Pairings -> Entries \cup {None}]
    /\ codes \in [Pairings -> Rows \cup {None}]
    /\ exchange \in [Exchanges -> Calls \cup {None}]
    /\ issued \in [Creds -> Pairings \cup {None}]

EnrollmentInit ==
    /\ AccountsInit
    /\ begun = {}
    /\ pending = [p \in Pairings |-> None]
    /\ codes = [p \in Pairings |-> None]
    /\ exchange = [x \in Exchanges |-> None]
    /\ issued = [k \in Creds |-> None]

Elapsed(p) == pending[p] # None /\ pending[p].elapsed

\* evictExpiredLocked.
Evicted == [p \in Pairings |-> IF Elapsed(p) THEN None ELSE pending[p]]

-----------------------------------------------------------------------------
(* The pairing in memory *)

\* A Bridge presents its claim and gets a code nobody had before.
Begin(p, claim) ==
    /\ p \notin begun
    /\ Cardinality({q \in Pairings : Evicted[q] # None}) < MaxPending
    /\ begun' = begun \cup {p}
    /\ pending' = [Evicted EXCEPT ![p] =
                     [claim |-> claim, status |-> "pending",
                      approvedBy |-> None, elapsed |-> FALSE]]
    /\ UNCHANGED <<accountVars, codes, exchange, issued>>

\* ErrTooManyPending, after the eviction.
BeginRefused ==
    /\ Cardinality({q \in Pairings : Evicted[q] # None}) >= MaxPending
    /\ pending' = Evicted
    /\ UNCHANGED <<accountVars, begun, codes, exchange, issued>>

\* The PendingTTL of a pairing passes.  Its row expires no sooner: CodeTTL is
\* the same length and starts at the approval.
Elapse(p) ==
    /\ pending[p] # None
    /\ pending' = [pending EXCEPT ![p].elapsed = TRUE]
    /\ UNCHANGED <<accountVars, begun, codes, exchange, issued>>

\* Lookup, Approve and Exchange forget an elapsed pairing they come across.
Forget(p) ==
    /\ Elapsed(p)
    /\ pending' = [pending EXCEPT ![p] = None]
    /\ UNCHANGED <<accountVars, begun, codes, exchange, issued>>

\* A signed-in user approves the pairing, once; the row is inserted while the
\* mutex is held.
Approve(p, u) ==
    /\ pending[p] # None
    /\ ~Elapsed(p)
    /\ pending[p].status = "pending"
    /\ codes' = [codes EXCEPT ![p] = [user |-> u, consumed |-> FALSE]]
    /\ pending' = [pending EXCEPT ![p].status = "approved", ![p].approvedBy = u]
    /\ UNCHANGED <<accountVars, begun, exchange, issued>>

-----------------------------------------------------------------------------
(* Exchange *)

At(x, label) == exchange[x] # None /\ exchange[x].at = label

\* Mutant: a pairing nobody has approved can be exchanged.
ExchangeChecks_Unapproved(x, p) ==
    /\ exchange[x] = None
    /\ pending[p] # None
    /\ ~Elapsed(p)
    /\ exchange' = [exchange EXCEPT ![x] =
                      [at |-> "consume", code |-> p, claim |-> pending[p].claim,
                       approvedBy |-> pending[p].approvedBy]]
    /\ UNCHANGED <<accountVars, begun, pending, codes, issued>>

\* The check of the memory: the pairing must be known, in time and approved.
\* What it read is used after the mutex is released.
ExchangeChecks(x, p) ==
    /\ exchange[x] = None
    /\ pending[p] # None
    /\ ~Elapsed(p)
    /\ pending[p].status # "pending"
    /\ exchange' = [exchange EXCEPT ![x] =
                      [at |-> "consume", code |-> p, claim |-> pending[p].claim,
                       approvedBy |-> pending[p].approvedBy]]
    /\ UNCHANGED <<accountVars, begun, pending, codes, issued>>

\* The exchange goes on when the row's user is the approver it read from the
\* memory; the code is consumed either way.
Binds(x) ==
    [exchange EXCEPT ![x] = IF codes[@.code].user = @.approvedBy
                            THEN [@ EXCEPT !.at = "bind"]
                            ELSE None]

\* Mutant: the transaction does not look at consumed_at.
ConsumeEnrollmentCode_Twice(x) ==
    /\ At(x, "consume")
    /\ codes[exchange[x].code] # None
    /\ codes' = [codes EXCEPT ![exchange[x].code].consumed = TRUE]
    /\ exchange' = Binds(x)
    /\ UNCHANGED <<accountVars, begun, pending, issued>>

\* The row lock decides between two exchanges of the same code.
ConsumeEnrollmentCode(x) ==
    /\ At(x, "consume")
    /\ codes[exchange[x].code] # None
    /\ ~codes[exchange[x].code].consumed
    /\ codes' = [codes EXCEPT ![exchange[x].code].consumed = TRUE]
    /\ exchange' = Binds(x)
    /\ UNCHANGED <<accountVars, begun, pending, issued>>

\* The exchange mints a credential and binds the device to the owner of the
\* row, in one transaction.
ExchangeBinds(x, k) ==
    /\ At(x, "bind")
    /\ LET c == exchange[x] IN
         BindFirstDevice(codes[c.code].user, c.claim.device, c.claim.fp, k)
    /\ issued' = [issued EXCEPT ![k] = exchange[x].code]
    /\ exchange' = [exchange EXCEPT ![x].at = "forget"]
    /\ UNCHANGED <<begun, pending, codes>>

\* The computer was used by another account or under another installation: the
\* pairing, if it is still known, shows that a license is required.
ExchangeAlreadyUsed(x) ==
    /\ At(x, "bind")
    /\ LET c == exchange[x] IN
         /\ AlreadyUsed(codes[c.code].user, c.claim.device, c.claim.fp)
         /\ pending' = IF pending[c.code] = None THEN pending
                       ELSE [pending EXCEPT ![c.code].status = "license_required"]
    /\ exchange' = [exchange EXCEPT ![x] = None]
    /\ UNCHANGED <<accountVars, begun, codes, issued>>

\* Any other failure before the binding committed: the code was consumed
\* before, the device is somebody else's, revoked or unknown to a user with a
\* trial, or the database does not answer.  A consumed code stays consumed.
ExchangeFails(x) ==
    /\ At(x, "consume") \/ At(x, "bind")
    /\ exchange' = [exchange EXCEPT ![x] = None]
    /\ UNCHANGED <<accountVars, begun, pending, codes, issued>>

\* The credential is answered to the Bridge and the pairing is forgotten.
ExchangeEnds(x) ==
    /\ At(x, "forget")
    /\ pending' = [pending EXCEPT ![exchange[x].code] = None]
    /\ exchange' = [exchange EXCEPT ![x] = None]
    /\ UNCHANGED <<accountVars, begun, codes, issued>>

\* The gateway stops and starts again: its memory is gone, the rows are not.
Restart ==
    /\ pending' = [p \in Pairings |-> None]
    /\ exchange' = [x \in Exchanges |-> None]
    /\ UNCHANGED <<accountVars, begun, codes, issued>>

\* What the dashboard and the administrator do to the same rows meanwhile.
Administer ==
    /\ \E u \in Users :
         \/ \E d \in Devices : RevokeDevice(u, d) \/ RestoreDevice(u, d)
         \/ \E d \in Devices, k \in Creds : RotateDeviceCredential(u, d, k)
         \/ RecoverIdentity(u)
    /\ UNCHANGED <<begun, pending, codes, exchange, issued>>

EnrollmentNext ==
    \/ \E p \in Pairings, claim \in Claims : Begin(p, claim)
    \/ BeginRefused
    \/ \E p \in Pairings : Elapse(p) \/ Forget(p)
    \/ \E p \in Pairings, u \in Users : Approve(p, u)
    \/ \E x \in Exchanges, p \in Pairings : ExchangeChecks(x, p)
    \/ \E x \in Exchanges, k \in Creds : ExchangeBinds(x, k)
    \/ \E x \in Exchanges : \/ ConsumeEnrollmentCode(x) \/ ExchangeAlreadyUsed(x)
                            \/ ExchangeFails(x) \/ ExchangeEnds(x)
    \/ Restart
    \/ Administer

EnrollmentSpec == EnrollmentInit /\ [][EnrollmentNext]_enrollmentVars

-----------------------------------------------------------------------------
(* Properties *)

\* A pairing code buys one credential, however many exchanges of it are in
\* flight and whenever the gateway restarts.
OneCredentialPerCode ==
    \A k, l \in Creds : issued[k] = issued[l] /\ issued[k] # None => k = l

\* A credential that a pairing bought is for the device the pairing claimed and
\* the user who approved it: as long as the pairing is remembered, it shows
\* exactly what its credential was minted for.
BoughtAsApproved ==
    \A k \in Creds :
        LET p == issued[k] IN
          p # None /\ pending[p] # None =>
            /\ pending[p].approvedBy = cred[k].user
            /\ pending[p].claim.device = cred[k].device

\* What a pairing code is: good for one credential, the one that was approved.
CodeHolds == OneCredentialPerCode /\ BoughtAsApproved

=============================================================================
