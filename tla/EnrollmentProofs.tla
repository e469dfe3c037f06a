-------------------------- MODULE EnrollmentProofs ---------------------------
(***************************************************************************)
(* The theorems about pairing, for every number of accounts, devices,      *)
(* pairings and exchanges in flight.                                       *)
(*                                                                         *)
(* OneCredentialPerCode is not inductive: that an exchange that is about   *)
(* to bind is the only one and that nothing was minted for its code yet    *)
(* follows from the row it has consumed.  BoughtAsApproved needs that what *)
(* an exchange carries is what the memory says, as long as the memory      *)
(* remembers the pairing, and that the code table agrees with both.        *)
(***************************************************************************)
EXTENDS Enrollment, AccountsProofs

\* The code table and the memory agree on who approved a pairing.
MemoryAgrees ==
    /\ \A p \in Pairings : codes[p] # None \/ pending[p] # None => p \in begun
    /\ \A p \in Pairings : pending[p] # None =>
         IF pending[p].status = "pending"
         THEN codes[p] = None
         ELSE codes[p] # None /\ codes[p].user = pending[p].approvedBy

\* An exchange carries what the code table and the memory say.
ExchangeAgrees ==
    \A x \in Exchanges : exchange[x] # None =>
        LET c == exchange[x] IN
          /\ codes[c.code] # None /\ codes[c.code].user = c.approvedBy
          /\ pending[c.code] # None =>
               /\ pending[c.code].approvedBy = c.approvedBy
               /\ pending[c.code].claim = c.claim

\* An exchange that is about to bind has consumed its code, alone, and nothing
\* was minted for the code.
BindingAlone ==
    \A x \in Exchanges : At(x, "bind") =>
        /\ codes[exchange[x].code].consumed
        /\ \A k \in Creds : issued[k] # exchange[x].code
        /\ \A y \in Exchanges :
             At(y, "bind") /\ exchange[y].code = exchange[x].code => x = y

\* What a pairing has bought: a credential of the user its row names.
IssuedRow ==
    \A k \in Creds : issued[k] # None =>
        /\ cred[k] # None
        /\ codes[issued[k]] # None
        /\ codes[issued[k]].consumed
        /\ cred[k].user = codes[issued[k]].user

EnrollmentInv ==
    /\ AccountsInv
    /\ EnrollmentTypeOK
    /\ MemoryAgrees
    /\ ExchangeAgrees
    /\ BindingAlone
    /\ IssuedRow
    /\ OneCredentialPerCode
    /\ BoughtAsApproved

\* Nothing was paired yet.
LEMMA EnrollmentInitInv == EnrollmentInit => EnrollmentInv
  BY AccountsInitInv, AccountsAssumption, EnrollmentAssumption
     DEF EnrollmentInit, EnrollmentInv, EnrollmentTypeOK, AccountsInv, MemoryAgrees,
         ExchangeAgrees, BindingAlone, IssuedRow, OneCredentialPerCode,
         BoughtAsApproved, At

\* The shape of the entries, for the provers.
LEMMA EntryShape ==
  ASSUME EnrollmentTypeOK
  PROVE  /\ \A p \in Pairings : pending[p] # None =>
              /\ pending[p] \in Entries
              /\ pending[p].claim \in Claims
              /\ pending[p].approvedBy \in Users \cup {None}
              /\ pending[p].status \in {"pending", "approved", "license_required"}
         /\ \A p \in Pairings : codes[p] # None =>
              codes[p] \in Rows /\ codes[p].user \in Users /\ codes[p].consumed \in BOOLEAN
         /\ \A x \in Exchanges : exchange[x] # None =>
              /\ exchange[x] \in Calls
              /\ exchange[x].code \in Pairings
              /\ exchange[x].claim \in Claims
              /\ exchange[x].approvedBy \in Users
         /\ \A k \in Creds : issued[k] # None => issued[k] \in Pairings
  BY DEF EnrollmentTypeOK, Entries, Rows, Calls

\* An entry that is still there after a step shows the same pairing.
EntriesStay ==
    /\ pending' \in [Pairings -> Entries \cup {None}]
    /\ \A p \in Pairings : pending'[p] # None =>
         /\ pending[p] # None
         /\ pending'[p].claim = pending[p].claim
         /\ pending'[p].approvedBy = pending[p].approvedBy
         /\ pending'[p].status = "pending" <=> pending[p].status = "pending"

\* Steps that forget entries or exchanges, and account transactions.
LEMMA ForgettingKeeps ==
  ASSUME EnrollmentInv, AccountsInv', RowsStay, EntriesStay,
         exchange' \in [Exchanges -> Calls \cup {None}],
         \A x \in Exchanges : exchange'[x] = None \/ exchange'[x] = exchange[x],
         UNCHANGED <<begun, codes, issued>>
  PROVE  EnrollmentInv'
<1> USE DEF EnrollmentInv
<1>1. EnrollmentTypeOK'
  BY DEF EnrollmentTypeOK, AccountsInv, EntriesStay
<1>2. MemoryAgrees'
  BY DEF MemoryAgrees, EntriesStay
<1>3. ExchangeAgrees'
  <2> SUFFICES ASSUME NEW x \in Exchanges, exchange'[x] # None
               PROVE  LET c == exchange[x] IN
                        /\ codes[c.code] # None /\ codes[c.code].user = c.approvedBy
                        /\ pending'[c.code] # None =>
                             /\ pending'[c.code].approvedBy = c.approvedBy
                             /\ pending'[c.code].claim = c.claim
    BY DEF ExchangeAgrees
  <2>1. exchange[x] # None /\ exchange[x].code \in Pairings
    BY EntryShape
  <2> QED BY <2>1 DEF ExchangeAgrees, EntriesStay
<1>4. BindingAlone'
  BY DEF BindingAlone, At
<1>5. IssuedRow'
  BY DEF IssuedRow, RowsStay
<1>6. OneCredentialPerCode'
  BY DEF OneCredentialPerCode
<1>7. BoughtAsApproved'
  <2> SUFFICES ASSUME NEW k \in Creds, issued[k] # None, pending'[issued[k]] # None
               PROVE  /\ pending'[issued[k]].approvedBy = cred'[k].user
                      /\ pending'[issued[k]].claim.device = cred'[k].device
    BY DEF BoughtAsApproved
  <2>1. issued[k] \in Pairings /\ cred[k] # None
    BY EntryShape DEF IssuedRow
  <2>2. /\ pending[issued[k]] # None
        /\ pending'[issued[k]].claim = pending[issued[k]].claim
        /\ pending'[issued[k]].approvedBy = pending[issued[k]].approvedBy
    BY <2>1 DEF EntriesStay
  <2> QED BY <2>1, <2>2 DEF BoughtAsApproved, RowsStay
<1> QED BY <1>1, <1>2, <1>3, <1>4, <1>5, <1>6, <1>7

\* Nothing about the accounts changes.
LEMMA AccountsStay ==
  ASSUME EnrollmentInv, UNCHANGED accountVars
  PROVE  AccountsInv' /\ RowsStay
  BY DEF EnrollmentInv, accountVars, AccountsInv, AccountsTypeOK, CredHasDevice,
         DeviceHasTrial, OneLiveCredential, RevokedHoldsNothing, Live, Owns,
         OwnsActive, RowsStay

-----------------------------------------------------------------------------
(* The memory *)

\* evictExpiredLocked leaves what it does not forget as it was.
LEMMA EvictedEntries ==
  ASSUME EnrollmentTypeOK
  PROVE  /\ Evicted \in [Pairings -> Entries \cup {None}]
         /\ \A p \in Pairings : Evicted[p] = None \/ Evicted[p] = pending[p]
  BY DEF Evicted, EnrollmentTypeOK

\* A new pairing: its code has no row, no exchange and no credential.
LEMMA BeginKeeps ==
  ASSUME EnrollmentInv, NEW p \in Pairings, NEW claim \in Claims, Begin(p, claim)
  PROVE  EnrollmentInv'
<1> USE DEF EnrollmentInv
<1> DEFINE entry == [claim |-> claim, status |-> "pending",
                     approvedBy |-> None, elapsed |-> FALSE]
<1>1. /\ AccountsInv' /\ UNCHANGED <<device, cred, trial, bound>>
  BY AccountsStay DEF Begin, accountVars
<1>2. /\ p \notin begun
      /\ begun' = begun \cup {p}
      /\ pending' = [Evicted EXCEPT ![p] = entry]
      /\ UNCHANGED <<codes, exchange, issued>>
  BY DEF Begin
<1>3. entry \in Entries /\ entry.status = "pending"
  BY DEF Entries
<1> HIDE DEF entry
<1>4. /\ pending' \in [Pairings -> Entries \cup {None}]
      /\ pending'[p] = entry
      /\ \A q \in Pairings \ {p} : pending'[q] = None \/ pending'[q] = pending[q]
  BY <1>2, <1>3, EvictedEntries
<1>5. codes[p] = None
  BY <1>2 DEF MemoryAgrees
<1>6. EnrollmentTypeOK'
  BY <1>1, <1>2, <1>4 DEF EnrollmentTypeOK, AccountsInv
<1>7. MemoryAgrees'
  BY <1>2, <1>3, <1>4, <1>5 DEF MemoryAgrees
<1>8. ExchangeAgrees'
  <2> SUFFICES ASSUME NEW x \in Exchanges, exchange[x] # None
               PROVE  LET c == exchange[x] IN
                        /\ codes[c.code] # None /\ codes[c.code].user = c.approvedBy
                        /\ pending'[c.code] # None =>
                             /\ pending'[c.code].approvedBy = c.approvedBy
                             /\ pending'[c.code].claim = c.claim
    BY <1>2 DEF ExchangeAgrees
  <2>1. exchange[x].code \in Pairings /\ codes[exchange[x].code] # None
    BY EntryShape DEF ExchangeAgrees
  <2>2. exchange[x].code # p
    BY <1>5, <2>1
  <2> QED BY <1>4, <2>1, <2>2 DEF ExchangeAgrees
<1>9. BindingAlone' /\ IssuedRow' /\ OneCredentialPerCode'
  BY <1>1, <1>2 DEF BindingAlone, At, IssuedRow, OneCredentialPerCode
<1>10. BoughtAsApproved'
  <2> SUFFICES ASSUME NEW k \in Creds, issued[k] # None, pending'[issued[k]] # None
               PROVE  /\ pending'[issued[k]].approvedBy = cred[k].user
                      /\ pending'[issued[k]].claim.device = cred[k].device
    BY <1>1, <1>2 DEF BoughtAsApproved
  <2>1. issued[k] \in Pairings /\ issued[k] # p
    BY <1>5, EntryShape DEF IssuedRow
  <2> QED BY <1>4, <2>1 DEF BoughtAsApproved
<1> QED BY <1>1, <1>6, <1>7, <1>8, <1>9, <1>10

\* The approval of a pairing: no exchange carries its code and no credential was
\* minted for it, since it had no row.
LEMMA ApproveKeeps ==
  ASSUME EnrollmentInv, NEW p \in Pairings, NEW u \in Users, Approve(p, u)
  PROVE  EnrollmentInv'
<1> USE DEF EnrollmentInv
<1> DEFINE row == [user |-> u, consumed |-> FALSE]
           entry == [pending[p] EXCEPT !.status = "approved", !.approvedBy = u]
<1>1. AccountsInv' /\ UNCHANGED <<device, cred, trial, bound>>
  BY AccountsStay DEF Approve, accountVars
<1>2. /\ pending[p] # None /\ pending[p].status = "pending"
      /\ codes' = [codes EXCEPT ![p] = row]
      /\ pending' = [pending EXCEPT ![p].status = "approved", ![p].approvedBy = u]
      /\ UNCHANGED <<begun, exchange, issued>>
  BY DEF Approve
<1>3. row \in Rows /\ row.user = u
  BY DEF Rows
<1>4. row # None
  BY <1>3, EntryAssumption
<1>5. pending[p] \in Entries
  BY <1>2, EntryShape
<1>6. /\ entry \in Entries
      /\ entry.claim = pending[p].claim
      /\ entry.status = "approved"
      /\ entry.approvedBy = u
  BY <1>5 DEF Entries
<1>7. pending' = [pending EXCEPT ![p] = entry]
  BY <1>2 DEF EnrollmentTypeOK
<1> HIDE DEF row, entry
<1>8. /\ codes' \in [Pairings -> Rows \cup {None}]
      /\ codes'[p] = row
      /\ \A q \in Pairings \ {p} : codes'[q] = codes[q]
      /\ pending' \in [Pairings -> Entries \cup {None}]
      /\ pending'[p] = entry
      /\ \A q \in Pairings \ {p} : pending'[q] = pending[q]
  BY <1>2, <1>3, <1>6, <1>7 DEF EnrollmentTypeOK
<1>9. codes[p] = None
  BY <1>2 DEF MemoryAgrees
<1>10. /\ \A x \in Exchanges : exchange[x] # None =>
            exchange[x].code \in Pairings /\ exchange[x].code # p
       /\ \A k \in Creds : issued[k] # None => issued[k] \in Pairings /\ issued[k] # p
  BY <1>9, EntryShape DEF ExchangeAgrees, IssuedRow
<1>11. EnrollmentTypeOK'
  BY <1>1, <1>2, <1>8 DEF EnrollmentTypeOK, AccountsInv
<1>12. MemoryAgrees'
  <2>1. p \in begun'
    BY <1>2 DEF MemoryAgrees
  <2> QED BY <1>2, <1>3, <1>4, <1>6, <1>8, <2>1 DEF MemoryAgrees
<1>13. ExchangeAgrees'
  BY <1>2, <1>8, <1>10 DEF ExchangeAgrees
<1>14. BindingAlone'
  BY <1>2, <1>8, <1>10 DEF BindingAlone, At
<1>15. IssuedRow'
  BY <1>1, <1>2, <1>8, <1>10 DEF IssuedRow
<1>16. OneCredentialPerCode'
  BY <1>2 DEF OneCredentialPerCode
<1>17. BoughtAsApproved'
  BY <1>1, <1>2, <1>8, <1>10 DEF BoughtAsApproved
<1> QED BY <1>1, <1>11, <1>12, <1>13, <1>14, <1>15, <1>16, <1>17

-----------------------------------------------------------------------------
(* Exchange *)

\* One exchange moves on: what holds of every other one still does.
LEMMA OthersStay ==
  ASSUME EnrollmentTypeOK, NEW x \in Exchanges, NEW c \in Calls,
         exchange' = [exchange EXCEPT ![x] = c]
  PROVE  /\ exchange' \in [Exchanges -> Calls \cup {None}]
         /\ exchange'[x] = c
         /\ \A y \in Exchanges \ {x} : exchange'[y] = exchange[y]
  BY DEF EnrollmentTypeOK

\* The check of the memory copies an approved entry, which agrees with its row.
LEMMA ExchangeChecksKeeps ==
  ASSUME EnrollmentInv, NEW x \in Exchanges, NEW p \in Pairings, ExchangeChecks(x, p)
  PROVE  EnrollmentInv'
<1> USE DEF EnrollmentInv
<1> DEFINE c == [at |-> "consume", code |-> p, claim |-> pending[p].claim,
                 approvedBy |-> pending[p].approvedBy]
<1>1. AccountsInv' /\ UNCHANGED <<device, cred, trial, bound>>
  BY AccountsStay DEF ExchangeChecks, accountVars
<1>2. /\ pending[p] # None /\ pending[p].status # "pending"
      /\ exchange' = [exchange EXCEPT ![x] = c]
      /\ UNCHANGED <<begun, pending, codes, issued>>
  BY DEF ExchangeChecks
<1>3. /\ codes[p] # None /\ codes[p].user = pending[p].approvedBy
      /\ pending[p].approvedBy \in Users
      /\ pending[p].claim \in Claims
  BY <1>2, EntryShape DEF MemoryAgrees
<1>4. /\ c \in Calls
      /\ c.at = "consume" /\ c.code = p
      /\ c.claim = pending[p].claim /\ c.approvedBy = pending[p].approvedBy
  BY <1>3 DEF Calls
<1> HIDE DEF c
<1>5. /\ exchange' \in [Exchanges -> Calls \cup {None}]
      /\ exchange'[x] = c
      /\ \A y \in Exchanges \ {x} : exchange'[y] = exchange[y]
  BY <1>2, <1>4, OthersStay
<1>6. EnrollmentTypeOK'
  BY <1>1, <1>2, <1>5 DEF EnrollmentTypeOK, AccountsInv
<1>7. ExchangeAgrees'
  <2> SUFFICES ASSUME NEW y \in Exchanges, exchange'[y] # None
               PROVE  LET e == exchange'[y] IN
                        /\ codes[e.code] # None /\ codes[e.code].user = e.approvedBy
                        /\ pending[e.code] # None =>
                             /\ pending[e.code].approvedBy = e.approvedBy
                             /\ pending[e.code].claim = e.claim
    BY <1>2 DEF ExchangeAgrees
  <2>1. CASE y = x
    BY <1>3, <1>4, <1>5, <2>1
  <2>2. CASE y # x
    BY <1>5, <2>2 DEF ExchangeAgrees
  <2> QED BY <2>1, <2>2
<1>8. BindingAlone'
  BY <1>2, <1>4, <1>5 DEF BindingAlone, At
<1>9. MemoryAgrees' /\ IssuedRow' /\ OneCredentialPerCode' /\ BoughtAsApproved'
  BY <1>1, <1>2 DEF MemoryAgrees, IssuedRow, OneCredentialPerCode, BoughtAsApproved
<1> QED BY <1>1, <1>6, <1>7, <1>8, <1>9

\* The code is consumed by one exchange: a credential minted for it, or another
\* exchange about to bind it, would have consumed it before.
LEMMA ConsumeEnrollmentCodeKeeps ==
  ASSUME EnrollmentInv, NEW x \in Exchanges, ConsumeEnrollmentCode(x)
  PROVE  EnrollmentInv'
<1> USE DEF EnrollmentInv
<1> DEFINE p == exchange[x].code
           c == [exchange[x] EXCEPT !.at = "bind"]
           row == [codes[p] EXCEPT !.consumed = TRUE]
<1>1. AccountsInv' /\ UNCHANGED <<device, cred, trial, bound>>
  BY AccountsStay DEF ConsumeEnrollmentCode, accountVars
<1>2. /\ exchange[x] # None /\ exchange[x].at = "consume"
      /\ codes[p] # None /\ ~codes[p].consumed
      /\ codes' = [codes EXCEPT ![p].consumed = TRUE]
      /\ exchange' = [exchange EXCEPT ![x].at = "bind"]
      /\ UNCHANGED <<begun, pending, issued>>
  <2>1. exchange[x] # None /\ codes[p].user = exchange[x].approvedBy
    BY DEF ConsumeEnrollmentCode, At, ExchangeAgrees
  <2>2. exchange' = [exchange EXCEPT ![x] = [exchange[x] EXCEPT !.at = "bind"]]
    BY <2>1 DEF ConsumeEnrollmentCode, Binds
  <2> QED BY <2>2 DEF ConsumeEnrollmentCode, At
<1>3. /\ exchange[x] \in Calls /\ p \in Pairings
      /\ codes[p] \in Rows
  BY <1>2, EntryShape
<1>4. /\ c \in Calls
      /\ c.at = "bind" /\ c.code = p
      /\ c.claim = exchange[x].claim /\ c.approvedBy = exchange[x].approvedBy
  BY <1>3 DEF Calls
<1>5. row \in Rows /\ row.user = codes[p].user /\ row.consumed
  BY <1>3 DEF Rows
<1>6. /\ exchange' = [exchange EXCEPT ![x] = c]
      /\ codes' = [codes EXCEPT ![p] = row]
  BY <1>2 DEF EnrollmentTypeOK
<1>7. row # None /\ c # None
  BY <1>4, <1>5, EntryAssumption
<1> HIDE DEF c, row
<1>8. /\ exchange' \in [Exchanges -> Calls \cup {None}]
      /\ exchange'[x] = c
      /\ \A y \in Exchanges \ {x} : exchange'[y] = exchange[y]
  BY <1>4, <1>6, OthersStay
<1>9. /\ codes' \in [Pairings -> Rows \cup {None}]
      /\ codes'[p] = row
      /\ \A q \in Pairings \ {p} : codes'[q] = codes[q]
  BY <1>3, <1>5, <1>6 DEF EnrollmentTypeOK
<1>10. \A q \in Pairings : /\ codes'[q] = None <=> codes[q] = None
                           /\ codes[q] # None => codes'[q].user = codes[q].user
                           /\ codes[q] # None /\ codes[q].consumed => codes'[q].consumed
  BY <1>2, <1>5, <1>7, <1>9
<1> HIDE DEF p
<1>11. EnrollmentTypeOK'
  BY <1>1, <1>2, <1>8, <1>9 DEF EnrollmentTypeOK, AccountsInv
<1>12. MemoryAgrees'
  BY <1>2, <1>10 DEF MemoryAgrees
<1>13. ExchangeAgrees'
  <2> SUFFICES ASSUME NEW y \in Exchanges, exchange'[y] # None
               PROVE  LET e == exchange'[y] IN
                        /\ codes'[e.code] # None /\ codes'[e.code].user = e.approvedBy
                        /\ pending[e.code] # None =>
                             /\ pending[e.code].approvedBy = e.approvedBy
                             /\ pending[e.code].claim = e.claim
    BY <1>2 DEF ExchangeAgrees
  <2>1. /\ exchange[y] # None
        /\ exchange'[y].code = exchange[y].code
        /\ exchange'[y].claim = exchange[y].claim
        /\ exchange'[y].approvedBy = exchange[y].approvedBy
    BY <1>2, <1>4, <1>8 DEF p
  <2>2. exchange[y].code \in Pairings
    BY <2>1, EntryShape
  <2> QED BY <1>10, <2>1, <2>2 DEF ExchangeAgrees
<1>14. /\ \A k \in Creds : issued[k] # p
       /\ \A y \in Exchanges : At(y, "bind") => exchange[y].code # p
  <2>1. p # None
    BY <1>3, EnrollmentAssumption
  <2> QED BY <1>2, <2>1 DEF IssuedRow, BindingAlone, p
<1>15. BindingAlone'
  <2> SUFFICES ASSUME NEW y \in Exchanges, At(y, "bind")'
               PROVE  /\ codes'[exchange'[y].code].consumed
                      /\ \A k \in Creds : issued[k] # exchange'[y].code
                      /\ \A z \in Exchanges :
                           At(z, "bind")' /\ exchange'[z].code = exchange'[y].code
                             => y = z
    BY <1>2 DEF BindingAlone
  <2>1. \A z \in Exchanges \ {x} :
          At(z, "bind")' => At(z, "bind") /\ exchange'[z].code = exchange[z].code
                                          /\ exchange'[z].code # p
    BY <1>8, <1>14 DEF At
  <2>2. CASE y = x
    BY <1>4, <1>5, <1>8, <1>9, <1>14, <2>1, <2>2
  <2>3. CASE y # x
    <3>1. At(y, "bind") /\ exchange'[y].code = exchange[y].code /\ exchange[y].code # p
      BY <2>1, <2>3
    <3>2. exchange[y].code \in Pairings /\ codes[exchange[y].code] # None
      BY <3>1, EntryShape DEF At, ExchangeAgrees
    <3>3. /\ codes[exchange[y].code].consumed
          /\ \A k \in Creds : issued[k] # exchange[y].code
          /\ \A z \in Exchanges :
               At(z, "bind") /\ exchange[z].code = exchange[y].code => y = z
      BY <3>1 DEF BindingAlone
    <3>4. exchange'[x].code = p
      BY <1>4, <1>8
    <3> QED BY <1>10, <2>1, <3>1, <3>2, <3>3, <3>4
  <2> QED BY <2>2, <2>3
<1>16. IssuedRow'
  <2>1. \A k \in Creds : issued[k] # None => issued[k] \in Pairings
    BY EntryShape
  <2> QED BY <1>1, <1>2, <1>10, <2>1 DEF IssuedRow
<1>17. OneCredentialPerCode' /\ BoughtAsApproved'
  BY <1>1, <1>2 DEF OneCredentialPerCode, BoughtAsApproved
<1> QED BY <1>1, <1>11, <1>12, <1>13, <1>15, <1>16, <1>17

\* The binding mints the one credential of the code, for the user its row names,
\* who is the one the memory names.
LEMMA ExchangeBindsKeeps ==
  ASSUME EnrollmentInv, NEW x \in Exchanges, NEW k \in Creds, ExchangeBinds(x, k)
  PROVE  EnrollmentInv'
<1> USE DEF EnrollmentInv
<1> DEFINE p == exchange[x].code
           c == [exchange[x] EXCEPT !.at = "forget"]
<1>1. /\ At(x, "bind")
      /\ BindFirstDevice(codes[p].user, exchange[x].claim.device,
                         exchange[x].claim.fp, k)
      /\ issued' = [issued EXCEPT ![k] = p]
      /\ exchange' = [exchange EXCEPT ![x].at = "forget"]
      /\ UNCHANGED <<begun, pending, codes>>
  BY DEF ExchangeBinds
<1>2. /\ exchange[x] # None /\ exchange[x] \in Calls /\ p \in Pairings
      /\ exchange[x].claim \in Claims
      /\ codes[p] # None /\ codes[p].user \in Users
      /\ codes[p].user = exchange[x].approvedBy
      /\ codes[p].consumed
      /\ pending[p] # None => /\ pending[p].approvedBy = exchange[x].approvedBy
                              /\ pending[p].claim = exchange[x].claim
      /\ \A l \in Creds : issued[l] # p
      /\ \A y \in Exchanges : At(y, "bind") /\ exchange[y].code = p => x = y
  BY <1>1, EntryShape DEF At, ExchangeAgrees, BindingAlone
<1>3. exchange[x].claim.device \in Devices /\ exchange[x].claim.fp \in Fingerprints
  BY <1>2 DEF Claims
<1>4. /\ AccountsInv'
      /\ RowsStay
      /\ cred[k] = None
      /\ cred'[k] # None /\ cred'[k].user = codes[p].user
      /\ cred'[k].device = exchange[x].claim.device
  BY <1>1, <1>2, <1>3, BindFirstDeviceStays
<1>5. /\ c \in Calls
      /\ c.at = "forget" /\ c.code = p
      /\ c.claim = exchange[x].claim /\ c.approvedBy = exchange[x].approvedBy
  BY <1>2 DEF Calls
<1>6. exchange' = [exchange EXCEPT ![x] = c]
  BY <1>1 DEF EnrollmentTypeOK
<1> HIDE DEF c
<1>7. /\ exchange' \in [Exchanges -> Calls \cup {None}]
      /\ exchange'[x] = c
      /\ \A y \in Exchanges \ {x} : exchange'[y] = exchange[y]
  BY <1>5, <1>6, OthersStay
<1>8. /\ issued' \in [Creds -> Pairings \cup {None}]
      /\ issued'[k] = p
      /\ \A l \in Creds \ {k} : issued'[l] = issued[l]
  BY <1>1, <1>2 DEF EnrollmentTypeOK
<1>9. p # None
  BY <1>2, EnrollmentAssumption
<1>10. EnrollmentTypeOK'
  BY <1>1, <1>4, <1>7, <1>8 DEF EnrollmentTypeOK, AccountsInv
<1>11. MemoryAgrees'
  BY <1>1 DEF MemoryAgrees
<1>12. ExchangeAgrees'
  <2> SUFFICES ASSUME NEW y \in Exchanges, exchange'[y] # None
               PROVE  LET e == exchange'[y] IN
                        /\ codes[e.code] # None /\ codes[e.code].user = e.approvedBy
                        /\ pending[e.code] # None =>
                             /\ pending[e.code].approvedBy = e.approvedBy
                             /\ pending[e.code].claim = e.claim
    BY <1>1 DEF ExchangeAgrees
  <2>1. /\ exchange[y] # None
        /\ exchange'[y].code = exchange[y].code
        /\ exchange'[y].claim = exchange[y].claim
        /\ exchange'[y].approvedBy = exchange[y].approvedBy
    BY <1>2, <1>5, <1>7
  <2> QED BY <2>1 DEF ExchangeAgrees
<1>13. BindingAlone'
  <2> SUFFICES ASSUME NEW y \in Exchanges, At(y, "bind")'
               PROVE  /\ codes[exchange'[y].code].consumed
                      /\ \A l \in Creds : issued'[l] # exchange'[y].code
                      /\ \A z \in Exchanges :
                           At(z, "bind")' /\ exchange'[z].code = exchange'[y].code
                             => y = z
    BY <1>1 DEF BindingAlone
  <2>1. \A z \in Exchanges : At(z, "bind")' => /\ z # x
                                               /\ At(z, "bind")
                                               /\ exchange'[z].code = exchange[z].code
                                               /\ exchange[z].code # p
    BY <1>2, <1>5, <1>7 DEF At
  <2> HIDE DEF p
  <2>2. /\ codes[exchange[y].code].consumed
        /\ \A l \in Creds : issued[l] # exchange[y].code
        /\ \A z \in Exchanges :
             At(z, "bind") /\ exchange[z].code = exchange[y].code => y = z
    BY <2>1 DEF BindingAlone
  <2> QED BY <1>8, <2>1, <2>2
<1>14. IssuedRow'
  <2> SUFFICES ASSUME NEW l \in Creds, issued'[l] # None
               PROVE  /\ cred'[l] # None
                      /\ codes[issued'[l]] # None
                      /\ codes[issued'[l]].consumed
                      /\ cred'[l].user = codes[issued'[l]].user
    BY <1>1 DEF IssuedRow
  <2>1. CASE l = k
    BY <1>2, <1>4, <1>8, <2>1
  <2>2. CASE l # k
    BY <1>4, <1>8, <2>2 DEF IssuedRow, RowsStay
  <2> QED BY <2>1, <2>2
<1>15. OneCredentialPerCode'
  BY <1>2, <1>8 DEF OneCredentialPerCode
<1>16. BoughtAsApproved'
  <2> SUFFICES ASSUME NEW l \in Creds, issued'[l] # None, pending[issued'[l]] # None
               PROVE  /\ pending[issued'[l]].approvedBy = cred'[l].user
                      /\ pending[issued'[l]].claim.device = cred'[l].device
    BY <1>1 DEF BoughtAsApproved
  <2>1. CASE l = k
    BY <1>2, <1>4, <1>8, <2>1
  <2>2. CASE l # k
    <3>1. issued'[l] = issued[l] /\ cred[l] # None
      BY <1>8, <2>2 DEF IssuedRow
    <3> QED BY <1>4, <3>1 DEF BoughtAsApproved, RowsStay
  <2> QED BY <2>1, <2>2
<1> QED BY <1>4, <1>10, <1>11, <1>12, <1>13, <1>14, <1>15, <1>16

-----------------------------------------------------------------------------
(* The steps that forget *)

\* Every other step: it forgets entries or exchanges, or changes the accounts.
LEMMA OtherStepsKeep ==
  ASSUME EnrollmentInv,
         \/ BeginRefused
         \/ \E p \in Pairings : Elapse(p) \/ Forget(p)
         \/ \E x \in Exchanges : \/ ExchangeAlreadyUsed(x)
                                 \/ ExchangeFails(x) \/ ExchangeEnds(x)
         \/ Restart
         \/ Administer
         \/ UNCHANGED enrollmentVars
  PROVE  EnrollmentInv'
<1> USE DEF EnrollmentInv
<1>0. /\ pending \in [Pairings -> Entries \cup {None}]
      /\ exchange \in [Exchanges -> Calls \cup {None}]
  BY DEF EnrollmentTypeOK
<1>1. ASSUME NEW q \in Pairings, NEW f \in Entries,
             pending' = [pending EXCEPT ![q] = f], pending[q] # None,
             f.claim = pending[q].claim, f.approvedBy = pending[q].approvedBy,
             f.status = "pending" <=> pending[q].status = "pending"
      PROVE  EntriesStay
  BY <1>0, <1>1 DEF EntriesStay
<1>2. ASSUME pending' \in [Pairings -> Entries \cup {None}],
             \A p \in Pairings : pending'[p] = None \/ pending'[p] = pending[p]
      PROVE  EntriesStay
  BY <1>2 DEF EntriesStay
<1>3. CASE BeginRefused
  <2>1. EntriesStay
    BY <1>2, <1>3, EvictedEntries DEF BeginRefused
  <2> QED BY <1>0, <1>3, <2>1, AccountsStay, ForgettingKeeps DEF BeginRefused
<1>4. ASSUME NEW p \in Pairings, Elapse(p)
      PROVE  EnrollmentInv'
  <2> DEFINE f == [pending[p] EXCEPT !.elapsed = TRUE]
  <2>1. pending[p] # None /\ pending[p] \in Entries
    BY <1>4, EntryShape DEF Elapse
  <2>2. /\ f \in Entries /\ f.claim = pending[p].claim
        /\ f.approvedBy = pending[p].approvedBy /\ f.status = pending[p].status
    BY <2>1 DEF Entries
  <2>3. pending' = [pending EXCEPT ![p] = f]
    BY <1>0, <1>4 DEF Elapse
  <2> HIDE DEF f
  <2>4. EntriesStay
    BY <1>1, <2>1, <2>2, <2>3
  <2> QED BY <1>0, <1>4, <2>4, AccountsStay, ForgettingKeeps DEF Elapse
<1>5. ASSUME NEW p \in Pairings, Forget(p)
      PROVE  EnrollmentInv'
  <2>1. EntriesStay
    BY <1>0, <1>2, <1>5 DEF Forget
  <2> QED BY <1>0, <1>5, <2>1, AccountsStay, ForgettingKeeps DEF Forget
<1>6. ASSUME NEW x \in Exchanges, ExchangeAlreadyUsed(x)
      PROVE  EnrollmentInv'
  <2> DEFINE p == exchange[x].code
             f == [pending[p] EXCEPT !.status = "license_required"]
  <2>1. /\ exchange[x] # None /\ p \in Pairings
        /\ codes[p] # None
        /\ pending' = IF pending[p] = None THEN pending
                      ELSE [pending EXCEPT ![p].status = "license_required"]
        /\ exchange' = [exchange EXCEPT ![x] = None]
        /\ UNCHANGED <<accountVars, begun, codes, issued>>
    BY <1>6, EntryShape DEF ExchangeAlreadyUsed, At, ExchangeAgrees
  <2>2. EntriesStay
    <3>1. CASE pending[p] = None
      BY <1>0, <1>2, <2>1, <3>1
    <3>2. CASE pending[p] # None
      <4>1. pending[p] \in Entries /\ pending[p].status # "pending"
        BY <2>1, <3>2, EntryShape DEF MemoryAgrees
      <4>2. /\ f \in Entries /\ f.claim = pending[p].claim
            /\ f.approvedBy = pending[p].approvedBy /\ f.status = "license_required"
        BY <4>1 DEF Entries
      <4>3. pending' = [pending EXCEPT ![p] = f]
        BY <1>0, <2>1, <3>2
      <4> HIDE DEF f, p
      <4> QED BY <1>1, <2>1, <3>2, <4>1, <4>2, <4>3
    <3> QED BY <3>1, <3>2
  <2>3. /\ exchange' \in [Exchanges -> Calls \cup {None}]
        /\ \A y \in Exchanges : exchange'[y] = None \/ exchange'[y] = exchange[y]
    BY <1>0, <2>1
  <2> HIDE DEF p
  <2> QED BY <2>1, <2>2, <2>3, AccountsStay, ForgettingKeeps
<1>7. ASSUME NEW x \in Exchanges, ExchangeFails(x)
      PROVE  EnrollmentInv'
  <2>1. EntriesStay
    BY <1>0, <1>2, <1>7 DEF ExchangeFails
  <2>2. /\ exchange' \in [Exchanges -> Calls \cup {None}]
        /\ \A y \in Exchanges : exchange'[y] = None \/ exchange'[y] = exchange[y]
        /\ UNCHANGED <<accountVars, begun, codes, issued>>
    BY <1>0, <1>7 DEF ExchangeFails
  <2> QED BY <2>1, <2>2, AccountsStay, ForgettingKeeps
<1>8. ASSUME NEW x \in Exchanges, ExchangeEnds(x)
      PROVE  EnrollmentInv'
  <2>1. EntriesStay
    BY <1>0, <1>2, <1>8 DEF ExchangeEnds
  <2>2. /\ exchange' \in [Exchanges -> Calls \cup {None}]
        /\ \A y \in Exchanges : exchange'[y] = None \/ exchange'[y] = exchange[y]
        /\ UNCHANGED <<accountVars, begun, codes, issued>>
    BY <1>0, <1>8 DEF ExchangeEnds
  <2> QED BY <2>1, <2>2, AccountsStay, ForgettingKeeps
<1>9. CASE Restart
  <2>1. EntriesStay
    BY <1>2, <1>9 DEF Restart
  <2>2. /\ exchange' \in [Exchanges -> Calls \cup {None}]
        /\ \A y \in Exchanges : exchange'[y] = None \/ exchange'[y] = exchange[y]
        /\ UNCHANGED <<accountVars, begun, codes, issued>>
    BY <1>9 DEF Restart
  <2> QED BY <2>1, <2>2, AccountsStay, ForgettingKeeps
<1>10. CASE Administer
  <2>1. AccountsInv' /\ RowsStay
    BY <1>10, AdministrationStays DEF Administer
  <2>2. EntriesStay
    BY <1>0, <1>2, <1>10 DEF Administer
  <2> QED BY <1>0, <1>10, <2>1, <2>2, ForgettingKeeps DEF Administer
<1>11. CASE UNCHANGED enrollmentVars
  <2>1. EntriesStay
    BY <1>0, <1>2, <1>11 DEF enrollmentVars
  <2> QED BY <1>0, <1>11, <2>1, AccountsStay, ForgettingKeeps DEF enrollmentVars
<1> QED BY <1>3, <1>4, <1>5, <1>6, <1>7, <1>8, <1>9, <1>10, <1>11

-----------------------------------------------------------------------------
(* The theorems *)

\* The invariant, for every behaviour of the pairing.
THEOREM EnrollmentInvariant == EnrollmentSpec => []EnrollmentInv
<1>1. EnrollmentInit => EnrollmentInv
  BY EnrollmentInitInv
<1>2. EnrollmentInv /\ [EnrollmentNext]_enrollmentVars => EnrollmentInv'
  <2> SUFFICES ASSUME EnrollmentInv, [EnrollmentNext]_enrollmentVars
               PROVE  EnrollmentInv'
    OBVIOUS
  <2>1. ASSUME NEW p \in Pairings, NEW claim \in Claims, Begin(p, claim)
        PROVE  EnrollmentInv'
    BY <2>1, BeginKeeps
  <2>2. ASSUME NEW p \in Pairings, NEW u \in Users, Approve(p, u)
        PROVE  EnrollmentInv'
    BY <2>2, ApproveKeeps
  <2>3. ASSUME NEW x \in Exchanges, NEW p \in Pairings, ExchangeChecks(x, p)
        PROVE  EnrollmentInv'
    BY <2>3, ExchangeChecksKeeps
  <2>4. ASSUME NEW x \in Exchanges, NEW k \in Creds, ExchangeBinds(x, k)
        PROVE  EnrollmentInv'
    BY <2>4, ExchangeBindsKeeps
  <2>5. ASSUME NEW x \in Exchanges, ConsumeEnrollmentCode(x)
        PROVE  EnrollmentInv'
    BY <2>5, ConsumeEnrollmentCodeKeeps
  <2> QED BY <2>1, <2>2, <2>3, <2>4, <2>5, OtherStepsKeep DEF EnrollmentNext
<1> QED BY <1>1, <1>2, PTL DEF EnrollmentSpec

\* The state of a pairing is well formed.
THEOREM EnrollmentTypeCorrect == EnrollmentSpec => []EnrollmentTypeOK
<1>1. EnrollmentInv => EnrollmentTypeOK
  BY DEF EnrollmentInv
<1> QED BY <1>1, EnrollmentInvariant, PTL

\* However many exchanges of one code are in flight, and whenever the gateway
\* restarts, the code buys at most one credential.
THEOREM CodeBuysOnce == EnrollmentSpec => []OneCredentialPerCode
<1>1. EnrollmentInv => OneCredentialPerCode
  BY DEF EnrollmentInv
<1> QED BY <1>1, EnrollmentInvariant, PTL

\* What a code buys is the claimed device's credential, for its approver.
THEOREM CodeBuysAsApproved == EnrollmentSpec => []BoughtAsApproved
<1>1. EnrollmentInv => BoughtAsApproved
  BY DEF EnrollmentInv
<1> QED BY <1>1, EnrollmentInvariant, PTL

\* Pairing, rotation and recovery together leave a device one live credential.
THEOREM DeviceHasOneCredential == EnrollmentSpec => []OneLiveCredential
<1>1. EnrollmentInv => OneLiveCredential
  BY DEF EnrollmentInv, AccountsInv
<1> QED BY <1>1, EnrollmentInvariant, PTL

\* Pairing a revoked device gives it no credential.
THEOREM RevokedDeviceHoldsNothing == EnrollmentSpec => []RevokedHoldsNothing
<1>1. EnrollmentInv => RevokedHoldsNothing
  BY DEF EnrollmentInv, AccountsInv
<1> QED BY <1>1, EnrollmentInvariant, PTL

\* Both facts about the credentials of a device at once.
THEOREM CredentialsAreSound == EnrollmentSpec => []CredentialsHold
BY DeviceHasOneCredential, RevokedDeviceHoldsNothing, PTL DEF CredentialsHold

\* Both facts about a pairing code at once.
THEOREM CodesAreSound == EnrollmentSpec => []CodeHolds
BY CodeBuysOnce, CodeBuysAsApproved, PTL DEF CodeHolds
=============================================================================
