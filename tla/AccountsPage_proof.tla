-------------------------- MODULE AccountsPage_proof --------------------------
(***************************************************************************)
(* Proofs about AccountsPage, for any accounts, domains and bounds: the    *)
(* dialog saves an account with its own domains.                           *)
(***************************************************************************)
EXTENDS AccountsPage, TLAPS

\* The text is of the account whose dialog was opened last, which is the one
\* that is open; so it is of the account it is saved for.  (TypeOK alone is not
\* inductive: the domains of a text that was not loaded have no type.)
DialogInv ==
  /\ TypeOK
  /\ editingAccount # NoAccount => editingRef = editingAccount
  /\ adminDomains # NotLoaded => adminDomains.of = editingRef
  /\ save.at \in {"update", "domains"} /\ save.text # NotLoaded =>
       save.text.of = save.account
  /\ save.at = "domains" => save.text # NotLoaded

-----------------------------------------------------------------------------
LEMMA DialogInit == Init => DialogInv
  BY PageAssumption DEF Init, DialogInv, TypeOK, NoSave

\* What a PUT of the domains writes.
LEMMA SavedDomains ==
  ASSUME DialogInv, save.at = "domains"
  PROVE  [rows EXCEPT ![save.account] = save.text.domains] \in [Account -> SUBSET Domain]
<1>1. save \in Save
  BY DEF DialogInv, TypeOK, Listing, NoSave
<1>2. save.text \in Text
  BY <1>1 DEF DialogInv, Save
<1> QED BY <1>2 DEF DialogInv, TypeOK, Text

LEMMA DialogStep == DialogInv /\ [Next]_vars => DialogInv'
<1> SUFFICES ASSUME DialogInv, [Next]_vars PROVE DialogInv'
  OBVIOUS
<1> USE PageAssumption DEF DialogInv, TypeOK, server
<1>1. CASE UNCHANGED vars
  BY <1>1 DEF vars
<1>2. ASSUME NEW a \in Account, NEW n \in Number, StartEdit(a, n) PROVE DialogInv'
  <2>1. [account |-> a, number |-> n, answered |-> FALSE, domains |-> {}] \in Load
    BY DEF Load
  <2>2. loads' \subseteq Load
    BY <1>2, <2>1 DEF StartEdit
  <2>3. adminDomains' = NotLoaded /\ editingAccount' = a /\ editingRef' = a
        /\ UNCHANGED <<server, save>>
    BY <1>2 DEF StartEdit
  <2> QED BY <2>2, <2>3
<1>3. CASE Cancel
  BY <1>3 DEF Cancel
<1>4. ASSUME NEW domains \in SUBSET Domain, Type(domains) PROVE DialogInv'
  <2>1. adminDomains \in Text
    BY <1>4 DEF Type
  <2>2. adminDomains' = [of |-> adminDomains.of, domains |-> domains]
    BY <1>4, <2>1 DEF Type, Text
  <2> QED BY <1>4, <2>1, <2>2 DEF Type, Text
<1>5. CASE Submit
  BY <1>5 DEF Submit, Save
<1>6. ASSUME NEW l \in loads, ServeLoad(l) PROVE DialogInv'
  <2>1. [l EXCEPT !.answered = TRUE, !.domains = rows[l.account]] \in Load
    BY DEF Load
  <2> QED BY <1>6, <2>1 DEF ServeLoad
<1>7. ASSUME NEW l \in loads, LoadAnswered(l) PROVE DialogInv'
  <2>1. [of |-> l.account, domains |-> l.domains] \in Text
    BY DEF Load, Text
  <2> QED BY <1>7, <2>1 DEF LoadAnswered, Use
<1>8. ASSUME NEW l \in loads, LoadFailed(l) PROVE DialogInv'
  BY <1>8 DEF LoadFailed
<1>9. CASE Updated
  <2>1. save \in Save
    BY <1>9 DEF Updated, Listing, NoSave
  <2>2. [save EXCEPT !.at = "domains"] \in Save
    BY <2>1 DEF Save
  <2>3. CASE save.text # NotLoaded
    <3>1. save' = [save EXCEPT !.at = "domains"] /\ UNCHANGED <<server, editingAccount, editingRef, adminDomains, loads>>
      BY <1>9, <2>3 DEF Updated
    <3>2. save'.text = save.text /\ save'.account = save.account
      BY <2>1, <3>1 DEF Save
    <3> QED BY <1>9, <2>2, <2>3, <3>1, <3>2 DEF Updated
  <2>4. CASE save.text = NotLoaded
    BY <1>9, <2>4 DEF Updated, Listing
  <2> QED BY <2>3, <2>4
<1>10. CASE DomainsSet
  BY <1>10, SavedDomains DEF DomainsSet, Listing
<1>11. CASE SaveFailed
  BY <1>11, SavedDomains DEF SaveFailed, NoSave
<1>12. CASE Listed
  BY <1>12 DEF Listed, NoSave
<1>13. ASSUME NEW a \in Account, NEW domains \in SUBSET Domain, ChangeElsewhere(a, domains)
       PROVE  DialogInv'
  BY <1>13 DEF ChangeElsewhere
<1> QED
  BY <1>1, <1>2, <1>3, <1>4, <1>5, <1>6, <1>7, <1>8, <1>9, <1>10, <1>11, <1>12, <1>13
  DEF Next, SaveStep

\* The page's variables keep their types.
THEOREM PageTypeCorrect == Spec => []TypeOK
<1>1. DialogInv => TypeOK
  BY DEF DialogInv
<1> QED BY <1>1, DialogInit, DialogStep, PTL DEF Spec

\* No save writes one account's domains to another, nor domains that were never
\* loaded, whatever order the answers to earlier openings come in.
THEOREM PageSavesOwnDomains == Spec => []OwnDomainsOnly
<1>1. DialogInv => OwnDomainsOnly
  BY DEF DialogInv, OwnDomainsOnly
<1> QED BY <1>1, DialogInit, DialogStep, PTL DEF Spec
=============================================================================
