---------------------------- MODULE AccountsPage ----------------------------
(***************************************************************************)
(* The edit dialog of the accounts page, as a full admin uses it           *)
(* (src/frontend/src/pages/AccountsPage.tsx).                              *)
(*                                                                         *)
(* Opening the dialog asks the server for the domains the account          *)
(* administers; the answer fills in a text the user may change.  Saving is *)
(* two requests and a new list of accounts, one after the other.  All of   *)
(* them are answered in any order, with success or failure, while the user *)
(* closes the dialog and opens it for another account.  One action is one  *)
(* run of the page's code: an event handler, or what follows an await.     *)
(*                                                                         *)
(* A text is kept with the account it was loaded for; loads in flight have *)
(* numbers, to tell them apart.  What is only shown (errors, the list) is  *)
(* left out.                                                               *)
(***************************************************************************)
EXTENDS Naturals

CONSTANTS
  Account,   \* account names
  Domain,    \* domains
  NoAccount, \* null, where an account name could be
  MaxLoads,  \* bound: loads of domains in flight at the same time
  MaxElsewhere \* bound: changes of the domains made by others

ASSUME PageAssumption ==
  NoAccount \notin Account /\ MaxLoads \in Nat \ {0} /\ MaxElsewhere \in Nat

Number == 1..MaxLoads

\* adminDomains: null, or a text, that was loaded for an account.
Text      == [of : Account, domains : SUBSET Domain]
NotLoaded == [of |-> NoAccount]

\* A load in flight: sent, or answered by the server and on its way back.
Load == [account : Account, number : Number, answered : BOOLEAN, domains : SUBSET Domain]

\* handleEdit at its awaits: the PATCH, the PUT of the domains, the list.
Save == [at : {"update", "domains"}, account : Account, text : Text \cup {NotLoaded}]
Listing == [at |-> "list"]
NoSave  == [at |-> "none"]

VARIABLES
  rows,      \* server: the domains each account administers
  editingAccount, editingRef,  \* as in the page
  adminDomains, \* of editData
  loads,     \* loads in flight
  save,      \* the save in flight, which is what editLoading says
  elsewhere  \* number of changes made by others

vars == <<rows, editingAccount, editingRef, adminDomains, loads, save, elsewhere>>
server == <<rows, elsewhere>>

Init ==
  /\ rows \in [Account -> SUBSET Domain]
  /\ editingAccount = NoAccount
  /\ editingRef = NoAccount
  /\ adminDomains = NotLoaded
  /\ loads = {}
  /\ save = NoSave
  /\ elsewhere = 0

-----------------------------------------------------------------------------
(* The user.                                                               *)

\* Mutant: the text is not reset when the dialog opens.
StartEditKeepsText(a, n) ==
  /\ editingAccount = NoAccount
  /\ n \notin {l.number : l \in loads}
  /\ editingAccount' = a
  /\ editingRef' = a
  /\ loads' = loads \cup {[account |-> a, number |-> n, answered |-> FALSE, domains |-> {}]}
  /\ UNCHANGED <<server, adminDomains, save>>

\* The dialog covers the page, so it opens when it is closed.
StartEdit(a, n) ==
  /\ editingAccount = NoAccount
  /\ n \notin {l.number : l \in loads}
  /\ editingAccount' = a
  /\ editingRef' = a
  /\ adminDomains' = NotLoaded
  /\ loads' = loads \cup {[account |-> a, number |-> n, answered |-> FALSE, domains |-> {}]}
  /\ UNCHANGED <<server, save>>

Cancel ==
  /\ editingAccount # NoAccount
  /\ editingAccount' = NoAccount
  /\ UNCHANGED <<server, editingRef, adminDomains, loads, save>>

\* The field is disabled until the text is there.
Type(domains) ==
  /\ editingAccount # NoAccount
  /\ adminDomains # NotLoaded
  /\ adminDomains.domains # domains
  /\ adminDomains' = [adminDomains EXCEPT !.domains = domains]
  /\ UNCHANGED <<server, editingAccount, editingRef, loads, save>>

\* Mutant: handleEdit does not return when no dialog is open.
SubmitClosed ==
  /\ save = NoSave
  /\ save' = [at |-> "update", account |-> editingAccount, text |-> adminDomains]
  /\ UNCHANGED <<server, editingAccount, editingRef, adminDomains, loads>>

\* handleEdit up to its first await, with the dialog as it is then; the button
\* is disabled while a save is in flight.
Submit ==
  /\ editingAccount # NoAccount
  /\ save = NoSave
  /\ save' = [at |-> "update", account |-> editingAccount, text |-> adminDomains]
  /\ UNCHANGED <<server, editingAccount, editingRef, adminDomains, loads>>

-----------------------------------------------------------------------------
(* Answers.                                                                *)

\* The server reads the domains for a load.
ServeLoad(l) ==
  /\ ~l.answered
  /\ loads' = (loads \ {l}) \cup {[l EXCEPT !.answered = TRUE, !.domains = rows[l.account]]}
  /\ UNCHANGED <<server, editingAccount, editingRef, adminDomains, save>>

\* Ignore a late answer for an account whose dialog was since replaced.
Use(l) == editingRef = l.account

LoadAnswered(l) ==
  /\ l.answered
  /\ loads' = loads \ {l}
  /\ adminDomains' = IF Use(l) THEN [of |-> l.account, domains |-> l.domains]
                     ELSE adminDomains
  /\ UNCHANGED <<server, editingAccount, editingRef, save>>

\* The text stays as it is: not loaded, unless the account was opened again.
LoadFailed(l) ==
  /\ loads' = loads \ {l}
  /\ UNCHANGED <<server, editingAccount, editingRef, adminDomains, save>>

\* After the PATCH: the domains if they were loaded, else the dialog closes.
Updated ==
  /\ save.at = "update"
  /\ IF save.text # NotLoaded
     THEN save' = [save EXCEPT !.at = "domains"] /\ UNCHANGED editingAccount
     ELSE save' = Listing /\ editingAccount' = NoAccount
  /\ UNCHANGED <<server, editingRef, adminDomains, loads>>

\* The PUT is carried out and answered; the dialog closes, whosever it is now.
DomainsSet ==
  /\ save.at = "domains"
  /\ rows' = [rows EXCEPT ![save.account] = save.text.domains]
  /\ save' = Listing
  /\ editingAccount' = NoAccount
  /\ UNCHANGED <<elsewhere, editingRef, adminDomains, loads>>

\* Mutant: a failed save is started over.
SaveFailedRetries ==
  /\ save.at \in {"update", "domains"}
  /\ save' = [save EXCEPT !.at = "update"]
  /\ UNCHANGED <<server, editingAccount, editingRef, adminDomains, loads>>

\* Either request fails, the PUT perhaps after it was carried out: the dialog stays.
SaveFailed ==
  /\ save.at \in {"update", "domains"}
  /\ save' = NoSave
  /\ rows' \in {rows} \cup
       IF save.at = "domains" THEN {[rows EXCEPT ![save.account] = save.text.domains]} ELSE {}
  /\ UNCHANGED <<elsewhere, editingAccount, editingRef, adminDomains, loads>>

\* fetchAccounts has come to its end, with success or not.
Listed ==
  /\ save = Listing
  /\ save' = NoSave
  /\ UNCHANGED <<server, editingAccount, editingRef, adminDomains, loads>>

\* Another full admin changes the domains, or another session of this one.
ChangeElsewhere(a, domains) ==
  /\ elsewhere < MaxElsewhere
  /\ elsewhere' = elsewhere + 1
  /\ rows' = [rows EXCEPT ![a] = domains]
  /\ UNCHANGED <<editingAccount, editingRef, adminDomains, loads, save>>

SaveStep == Updated \/ DomainsSet \/ SaveFailed \/ Listed

Next ==
  \/ \E a \in Account, n \in Number : StartEdit(a, n)
  \/ Cancel
  \/ \E domains \in SUBSET Domain : Type(domains)
  \/ Submit
  \/ \E l \in loads : ServeLoad(l) \/ LoadAnswered(l) \/ LoadFailed(l)
  \/ SaveStep
  \/ \E a \in Account, domains \in SUBSET Domain : ChangeElsewhere(a, domains)

\* The browser ends every request, with an answer or an error, and runs what
\* awaits it.
Spec == Init /\ [][Next]_vars /\ WF_vars(SaveStep)

-----------------------------------------------------------------------------
(* Properties.                                                             *)

TypeOK ==
  /\ rows \in [Account -> SUBSET Domain]
  /\ editingAccount \in Account \cup {NoAccount}
  /\ editingRef \in Account \cup {NoAccount}
  /\ adminDomains \in Text \cup {NotLoaded}
  /\ loads \subseteq Load
  /\ save \in Save \cup {Listing, NoSave}
  /\ elsewhere \in 0..MaxElsewhere

\* The domains a save writes for an account started as that account's own: a
\* save never gives an account another's domains, nor clears the domains of an
\* account whose dialog had not loaded them, in whatever order the answers to
\* earlier openings come in.
OwnDomainsOnly ==
  save.at = "domains" => save.text # NotLoaded /\ save.text.of = save.account

\* A save comes to its end, and the dialog's button back, whatever fails.
SavesEnd == save # NoSave ~> save = NoSave

=============================================================================
