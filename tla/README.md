# Verification of stalwart-users

TLA+ specifications of the programs in `src/`: what the backend's requests do to Stalwart's directory,
to its own table of domain rights and to the sessions it keeps, whom it lets do what, what the one-shot
migration writes, and what the accounts page saves, when requests overlap, fail half-way, are repeated
or arrive late. TLC checks small instances; TLAPS proves theorems about every instance.

## 1. The system

| Component | Source | State | Operations |
|---|---|---|---|
| Account store | `internal/directory/store.go`, `internal/stalwart/jmap.go`, `internal/db/domain_admins.go` | none of its own; accounts live in Stalwart, domain rights in PostgreSQL (`directory.domain_admins`) | create, update, delete account; set password; add and remove alias; join and leave group; replace domain rights; listings |
| Sign-in and sessions | `internal/auth/*`, `internal/oidc/client.go` | `su_oidc` cookie (sign-in in progress), `token` cookie (session, 24 h), `TokenStore` (OAuth tokens by session id, in memory) | login, callback, me, logout |
| Self-service password change | `internal/api/password.go` | none | change own password with the user's access token, refreshing it when needed |
| Authorization | `internal/auth/authz.go`, `domains.go`, checks in `internal/api/*.go` | none; reads rights per request, `isAdmin` from the session | allow or refuse a request, narrow what it may do |
| OAuth client registration | `cmd/server/main.go`, `internal/stalwart/oauthclient.go` | backoff of the loop; the client object in Stalwart | query, get, then create or update; retry |
| Migration | `cmd/migrate-directory` | none that outlives a run; SQL directory in, Stalwart out | plan, apply |
| SPA | `frontend/src` | React state of the pages; the edit dialog keeps a text across requests | dialogs that call the API |
| Configuration, HTTP server, CORS, health, pool | `cmd/server/main.go`, `internal/db/db.go`, `internal/api/health.go` | none that changes | - |

How they interact: handlers call the store after the authorization middleware let the request through;
the store talks to Stalwart over JMAP, one method call per HTTP request, and to PostgreSQL. The
callback and the password change share the `TokenStore` with logout. Every HTTP request is a goroutine
of its own. **There is no lock, no version check and no conditional write anywhere between a listing
and the write decided on it**, so between two remote calls of one request any step of another may
happen. Remote calls have deadlines (5 s per store operation, 15 s for a callback or an own password
change, 10 s for a registration attempt), and what a deadline cuts off may still be carried out.

What makes the parts correct:

- *Account store*: a request is one change of the directory or no change; it changes the account it
  names and no other; it costs nobody an alias or a credential; an address has one owner; rights belong
  to accounts that exist; a success answer is true.
- *Sessions*: the tokens of a session are its own user's; a live session keeps its tokens; logout
  forgets them; a user is not asked to sign in again without need.
- *Password change*: once it is made it is not made again; never with a token that expires on the way.
- *Authorization*: nothing is done without every right it needs, each found while the request was in
  progress; what a session says outlives the truth by the session's lifetime at most; domain admins
  grant no rights.
- *Registration*: other deployments' clients are left alone; the client gets a running pod's secret; the
  loop ends once Stalwart answers.
- *Migration*: it only adds; one bad account and nothing is written; no address ends up at two places;
  a run that succeeds has brought everything over, also after runs that stopped half-way.
- *Edit dialog*: an account is saved with its own domains, whichever answers come late; a save ends.

`PROJECT.json` lists under `hazards` what of this a test would hardly reach, with the line where it
bites and the properties that cover it.

## 2. Modules

| Module | What it is |
|---|---|
| `Stalwart` | External: accounts as the JMAP client sees them, the writes it sends, what Stalwart does with them |
| `Directory` | The account store: requests as processes over `Stalwart` and the rights table |
| `DirectoryAbs` | What the store promises: indivisible changes, no keys, no remote calls |
| `DirectoryRefinement` | What each variable of `DirectoryAbs` is in a state of `Directory` |
| `MCDirectory` | Instances for TLC |
| `MCDirectoryInstances` | Two of them in one run |
| `Directory_proof` | Theorems about `Directory`: types, and which accounts change |
| `DirectoryWrites_proof` | That what a request decided is right when it is written; credentials, rights, success answers |
| `DirectoryRefinement_proof` | That `Directory` implements `DirectoryAbs` |
| `Session` | Sign-in, sessions, token store and own password change, with the identity provider |
| `MCSession`, `MCSessionInstances` | Instances for TLC; two of them in one run |
| `Session_proof` | Theorems about `Session` |
| `Registration` | The registration loop of every server process, with Stalwart's OAuth clients |
| `MCRegistration` | Instances for TLC |
| `Registration_proof` | Theorems about `Registration` |
| `Api` | Session and authorization middleware and the handlers' checks, against a directory that changes |
| `MCApi`, `MCApiInstances` | Instances for TLC; two of them in one run |
| `Api_proof` | Theorems about `Api` |
| `Migration` | Runs of the migration over `Stalwart`'s accounts, beside a server |
| `MCMigration` | Instances for TLC |
| `Migration_proof` | Theorems about `Migration` |
| `AccountsPage` | The edit dialog of the accounts page; its own instance |
| `AccountsPage_proof` | Theorems about `AccountsPage` |

### Directory

A call `c` of `Calls` is a request in progress. `pc[c]` names the remote call it makes next; an action
is that call together with all the code up to the next one:

| Action | Code |
|---|---|
| `Begin`, `Reject` | handler decodes a request; the store refuses it before any remote call (`ErrUnsupported`) |
| `ListAccounts`, `NotListed`, `NotListedForInsert` | `x:Account/get` with `findByType`, and the decision on that listing (`Plans`) |
| `ListDomains` | `x:Domain/get` of alias operations |
| `WriteRows`, `LoseRowsAnswer` | `DeleteAdminDomains` |
| `ClearRows`, `CommitRows`, `Rollback` | the transaction of `SetAdminDomains` |
| `QueryDomain`, `FindForDelete`, `GoneBeforeDelete` | the client's own lookups for create and delete |
| `Settle` | answers that need no write (no-op, client error) |
| `Write`, `WriteRefused` | `x:Account/set` carried out, or refused |
| `Fail` | a remote call fails, a deadline passes, the process stops |
| `Abandon`, `LateWrite`, `LateWriteLost` | a write that was given up on and arrives later, or never |

`found`, `plan`: the Go locals that live across remote calls. `touched` is history: the ids somebody
else wrote to since the call's listing. It lets properties say "unless somebody else wrote to the
account", which is what the code can promise, and what it can not promise is then a run of its own.

What is abstracted: addresses are canonical and well formed (`CanonicalName` has been applied); texts,
passwords and hashes; a quota is a number; which refusals Stalwart has besides the ones the code
depends on is left open, as is the password policy. Ids are not reused by Stalwart. A single SQL
statement takes effect before its deadline or not at all. The transaction of `SetAdminDomains` runs at
READ COMMITTED, PostgreSQL's default, since `BeginTx` is given no options: its `DELETE` sees what was
committed when it ran, of two transactions that saw a row the first to commit deletes it, and a row
inserted twice violates the primary key. A crash needs no action: the store keeps nothing in memory,
so for Stalwart and the table a crash is every call failing (`Fail`, `Abandon`).

### Session

One browser with any number of tabs:

| Action | Code |
|---|---|
| `LoginStart`, `Authorize` | `LoginStartHandler`; the user signs in at the provider |
| `CallbackStart`, `CallbackRefused`, `Exchange`, `LoseExchange`, `UserInfo`, `NoMailbox`, `SignIn`, `CallbackFails` | `CallbackHandler`, one action per remote call |
| `PasswordStart`, `PasswordStartFails` | `ReadSession` and the middleware's lookup of the user's domains, whose answer `LookUpTokens` follows |
| `LookUpTokens` | `changeOwn` up to its first remote call: `TokenStore.Get` and the check of the expiry |
| `Refresh`, `RefreshRefused`, `RefreshFails`, `StoreTokens` | `refresh`: the provider's answer, then `TokenStore.Put` |
| `Change`, `ChangeOk`, `LoseChange` | Stalwart changes the password; its answer comes, or does not |
| `ChangeRefused`, `ChangeUnauthorized`, `ChangeFails` | it does not change it: an error for the user, a 401, no answer |
| `Logout`, `Restart`, `Revoke`, `Tick` | `LogoutHandler`; the process stops and starts; Stalwart revokes; time |

`calls` are the callbacks and password changes in progress, with
the tokens in their hands; `store` is the `TokenStore`, each of its methods one critical section;
`cookie` and `jar` the two cookies. Signatures are perfect, so a cookie is the record signed into it.
A sign-in is a number that stands for the state, PKCE verifier and code that belong together. The
provider accepts a code once, an access token until it expires, is revoked or for no reason is not
accepted, and the latest refresh token of a grant; whether it rotates refresh tokens is left open
(`Rotation`), and it may revoke a user's grants at any time. The session a password change comes with is
`ctx` while it is being authorized and `sid` once it has looked up the tokens, which may be much later:
the body of the request is read in between, and only then the 15 s begin. `discover` (`oidc/client.go`) is a cached
read and has no state here. Time is a counter in units no shorter than the 15 s a request may take:
`Tick` waits for requests whose deadline has come. The assumption `CallTime <= Margin` is the code's
own (15 s and 30 s), and `FreshWhenUsed` depends on it.

### Registration

Each pod is a process: `pc[p]` is the remote call it makes next, "wait" the pause between attempts,
"done" a loop that returned, "off" a server that is not running. `Query`, `Get`, `RefuseToPick`, `Set`
and `SetRefused` are `EnsureOAuthClient`; `Start`, `Fail`, `Wake` and `Stop` are the loop of
`registerOAuthClient`. `ids`, `exact` and `backoff` are the Go variables. Stalwart answers while `up`;
its query returns the clients with our id and possibly others, as `EnsureOAuthClient` expects of it; an
update of a client that an administrator has removed is refused; a second client with one id is
accepted. That is an assumption, and the reason for the code's refusal to pick one of two. The secret stands for
everything that create and update set alike. How long a pause is does not matter to the order of the
steps, so `backoff` is data and a pause may end at any time.

### Api

A call is a request in progress; `at` names the right it looks up next:

| Action | Code |
|---|---|
| `SignIn`, `SignInAccount`, `SignInRole` | `CallbackHandler` from the lookup of the account to `GenerateToken` |
| `Ask` | `ReadSession`, the middleware's shortcut for full admins, and the handler up to its first remote call |
| `ReadDomains` | `ListAdminDomains` of the caller and the routing of `isAuthorizedRequest` |
| `CheckTarget`, `CheckGroup` | `CanManageAccount`: the target's role, then its domains |
| `LookUp`, `ReadEmailType`, `CheckAddress` | the handlers' own lookups, and what they decide on them |
| `Store`, `Destroy`, `ChangeOwn` | the operation the request was made for |
| `Fail` | a call fails, the deadline passes, the client or Stalwart refuses |
| `ChangeElsewhere`, `Tick` | an administrator works in Stalwart itself; time passes |

`Handler`, `Routed` and `AfterLookup` are the decisions between the calls, as functions of what they
are given. The operation itself is one action here (two for a deletion, whose rows go first);
`Directory` takes it apart. The two are composed at that joint and not as a product: `Api` is about what
is read before the store is called, `Directory` about what happens after, and every step of a store
operation that grants or frees a name is an action of both.

A session is the record in its cookie. It is good until it expires whatever becomes of its user, and
`isAdmin` is read from it and not from Stalwart; logout takes it from the browser only, so `Ask` may
present any session signed so far. `seen` is history: the directories a request has lived through.
`held` too: when each name last had an account or the role. Left out: `MeHandler`, which is a read, and
the filter a domain admin's listing goes through, which is a function of one listing.

### Migration

`phase` names the remote calls a run makes next, `Launch`, `ListAccounts`, `Check`, `Write` and `Refuse`
are the code up to the next one, and `Fail` ends a run at any of them: an error, the five minutes, a
killed process. A write that was under way may then have been made, or arrive during a later run
(`Arrive`). `sql`, the data, is chosen at the start from `Sources`, which contains every kind of row
`plan` refuses. Runs follow one another, with or without `--apply` and `--only`, and the server serves
requests meanwhile (`Serve`), each in one step. `Patches`, `PasswordWrites` and `Problem` are
`buildPatch`, `SetPassword` and `plan`. Texts are left out: a description is written under the same
condition as a quota.

`migrated` says which credentials hold a hash from SQL, which Stalwart itself can not tell: that is why
a run writes every selected account's password again, and why a password somebody chose in between is
overwritten. `changed` records these, and `DoneMeansMigrated` makes no promise about them.

### AccountsPage

One action is one run of the page's code: an event handler (`StartEdit`, `Cancel`, `Type`, `Submit`) or
what follows an `await` (`LoadAnswered`, `LoadFailed`, `Updated`, `DomainsSet`, `SaveFailed`, `Listed`).
`editingAccount`, `editingRef`, `adminDomains` are the page's; `loads` and `save` are the requests in
flight, the first in any number and answered in any order. `ServeLoad` is the moment the server reads
the domains. A text carries the account it was loaded for, which the code does not keep: that is what
`OwnDomainsOnly` is about. React runs handlers one at a time, and a closure sees the values of the
render it was made in; a save therefore carries what the dialog held when it was submitted.

### DirectoryAbs

Accounts without list keys, and every request one change: create, destroy (rights must be gone), add
an alias nobody holds, remove one, join, leave, set quota, set password, and granting domains to users
of the directory. `DirectoryRefinement!ImplementsPromise` says
that `Directory` implements it.

## 3. Runs

| Run | Instance | Shows |
|---|---|---|
| `DirectoryPromise` | requests of all kinds one at a time; and, two at a time with a late write, those that are compatible: no two inserts, no grant | every request is one promised change or none, whatever fails; success answers are true; a grant replaces; no orphaned rights |
| `DirectoryContention` | two at a time around one account, one late write | no decision is wrong except by what others wrote since the listing; no write strays; one Password credential; API keys stay |
| `SessionOverlap` | two requests; two sign-ins, or one session for longer; expiry, rotation, revocation, lost answers, restart | tokens match sessions and last as long; fresh when used; a change is made once; no needless sign-in |
| `Registration` | an old and a new pod, another deployment's client, one late call, one removal | others untouched, no stale secret, every loop ends |
| `Api` | requests of a full and a domain admin for each other's targets, two at a time; and sessions of accounts that are deleted, recreated, promoted and demoted, with expiry | everything done was allowed; sessions outlive the truth by their lifetime at most |
| `Migration` | runs over good and bad SQL data, two of them failing anywhere, late writes, two requests served | nothing taken away or shared; a full run over bad data leaves no trace, also when its good accounts were migrated alone before; done means migrated; runs end, and who tries again succeeds |
| `AccountsPage` | two accounts, two loads at a time, one change elsewhere | nobody is saved with another's domains; saves end |
| `DirectoryTwoInserts` | two aliases, one account | **violated** `AliasGoesOnRequest` |
| `DirectoryDeleteAndGrant` | delete and grant | **violated** `NoOrphanRows` |
| `SessionLogout` | logout during a password change | **violated** `LogoutForgets` |
| `RegistrationTwoClients` | two pods | **violated** `CreatedWhenNone` |
| `ApiLeftoverRows` | an account goes in Stalwart itself, its address is created again by a domain admin | **violated** `NoRightsGranted` |

Each violation is a finding in `PROJECT.json`, with the sentence of the code or README it contradicts.
`DirectoryTwoInserts` stands for `DeleteEmail` too: the key it clears may hold another alias when an
insert or a removal came in between. The passing runs show what holds around those gaps: `InsertFits`,
`RemoveFits` and `AddressClear` say that a decision is right unless somebody else wrote to the account
in question, `LogoutForgetsWhenIdle` that nothing but an overlapping password change brings tokens back,
and `ReauthMeansGone` that of overlapping password changes only one whose refresh token the other has
replaced is refused.

Not every overlap that a passing property excuses has a run that shows it. `AliasGoesOnRequest` and
`LogoutForgets` stand for the excuses of `InsertFits` and `LogoutForgetsWhenIdle`. Those of `RemoveFits`,
`AddressClear`, `GrantReplaces` and `ReauthMeansGone`, and `ActsWithinRights`' that rights need not have held
together nor until the write, are behaviours of the models that no line of the code or README speaks
against; they are in the list below, and the hazards in `PROJECT.json` name them.

Three runs check two instances at once, told apart by the variable `instance`, which never changes: the
two have their requests, their clock or their sign-ins in common with the whole but would together be too many states.
The instance only leaves steps out (`Within`); every step it allows is one of the module's own.

Other gaps met while modelling, of the same kind or documented nowhere, and so without a run:

- One alias added to two accounts at the same time: both are told it was free (`store.go:272-303`), and
  if Stalwart does not refuse the second they share it.
- An alias insert that is given up and made again while its first write is still under way, with another
  alias removed in between: the second chooses another key (`store.go:297-302`), the address is listed
  twice unless Stalwart refuses it, and a later `DeleteEmail` clears one of the two and answers success.
  The requests of `DirectoryPromise` remove no address that they insert.
- Two grants for one account at the same time: at READ COMMITTED neither transaction's `DELETE` sees the
  other's rows, and the account ends with both lists, or one grant fails on the primary key.
- Two password changes of one session that refresh at the same time, at a provider that rotates refresh
  tokens: the second finds its token used up and asks to sign in again (`password.go:162-171`), though
  the tokens that the first has stored would do.
- The rights a request needs are looked up one after the other and before the store is called: rights
  that move between the lookups, or go before the write, let through what they would not let through at
  any one moment.
- An alias added by the server while the migration runs: the tool numbers its own from the listing it
  made before its first write (`migrate.go:207`), and may replace the new alias (the repository's README.md:99
  says: "The tool only adds."); or it adds an address that the server has just given to another
  account. The run's requests change aliases of an account that is not migrated only, by an address
  that is not in the SQL data.
- Two runs of the migration limited with `--only` to one account each: a run compares the aliases of the
  accounts it was given (`migrate.go:174-179`) and not with the patch of an earlier run that is still
  under way, and the two accounts may end with one alias. Which accounts the run `Migration` limits itself
  to, no two of them with a common alias, is the premise `AloneApart` of the theorem.
- The dialog closed and opened for the same account while the first opening's answer is under way: the
  late answer is taken, and replaces what has been typed (`AccountsPage.tsx:121-122`).
- The alias and group dialogs do not look at which account a late list is for (`AccountsPage.tsx:182`);
  what they send names its account itself.
- A save that is answered after the dialog was closed and opened for another account closes that one.

Bounds, and why they do:

- *Two calls, one late write* (`MaxLate`). A request decides on one listing and writes once, so what
  can go wrong takes one listing, one foreign write, one own write; a late write is a third party that
  has no listing of its own left.
- *Accounts*: anna (two aliases under keys 0 and 2, one of them on a domain that is not hosted any
  more, no password but an API key under key 0), bert, and the group crew with an alias. Lists that are empty, that have an
  entry and that have an invisible one; a user, a group and an address of each kind to collide with.
- `MaxId = 4` lets an address be deleted and created again once, `MaxKey` leaves room for one or two more entries.
- *Session*: two requests, and lifetimes 1 (sessions, state cookie) and 2 (access tokens), so that every
  lifetime ends within the run, and tokens are both fresh and within the margin. The instance "browser"
  has two sign-ins (of one user or of two), the clock at 0..2, two refresh tokens per grant, and no
  change of a password that is accepted, since what follows an accepted one depends on no other session;
  the instance "session" has one sign-in, the clock at 0..3, three refresh tokens that may be rotated or
  not, and changes that are carried out, with answers that come or get lost. The order of the
  lifetimes differs from the real one (24 h, 10 min, the provider's); no property depends on it but
  through `CallTime <= Margin` and `CallTime < AccessTTL`.

- *Api*: two requests at a time are what a check and a change that invalidates it take. `MaxRequests`
  bounds the requests begun since none was in progress; it starts again when all have ended, so runs are
  as long as the directory gives new states. One change in Stalwart itself: a right that goes or comes
  while requests that depend on it are checked. In the instance about sessions the lifetime is one tick
  and the clock has two, so that a session signed at the last moment can expire and its account be gone
  and back. A sign-in takes less than a tick (`Tick` waits for it), as its 15 s are less than any unit
  of a 24 h lifetime that matters.
- *Migration*: two runs that fail leave writes of two runs behind (`MaxFaults`, `MaxLate`), and a third
  has to cope with both. Accounts: a user with gaps in its keys, a user without a password, a group; SQL
  data: the three of them, each kind of row that must be refused, addresses that belong to each of the
  others, one name twice, an empty directory.
- *AccountsPage*: two loads in flight are one late answer and the one that is waited for.
- *Registration*: `MaxBackoff` is 15 instead of 60, so that the pauses are 5, 10, 15: the first doubling
  and the one that is cut off. One late call and one removal, since an attempt looks once and writes
  once. `MaxId = 5` is more than the run can use up: at most three creates can be decided on before the first
  lands, and one removal can make them four. A create that found no id left would show in `Registers`.

Symmetry is used for the calls, and for the users of a session, in runs without liveness; the properties
do not tell them apart. Deadlock is checked in every run: a call can always fail, and an idle call can
always begin.

**Fairness.** `Registration` assumes weak fairness of every loop's own steps: a remote call has a
deadline of 10 s and a pause is a timer, so a goroutine that can go on does. Nothing is assumed of
Stalwart: that it answers from some time on, and holds no two clients with our id, is the premise of
`Registers`, and starts, stops, late calls and removals are never forced. `Migration` assumes weak
fairness of a run's own steps, which end by the context of five minutes at the latest, and that the
operator keeps applying in between other runs (strong fairness of `Launch(TRUE, {})`): the tool has no
retry of its own, so that somebody runs it again is a premise of `EventuallyMigrated`, as is that the
number of runs that fail for outside reasons is bounded. `AccountsPage` assumes weak fairness of a save:
the browser ends every request, with an answer or an error, and runs what awaits it; loads may hang.
The other modules assume no fairness and claim no liveness: their requests end because their contexts
have deadlines, and every
one may simply fail.

## 4. Proofs

`Directory_proof` proves, for every set of calls, requests and accounts and every bound:

- `TypeCorrect`: `Spec => []TypeOK`. `PlansFacts` is its core: whatever a request decides is a
  well-formed patch of the very account it found.
- `OnlyNamedAccountsChange`: `Spec => OnlyNamedChange`. An account changes only when it is a user and a
  request in progress, or one that was given up, named its primary address. `OnlyNamedChange` alone is
  not inductive, since a write carries an id that was looked up long ago. The invariant `AimInv` adds
  - `Identity`: ids and addresses are unique and ids lie below `nextId`;
  - `CallsAimed`, `LateAimed`: the account a planned or late write addresses, if it still exists, is
    the user with the name in its request;
  - `DeletesUser`: an address that is about to be looked up by `DeleteAccount`'s second query, which
    does not filter on the type, belongs to no group.

  `DeletesUser` holds because only users are created here, so an address that had a user when it was
  listed is taken by a user if it is taken again. `CommitKeepsAim` is the step that matters: a write
  that is carried out leaves every other aim true.

`DirectoryWrites_proof` goes on from `AimInv`. It proves, without a premise:

- `InsertedKeyFree`, `RemovedKeyHolds`, `InsertedAddressClear`: `Spec => []InsertFits`, `RemoveFits`,
  `AddressClear`. A decision is right when it is taken (`DecidesRight`, with `NextKeyIsOne`: the next list
  key is above every key there is), and stays right because whatever changes an account afterwards
  reaches `touched` of every call that has found it or searched for its addresses (`NewsReaches`).

and from a premise about the start that Stalwart's own rules give:

- `OnlyOnePassword` (`OnePasswordAtStart => (Spec => []OnePassword)`) and `PasswordCostsNoKey`
  (`CredentialsKeyedAtStart => (Spec => ApiKeysKept)`; a JSON object's keys differ). `CredentialsFit` says
  of every write that waits, in a request's hands or late, that its credential replaces a Password, or
  becomes the only one under a free key. Two requests that find no password choose the *same* key; the
  second replaces what the first put there. `SuitsAfter` is the step: a credential that suits an account
  still does after another has been written.

and from a premise about what overlaps, each the weakest we know and each shown necessary:

- `RowsHaveTheirUser`: `Spec /\ []GrantsAndDeletesApart => []NoOrphanRows`, no one grants domains to a name
  that is being deleted; `DirectoryDeleteAndGrant` is what happens otherwise. `RowsInv` adds what is known
  at each remote call (`Stage`) and `DestroysCleared`: the account that a waiting destroy is for has no
  rows. Deletes may overlap each other, fail, or arrive late.
- `GrantsReplace`: `Spec /\ []GrantsAlone => GrantReplaces`, no two transactions that grant to one name are
  open at once. `SeesAll`: an open transaction has seen every row of its name there is to be deleted.

- `SuccessIsTrue`: `Spec /\ []GrantsAndDeletesApart /\ []GrantsAlone /\ []RemovedOnce => OkMeansDone`. `Stands` says
  of a call that what it decided is what it would decide on the account as it is now (`Planned`),
  unless somebody wrote to the account in between. It holds because a decision depends on that account
  and on groups, and groups never change (`GroupsStay`). `Routed` says which remote calls a request goes
  through, so that one that answers has been where its work is done; `WriteDoes` then shows, request by request,
  that the planned write brings about `Done`.
  `RemovedOnce`: an address that is being removed is in the list once. `SuccessWithoutRepeats` replaces it with
  what clients do: no insert is made again while it, or a write it has given up, may still be carried
  out (`InsertsOnce`). Section 3 says what happens otherwise.

`DirectoryRefinement_proof` proves `DirectoryKeepsPromise`: `Spec /\ []Compatible => ImplementsPromise`, if
lists are keyed and only users have rights at the start (`SoundStart`). `Compatible` is a predicate on the
requests in progress and the late writes: at any time one address at most is being added to an account
and one account at most is being given an address, no account is being created at an address that is
being added, and `GrantsAndDeletesApart`. Everything else may overlap: removals with inserts, passwords, groups,
quotas and deletes of the same account, any number of each. Both instances of the run `DirectoryPromise`
satisfy it, and `DirectoryTwoInserts` and `DirectoryDeleteAndGrant` show what happens without. `PromiseInv` is
`RowsInv` and `CredentialsFit` with what each kind of waiting write needs to be a promised change: its
alias is nobody else's and its key free (`AliasesFit`), what it removes is on a hosted domain
(`UnaliasesFit`), what it joins is a group (`JoinsFit`), what it creates is hosted (`CreatesFit`).
`StepIsPromised` then takes one lemma per kind of write: `PatchIsPromised`, `CreateIsPromised`,
`DestroyIsPromised`, `GrantIsPromised`; every other step is a stutter of the promise.

Assumptions of all three: `HostedAssumption`, and `DirectoryAssumption` (initial ids and addresses are
unique and the requests are well formed); Stalwart does not reuse ids and no one else changes the
directory.

`Session_proof` proves, for any users, browser requests, sign-ins, lifetimes and bounds, and for providers
that rotate refresh tokens and that do not:

- `SessionTypeCorrect`, `TokensAreTheUsers`, `TokensKeptForLife`, `TokensFreshInUse`, `LogoutIsFinal` and
  `ReauthHasReason`: `TypeOK`, `TokensMatchSession`, `TokensOutliveSession`, `FreshWhenUsed`,
  `LogoutForgetsWhenIdle` and `ReauthMeansGone`, all from one invariant, `SessionInv`. Its parts: where
  a request is tells which of its fields are set (`Placed`); every set of tokens anywhere is a grant to
  the user of its session (`Owned`); an entry of the store was put no earlier than `TokenTTL` before its
  session ends, so that `Put` drops none of a live one (`Timed`, `PutKeeps`); a live session that was not
  logged out has its entry (`Kept`), and one that was, with nothing of it under way, has none
  (`Forgotten`); a request that did not overlap another holds the tokens that are stored (`Aligned`), and
  any request at least tokens of the same grant (`SameGrant`), so that its refresh token is either the
  stored one or one that was replaced.
  A session id is new: there are never more sessions than codes that were exchanged (`Counted`).
- `ChangedForGood`: `ChangeIsFinal`, from `Done`: a request that has changed the password is waiting for the
  answer, and nothing leads back from there.

Assumption: `SessionAssumption` (the code's own `CallTime <= Margin`, and bounds are numbers).

`Registration_proof` proves, for any pods and configurations, whatever clients there are at the start:

- `RegistrationTypes`: `Spec => []TypeOK`, with the pause between its limits.
- `OthersKept`: `Spec => OthersUntouched`. The invariant is that every id a pod or a late call is about to
  write to lies below `nextId` and, if there is a client with it, is ours (`PodsAimed`, `LateAimed`):
  the clientId was compared when the id was chosen, and a client keeps its clientId.
- `SecretsRenewed`: `Spec => []NoStaleSecret`. Stale clients are those with the secret from before. None
  comes into being, so each attempt's answers contain all of them (`StaleSeen`), and an attempt that
  ends with a write has at most one in its hands, and renews it.

Assumption: `RegistrationAssumption` (our id is not another application's, bounds are numbers).

`Api_proof` proves, for any calls, requests, changes, sessions and bounds:

- `ApiTypeCorrect`: `Spec => []TypeOK`.
- `ApiActsWithinRights`: `Spec => []ActsWithinRights`. What a request is entitled to when it acts says
  nothing of how it got there, so `RightsInv` says with `Established` what the checks before each place
  have found: that the domains a request carries were the user's own (`Known`), that the route allows
  it (`RouteFits`), that the account in the path, then the address or group, may be managed. Each was
  true in some directory of `seen`, and as `seen` only grows, what was once found keeps.
- `ApiSessionsExpire`: `Spec => []SessionsExpire`. `SessionInv` dates every session (`SessionFits`): its user
  had the role `TTL` before it expires at the earliest, and an account at most a tick before that, since
  the two are looked up one after the other; and every request (`CallFits`).

Assumption: `ApiAssumption` (who is signed in at the start has an account, bounds are numbers).

`Migration_proof` proves, for any SQL data, accounts, `--only` lists and bounds:

- `MigrationTypeCorrect`: `Spec => []TypeOK`, whatever the server does meanwhile.
- `MigrationOnlyAdds`: `AliasesElsewhere => (Spec => NothingRemoved)`. A patch sets its keys whatever is
  under them by then, so that nothing is replaced needs to be known of all runs there were. `AdditiveInv`
  says that an account of the SQL data has the aliases it started with and either all it lacked, under
  the keys the first run chose, or none (`Came`), that a Password credential was added at most once, and
  that a write, planned or late, is one of these (`Benign`): a later run finds nothing left to add, or
  chooses the very same keys. `AliasesElsewhere` is the premise the code needs and does not enforce: the
  server adds and removes no alias of an account of the SQL data meanwhile (`migrate.go:207`).

- `MigrationAllOrNothing`: `Spec => BadSourceLeavesNoTrace`, whatever the server does meanwhile. `SourceInv`: a
  run that writes has listed its accounts, and none of them is bad; accounts keep their name and type, so
  what is bad stays bad (`CheckFindsBad`).
- `MigrationSucceeds`: `AliasesElsewhere => (Spec => []DoneMeansMigrated)`. `Settling` says of a run that is past
  its checks that the accounts it has done have their profile and password. Between the listing and the
  last write, and after it, late writes of earlier runs arrive and the server works; `Kept` is what all of
  them leave alone (`StepLasts`), since each sets what the SQL data says or what somebody chose.
- `MigrationUnshared`: `Spec => []Unshared` if no address was shared at the start (`StartUnshared`), the server
  gives out no alias of the SQL data meanwhile (`NewAddressesElsewhere`, with `AliasesElsewhere`), and no
  two `--only` runs are for accounts with a common alias (`AloneApart`). `Clear` says of an account whose
  checks passed that its new aliases are nobody else's; `Covered` that the listing a run checks on shows
  everything but what late patches have brought since, and those are of accounts that were
  checked themselves (`Entitled`).

  These premises are about operators and other clients of Stalwart, and the code enforces none of them.

Assumptions: `MigrationAssumption` (rows are well formed, initial ids and addresses unique), and
`HostedAssumption`.

`AccountsPage_proof` proves, for any accounts and domains, any number of loads and changes elsewhere:

- `PageTypeCorrect` and `PageSavesOwnDomains`: `Spec => []TypeOK` and `Spec => []OwnDomainsOnly`, both from
  `DialogInv`: the text in the dialog is of the account in `editingRef`, which is the one that is open,
  and a save took both at once. The comparison in `Use` and the reset in `StartEdit` are what keeps it.

Assumption: `PageAssumption` (`NoAccount` is no account, bounds are numbers).

Only model-checked:

- what is live: `Registers`, `RunsEnd`, `EventuallyMigrated` and `SavesEnd` (liveness under fairness is out of
  the prover's reach);
- the properties that the findings violate.

`NextListKey`, `Fresh` and the like are written without recursion, so what they compute is proved and not
only checked.

## 5. Not modelled

- Canonical names and domain lists (`CanonicalName`, `DomainOf`, `normalizeDomains`): pure functions on
  texts, which unit tests reach well. The modules take addresses as canonical and domain lists as sets.
- Reading operations: they change nothing, and what they return is the listing `Directory` reads.
- `MeHandler`, and the filter on a domain admin's listing: reads of one listing, with no state.
- The other pages and dialogs of the SPA: they keep lists and forms, and no text that one request loads
  and another saves.
- Configuration, server start and stop, CORS, health check and pool: no state that changes.
- Rendering, wording of errors, logging, cryptography, HTTP and JSON details.

## 6. Plan

1. `Names`: canonical names and domain lists against reference definitions.
