---------------------------- MODULE Registration ----------------------------
(***************************************************************************)
(* Registration of the app's OAuth client in Stalwart                      *)
(* (registerOAuthClient in cmd/server, internal/stalwart/oauthclient.go).  *)
(*                                                                         *)
(* Every server process registers the client when it starts, in a loop of  *)
(* its own: query, get, then create or update, and after a failure the     *)
(* same again after a pause.  Several processes may do so at a time: the   *)
(* replicas of a deployment, or the old and the new one of a rollout.  One *)
(* action is one remote call with the code up to the next.                 *)
(*                                                                         *)
(* Stalwart is external: it answers while `up`, its query may return       *)
(* clients with similar ids, and it may accept two clients with the same   *)
(* clientId (which the code reckons with).  An administrator may remove a  *)
(* client.  Time is left out: a pause is its length, `backoff`, and ends.  *)
(***************************************************************************)
EXTENDS Naturals, Sequences, FiniteSets

CONSTANTS
  Pods,        \* server processes that may run at the same time
  ClientId,    \* OIDC_CLIENT_ID, shared by the pods
  OtherIds,    \* client ids of other applications
  Secret,      \* Secret[p]: what pod p is configured with
  OldSecret,   \* what the clients that are there at the start hold
  Existing,    \* what may be there at the start: sequences of client ids
  MinBackoff,  \* oauthRegisterMinBackoff (5 s)
  MaxBackoff,  \* oauthRegisterMaxBackoff (60 s)
  MaxId,       \* bound: clients ever created
  MaxLate,     \* bound: writes under way that nobody waits for
  MaxRemovals  \* bound: clients removed by an administrator

ASSUME RegistrationAssumption ==
  /\ ClientId \notin OtherIds
  /\ \A known \in Existing : /\ known \in Seq(OtherIds \cup {ClientId})
                              /\ Len(known) <= MaxId
  /\ {MinBackoff, MaxBackoff, MaxId, MaxLate, MaxRemovals} \subseteq Nat
  /\ MinBackoff <= MaxBackoff

\* A registered client.  `secret` stands for all that create and update set
\* alike: the secret, the redirect URI, the grant types and the description.
PodSecrets == {Secret[p] : p \in Pods}
Client == [clientId : OtherIds \cup {ClientId}, secret : PodSecrets \cup {OldSecret}]

\* x:OAuthClient/set as a pod sends it: `target` is the id of the client to
\* update, 0 to create one.
SetCall == [target : Nat, secret : PodSecrets]

Locations == {"off", "query", "get", "set", "wait", "done"}

VARIABLES
  clients, \* Stalwart: the clients by id
  nextId,  \* Stalwart: the next id it gives out; ids are not used again
  up,      \* Stalwart answers, and does as it is told
  late,    \* set calls that were given up on and may still be carried out
  removed, \* how many clients were removed
  pc,      \* the remote call a pod makes next, or its state between calls
  ids,     \* query.IDs
  exact,   \* exact
  backoff  \* backoff, in seconds

vars == <<clients, nextId, up, late, removed, pc, ids, exact, backoff>>

\* The clients that have exactly the clientId of the pods.
Ours == {i \in DOMAIN clients : clients[i].clientId = ClientId}

\* A number of clients with one id that every registration refuses.
Ambiguous == Cardinality(Ours) > 1

TypeOK ==
  /\ DOMAIN clients \subseteq 1..MaxId
  /\ \A i \in DOMAIN clients : clients[i] \in Client
  /\ nextId \in 1..(MaxId + 1)
  /\ up \in BOOLEAN
  /\ late \subseteq SetCall
  /\ removed \in 0..MaxRemovals
  /\ pc \in [Pods -> Locations]
  /\ ids \in [Pods -> SUBSET (1..MaxId)]
  /\ exact \in [Pods -> SUBSET (1..MaxId)]
  /\ backoff \in [Pods -> MinBackoff..MaxBackoff]

Init ==
  /\ \E known \in Existing :
       /\ clients = [i \in DOMAIN known |->
                      [clientId |-> known[i], secret |-> OldSecret]]
       /\ nextId = Len(known) + 1
  /\ up \in BOOLEAN
  /\ late = {}
  /\ removed = 0
  /\ pc = [p \in Pods |-> "off"]
  /\ ids = [p \in Pods |-> {}]
  /\ exact = [p \in Pods |-> {}]
  /\ backoff = [p \in Pods |-> MinBackoff]

-----------------------------------------------------------------------------
(***************************************************************************)
(* One attempt: EnsureOAuthClient                                          *)
(***************************************************************************)

\* The pause after the one that took b.
NextBackoffUncapped(b) == 2 * b
NextBackoff(b) == IF 2 * b > MaxBackoff THEN MaxBackoff ELSE 2 * b

\* Of the clients that the query named, those whose clientId is exactly ours.
\* The mutant trusts the query.
ExactTrusting(p) == ids[p] \cap DOMAIN clients
Exact(p) == {i \in ids[p] \cap DOMAIN clients : clients[i].clientId = ClientId}

\* What an update makes of a client.  The mutant keeps the secret it has.
UpdatedKept(client, secret) == client
Updated(client, secret) == [client EXCEPT !.secret = secret]

\* Stalwart carries out a set call.
Create(call) ==
  /\ call.target = 0
  /\ nextId <= MaxId
  /\ clients' = [i \in DOMAIN clients \cup {nextId} |->
                   IF i = nextId THEN [clientId |-> ClientId, secret |-> call.secret]
                                 ELSE clients[i]]
  /\ nextId' = nextId + 1

Update(call) ==
  /\ call.target \in DOMAIN clients
  /\ clients' = [clients EXCEPT ![call.target] = Updated(@, call.secret)]
  /\ UNCHANGED nextId

Apply(call) == Create(call) \/ Update(call)

\* The set call that pod p makes.
SetCallOf(p) ==
  [target |-> IF exact[p] = {} THEN 0 ELSE CHOOSE i \in exact[p] : TRUE,
   secret |-> Secret[p]]

\* The attempt of p is over, and its variables are gone.
Leave(p, location) ==
  /\ pc' = [pc EXCEPT ![p] = location]
  /\ ids' = [ids EXCEPT ![p] = {}]
  /\ exact' = [exact EXCEPT ![p] = {}]

\* x:OAuthClient/query finds what there is of ours, and perhaps more.
Query(p) ==
  /\ pc[p] = "query" /\ up
  /\ \E found \in SUBSET DOMAIN clients :
       /\ Ours \subseteq found
       /\ ids' = [ids EXCEPT ![p] = found]
       /\ pc' = [pc EXCEPT ![p] = IF found = {} THEN "set" ELSE "get"]
  /\ UNCHANGED <<clients, nextId, up, late, removed, exact, backoff>>

\* x:OAuthClient/get, and the decision to create or to update.
Get(p) ==
  /\ pc[p] = "get" /\ up
  /\ Cardinality(Exact(p)) <= 1
  /\ exact' = [exact EXCEPT ![p] = Exact(p)]
  /\ ids' = [ids EXCEPT ![p] = {}]
  /\ pc' = [pc EXCEPT ![p] = "set"]
  /\ UNCHANGED <<clients, nextId, up, late, removed, backoff>>

\* Two clients have our clientId: refusing to pick one.
RefuseToPick(p) ==
  /\ pc[p] = "get" /\ up
  /\ Cardinality(Exact(p)) > 1
  /\ Leave(p, "wait")
  /\ UNCHANGED <<clients, nextId, up, late, removed, backoff>>

\* x:OAuthClient/set is carried out, and the loop returns.
Set(p) ==
  /\ pc[p] = "set" /\ up
  /\ Apply(SetCallOf(p))
  /\ Leave(p, "done")
  /\ UNCHANGED <<up, late, removed, backoff>>

\* The client to update is gone: notUpdated.
SetRefused(p) ==
  /\ pc[p] = "set" /\ up
  /\ SetCallOf(p).target # 0
  /\ SetCallOf(p).target \notin DOMAIN clients
  /\ Leave(p, "wait")
  /\ UNCHANGED <<clients, nextId, up, late, removed, backoff>>

\* A set call that is given up on is not carried out, or later.
MayBeLate(p) ==
  \/ UNCHANGED late
  \/ /\ pc[p] = "set"
     /\ Cardinality(late) < MaxLate
     /\ late' = late \cup {SetCallOf(p)}

\* A call fails, or the 10 s of the attempt pass.
Fail(p) ==
  /\ pc[p] \in {"query", "get", "set"} /\ ~up
  /\ MayBeLate(p)
  /\ Leave(p, "wait")
  /\ UNCHANGED <<clients, nextId, up, removed, backoff>>

-----------------------------------------------------------------------------
(***************************************************************************)
(* The loop: registerOAuthClient                                           *)
(***************************************************************************)

Start(p) ==
  /\ pc[p] = "off"
  /\ pc' = [pc EXCEPT ![p] = "query"]
  /\ backoff' = [backoff EXCEPT ![p] = MinBackoff]
  /\ UNCHANGED <<clients, nextId, up, late, removed, ids, exact>>

\* The pause is over.  The mutant gives up when the pauses stop growing.
WakeBelowCap(p) ==
  /\ pc[p] = "wait" /\ backoff[p] < MaxBackoff
  /\ pc' = [pc EXCEPT ![p] = "query"]
  /\ backoff' = [backoff EXCEPT ![p] = NextBackoff(@)]
  /\ UNCHANGED <<clients, nextId, up, late, removed, ids, exact>>

Wake(p) ==
  /\ pc[p] = "wait"
  /\ pc' = [pc EXCEPT ![p] = "query"]
  /\ backoff' = [backoff EXCEPT ![p] = NextBackoff(@)]
  /\ UNCHANGED <<clients, nextId, up, late, removed, ids, exact>>

\* SIGTERM or a crash, wherever the loop is.
Stop(p) ==
  /\ pc[p] # "off"
  /\ MayBeLate(p)
  /\ Leave(p, "off")
  /\ UNCHANGED <<clients, nextId, up, removed, backoff>>

-----------------------------------------------------------------------------
(***************************************************************************)
(* Stalwart                                                                *)
(***************************************************************************)

\* Stalwart becomes unreachable or slow, or recovers.
Toggle ==
  /\ up' = ~up
  /\ UNCHANGED <<clients, nextId, late, removed, pc, ids, exact, backoff>>

\* A call nobody waits for is carried out, or is not.
LateSet ==
  /\ \E call \in late :
       /\ late' = late \ {call}
       /\ Apply(call) \/ UNCHANGED <<clients, nextId>>
  /\ UNCHANGED <<up, removed, pc, ids, exact, backoff>>

\* An administrator removes a client.
Remove ==
  /\ removed < MaxRemovals
  /\ removed' = removed + 1
  /\ \E gone \in DOMAIN clients :
       clients' = [i \in DOMAIN clients \ {gone} |-> clients[i]]
  /\ UNCHANGED <<nextId, up, late, pc, ids, exact, backoff>>

-----------------------------------------------------------------------------
\* What the loop does by itself, once started.
Step(p) ==
  \/ Query(p) \/ Get(p) \/ RefuseToPick(p) \/ Set(p) \/ SetRefused(p)
  \/ Fail(p) \/ Wake(p)

Next ==
  \/ \E p \in Pods : Start(p) \/ Step(p) \/ Stop(p)
  \/ Toggle \/ LateSet \/ Remove

\* Calls have a deadline and pauses end, so a loop does not stand still.
\* Nothing is asked of Stalwart.
Fairness == \A p \in Pods : WF_vars(Step(p))

Spec == Init /\ [][Next]_vars /\ Fairness

-----------------------------------------------------------------------------
(***************************************************************************)
(* Properties                                                              *)
(***************************************************************************)

\* Clients of other applications, however similar their ids, keep what they
\* have, whatever is created, removed or given up on between the three calls
\* of an attempt: "The query filter is not trusted to be exact".
OtherClientKept(i) ==
  (i \in DOMAIN clients /\ i \in DOMAIN clients' /\ clients[i].clientId # ClientId)
    => clients'[i] = clients[i]

OthersUntouched == [][\A i \in 1..MaxId : OtherClientKept(i)]_vars

\* Once any pod has registered, no client of ours is left with what it had
\* before: an update brings the secret in line, and a registration that finds
\* two clients does not end.
NoStaleSecret ==
  (\E p \in Pods : pc[p] = "done") =>
    \A i \in Ours : clients[i].secret \in PodSecrets

\* The loop ends: if Stalwart answers from some time on, and has no two clients
\* of ours, then every pod registers or is stopped, however often it failed
\* before ("retrying ... until it succeeds or ctx is cancelled").
Registers ==
  \A p \in Pods :
    <>[](up /\ ~Ambiguous) => []<>(pc[p] \in {"off", "done"})

\* A client is created only when there is none with our clientId, as
\* EnsureOAuthClient says.  The code does not keep this: between the query and
\* the create another pod, or a late call of this one, may create it.
CreatedWhenNone ==
  [][(DOMAIN clients' \ DOMAIN clients) # {} => Ours = {}]_vars
=============================================================================
