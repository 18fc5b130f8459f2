------------------------- MODULE Registration_proof -------------------------
(***************************************************************************)
(* Proofs about Registration, for every set of pods, every configuration   *)
(* of theirs, whatever clients are there at the start, and all bounds.     *)
(***************************************************************************)
EXTENDS Registration, FiniteSetTheorems, TLAPS

\* Clients of ours that still hold what they had before any registration.
Stale == {i \in Ours : clients[i].secret \notin PodSecrets}

\* Ids are given out in order.
IdsBelow == \A i \in DOMAIN clients : i < nextId

\* Whatever a pod is about to update, or a late call updates, is ours if it is
\* still there: ids are not used again.
AimedAt(i) == i < nextId /\ (i \in DOMAIN clients => clients[i].clientId = ClientId)

PodsAimed == \A p \in Pods : \A i \in exact[p] : AimedAt(i)
LateAimed == \A call \in late : AimedAt(call.target)

\* Every attempt sees the stale clients: they were there before it began.
StaleSeen ==
  \A p \in Pods :
    /\ pc[p] = "get" => Stale \subseteq ids[p]
    /\ pc[p] = "set" => /\ Stale \subseteq exact[p]
                        /\ Cardinality(exact[p]) <= 1
    /\ pc[p] # "set" => exact[p] = {}
    /\ pc[p] = "done" => Stale = {}

IInv == TypeOK /\ IdsBelow /\ PodsAimed /\ LateAimed /\ StaleSeen

\* What a step does to a client: nothing, or it is ours and gets the secret of
\* a pod.
ClientStep(i) ==
  \/ i \in DOMAIN clients /\ clients'[i] = clients[i]
  \/ /\ clients'[i].clientId = ClientId
     /\ clients'[i].secret \in PodSecrets
     /\ i \in DOMAIN clients => clients[i].clientId = ClientId
     /\ i \notin DOMAIN clients => i = nextId

ClientsStep ==
  /\ \A i \in DOMAIN clients' : ClientStep(i)
  /\ nextId' \in Nat /\ nextId <= nextId' /\ IdsBelow'

-----------------------------------------------------------------------------
(* The set calls.                                                          *)

\* A set with at most one element has no other.
LEMMA AtMostOne ==
  ASSUME NEW S \in SUBSET (1..MaxId), Cardinality(S) <= 1
  PROVE  \A i, j \in S : i = j
<1>1. IsFiniteSet(S)
  <2>1. 1 \in Int /\ MaxId \in Int
    BY RegistrationAssumption
  <2>2. IsFiniteSet(1..MaxId)
    BY <2>1, FS_Interval
  <2> QED BY <2>2, FS_Subset
<1>2. Cardinality(S) \in Nat
  BY <1>1, FS_CardinalityType
<1>3. CASE Cardinality(S) = 0
  BY <1>1, <1>3, FS_EmptySet
<1>4. CASE Cardinality(S) = 1
  BY <1>1, <1>4, FS_Singleton
<1> QED BY <1>2, <1>3, <1>4

\* What a pod sends, and that it is aimed.
LEMMA SetCallOfFacts ==
  ASSUME IInv, NEW p \in Pods
  PROVE  /\ SetCallOf(p) \in SetCall
         /\ SetCallOf(p).secret \in PodSecrets
         /\ exact[p] = {} => SetCallOf(p).target = 0
         /\ exact[p] # {} => SetCallOf(p).target \in exact[p]
         /\ AimedAt(SetCallOf(p).target)
<1>1. exact[p] \subseteq 1..MaxId /\ nextId \in 1..(MaxId + 1) /\ DOMAIN clients \subseteq 1..MaxId
  BY DEF IInv, TypeOK
<1>2. MaxId \in Nat
  BY RegistrationAssumption
<1>3. exact[p] # {} => SetCallOf(p).target \in exact[p]
  BY DEF SetCallOf
<1>4. exact[p] = {} => SetCallOf(p).target = 0
  BY DEF SetCallOf
<1>5. SetCallOf(p).secret = Secret[p]
  BY DEF SetCallOf
<1>6. SetCallOf(p).target \in Nat
  BY <1>1, <1>2, <1>3, <1>4
<1>7. SetCallOf(p) \in SetCall
  BY <1>5, <1>6 DEF SetCallOf, SetCall, PodSecrets
<1>8. AimedAt(SetCallOf(p).target)
  <2>1. CASE exact[p] = {}
    BY <1>1, <1>2, <1>4, <2>1 DEF AimedAt
  <2>2. CASE exact[p] # {}
    BY <1>3, <2>2 DEF IInv, PodsAimed
  <2> QED BY <2>1, <2>2
<1> QED BY <1>3, <1>4, <1>5, <1>7, <1>8 DEF PodSecrets

\* A set call that is aimed makes nothing but a step of ClientsStep.
LEMMA ApplyFacts ==
  ASSUME IInv, NEW call \in SetCall, AimedAt(call.target), Apply(call)
  PROVE  /\ ClientsStep
         /\ DOMAIN clients' \subseteq 1..MaxId
         /\ \A i \in DOMAIN clients' : clients'[i] \in Client
         /\ nextId' \in 1..(MaxId + 1)
         /\ call.target \in DOMAIN clients' => clients'[call.target].secret \in PodSecrets
<1>1. /\ DOMAIN clients \subseteq 1..MaxId
      /\ \A i \in DOMAIN clients : clients[i] \in Client
      /\ nextId \in 1..(MaxId + 1)
      /\ \A i \in DOMAIN clients : i < nextId
  BY DEF IInv, TypeOK, IdsBelow
<1>2. MaxId \in Nat
  BY RegistrationAssumption
<1>3. call.secret \in PodSecrets /\ call.target \in Nat
  BY DEF SetCall
<1>4. CASE Create(call)
  <2>1. /\ nextId <= MaxId /\ nextId' = nextId + 1 /\ call.target = 0
        /\ DOMAIN clients' = DOMAIN clients \cup {nextId}
    BY <1>4 DEF Create
  <2>2. \A i \in DOMAIN clients : clients'[i] = clients[i]
    BY <1>1, <1>4 DEF Create
  <2>3. clients'[nextId] = [clientId |-> ClientId, secret |-> call.secret]
    BY <1>4 DEF Create
  <2>4. nextId \notin DOMAIN clients
    BY <1>1
  <2>5. \A i \in DOMAIN clients' : ClientStep(i)
    BY <1>3, <2>1, <2>2, <2>3, <2>4 DEF ClientStep
  <2>6. IdsBelow'
    BY <1>1, <1>2, <2>1 DEF IdsBelow
  <2>7. \A i \in DOMAIN clients' : clients'[i] \in Client
    BY <1>1, <1>3, <2>1, <2>2, <2>3 DEF Client
  <2>8. nextId <= nextId' /\ nextId' \in 1..(MaxId + 1) /\ DOMAIN clients' \subseteq 1..MaxId
    BY <1>1, <1>2, <2>1
  <2>9. call.target \notin DOMAIN clients'
    BY <1>2, <2>1, <2>8
  <2> QED BY <1>2, <2>5, <2>6, <2>7, <2>8, <2>9 DEF ClientsStep
<1>5. CASE Update(call)
  <2> DEFINE t == call.target
  <2>1. /\ t \in DOMAIN clients /\ nextId' = nextId
        /\ DOMAIN clients' = DOMAIN clients
        /\ clients[t].clientId = ClientId
    BY <1>5 DEF Update, AimedAt
  <2>2. \A i \in DOMAIN clients : i # t => clients'[i] = clients[i]
    BY <1>5 DEF Update
  <2>3. clients'[t] = [clients[t] EXCEPT !.secret = call.secret]
    BY <1>5, <2>1 DEF Update, Updated
  <2>4. clients'[t].clientId = ClientId /\ clients'[t].secret = call.secret /\ clients'[t] \in Client
    BY <1>1, <1>3, <2>1, <2>3 DEF Client
  <2>5. \A i \in DOMAIN clients' : ClientStep(i)
    BY <1>3, <2>1, <2>2, <2>4 DEF ClientStep
  <2>6. \A i \in DOMAIN clients' : clients'[i] \in Client
    BY <1>1, <2>1, <2>2, <2>4
  <2>7. IdsBelow' /\ nextId <= nextId'
    BY <1>1, <1>2, <2>1 DEF IdsBelow
  <2> QED BY <1>1, <1>2, <1>3, <2>1, <2>4, <2>5, <2>6, <2>7 DEF ClientsStep
<1> QED BY <1>4, <1>5 DEF Apply

\* Such a step makes no client stale, and spoils no aim.
LEMMA ClientsStepFacts ==
  ASSUME IInv, ClientsStep
  PROVE  /\ Stale' \subseteq Stale
         /\ \A i \in Nat : AimedAt(i) => AimedAt(i)'
<1>1. nextId \in Nat /\ nextId' \in Nat /\ nextId <= nextId'
  BY RegistrationAssumption DEF IInv, TypeOK, ClientsStep
<1>2. Stale' \subseteq Stale
  BY DEF ClientsStep, ClientStep, Stale, Ours
<1>3. ASSUME NEW i \in Nat, AimedAt(i) PROVE AimedAt(i)'
  <2>1. i < nextId' /\ i # nextId
    BY <1>1, <1>3 DEF AimedAt
  <2>2. i \in DOMAIN clients' => clients'[i].clientId = ClientId
    BY <1>3, <2>1 DEF AimedAt, ClientsStep, ClientStep
  <2> QED BY <2>1, <2>2 DEF AimedAt
<1> QED BY <1>2, <1>3

-----------------------------------------------------------------------------
(* What a step of Next does to the clients.                                *)

LEMMA NextClientsStep ==
  ASSUME IInv, Next
  PROVE  ClientsStep
<1>1. nextId \in Nat /\ IdsBelow
  BY RegistrationAssumption DEF IInv, TypeOK
<1>2. ASSUME UNCHANGED <<clients, nextId>> PROVE ClientsStep
  BY <1>1, <1>2 DEF ClientsStep, ClientStep, IdsBelow
<1>3. ASSUME NEW p \in Pods, Set(p) PROVE ClientsStep
  BY <1>3, SetCallOfFacts, ApplyFacts DEF Set
<1>4. CASE LateSet
  <2>1. PICK call \in late : Apply(call) \/ UNCHANGED <<clients, nextId>>
    BY <1>4 DEF LateSet
  <2>2. call \in SetCall /\ AimedAt(call.target)
    BY DEF IInv, TypeOK, LateAimed
  <2> QED BY <1>2, <2>1, <2>2, ApplyFacts
<1>5. CASE Remove
  <2>1. PICK gone \in DOMAIN clients :
           clients' = [i \in DOMAIN clients \ {gone} |-> clients[i]]
    BY <1>5 DEF Remove
  <2>2. /\ DOMAIN clients' \subseteq DOMAIN clients
        /\ \A i \in DOMAIN clients' : clients'[i] = clients[i]
    BY <2>1
  <2> QED BY <1>1, <1>5, <2>2 DEF Remove, ClientsStep, ClientStep, IdsBelow
<1>6. ASSUME NEW p \in Pods,
             \/ Start(p) \/ Query(p) \/ Get(p) \/ RefuseToPick(p)
             \/ SetRefused(p) \/ Fail(p) \/ Wake(p) \/ Stop(p)
      PROVE  ClientsStep
  BY <1>2, <1>6 DEF Start, Query, Get, RefuseToPick, SetRefused, Fail, Wake, Stop
<1>7. CASE Toggle
  BY <1>2, <1>7 DEF Toggle
<1> QED BY <1>3, <1>4, <1>5, <1>6, <1>7 DEF Next, Step

-----------------------------------------------------------------------------
(* Types.                                                                  *)

\* The pause stays between its limits.
LEMMA NextBackoffFacts ==
  ASSUME NEW b \in MinBackoff..MaxBackoff
  PROVE  NextBackoff(b) \in MinBackoff..MaxBackoff
  BY RegistrationAssumption DEF NextBackoff

LEMMA InitTypes == Init => TypeOK
<1> SUFFICES ASSUME Init PROVE TypeOK
  OBVIOUS
<1>1. PICK known \in Existing :
        /\ clients = [i \in DOMAIN known |-> [clientId |-> known[i], secret |-> OldSecret]]
        /\ nextId = Len(known) + 1
  BY DEF Init
<1>2. known \in Seq(OtherIds \cup {ClientId}) /\ Len(known) <= MaxId
  BY RegistrationAssumption
<1>3. /\ DOMAIN clients = 1..Len(known)
      /\ \A i \in DOMAIN clients : known[i] \in OtherIds \cup {ClientId}
  BY <1>1, <1>2
<1>4. /\ DOMAIN clients \subseteq 1..MaxId
      /\ nextId \in 1..(MaxId + 1)
  BY <1>1, <1>2, <1>3, RegistrationAssumption
<1>5. \A i \in DOMAIN clients : clients[i] \in Client
  BY <1>1, <1>3 DEF Client
<1> QED BY <1>4, <1>5, RegistrationAssumption DEF Init, TypeOK, Locations

LEMMA NextTypes ==
  ASSUME IInv, Next
  PROVE  TypeOK'
<1> USE DEF TypeOK
<1>0. TypeOK /\ MaxId \in Nat /\ MinBackoff \in Nat /\ MaxBackoff \in Nat /\ MinBackoff <= MaxBackoff
  BY RegistrationAssumption DEF IInv
<1>1. ASSUME NEW p \in Pods, MayBeLate(p) PROVE late' \subseteq SetCall
  BY <1>0, <1>1, SetCallOfFacts DEF MayBeLate
<1>2. ASSUME NEW p \in Pods, NEW l \in Locations, Leave(p, l)
      PROVE  /\ pc' \in [Pods -> Locations]
             /\ ids' \in [Pods -> SUBSET (1..MaxId)]
             /\ exact' \in [Pods -> SUBSET (1..MaxId)]
  BY <1>0, <1>2 DEF Leave
<1>3. {"off", "query", "get", "set", "wait", "done"} \subseteq Locations
  BY DEF Locations
<1>4. ASSUME NEW p \in Pods, Start(p) PROVE TypeOK'
  BY <1>0, <1>3, <1>4 DEF Start
<1>5. ASSUME NEW p \in Pods, Query(p) PROVE TypeOK'
  BY <1>0, <1>3, <1>5 DEF Query
<1>6. ASSUME NEW p \in Pods, Get(p) PROVE TypeOK'
  <2>1. Exact(p) \subseteq 1..MaxId
    BY <1>0 DEF Exact
  <2> QED BY <1>0, <1>3, <1>6, <2>1 DEF Get
<1>7. ASSUME NEW p \in Pods, RefuseToPick(p) PROVE TypeOK'
  BY <1>0, <1>2, <1>3, <1>7 DEF RefuseToPick
<1>8. ASSUME NEW p \in Pods, Set(p) PROVE TypeOK'
  <2>1. /\ DOMAIN clients' \subseteq 1..MaxId
        /\ \A i \in DOMAIN clients' : clients'[i] \in Client
        /\ nextId' \in 1..(MaxId + 1)
    BY <1>8, SetCallOfFacts, ApplyFacts DEF Set
  <2> QED BY <1>0, <1>2, <1>3, <1>8, <2>1 DEF Set
<1>9. ASSUME NEW p \in Pods, SetRefused(p) PROVE TypeOK'
  BY <1>0, <1>2, <1>3, <1>9 DEF SetRefused
<1>10. ASSUME NEW p \in Pods, Fail(p) PROVE TypeOK'
  BY <1>0, <1>1, <1>2, <1>3, <1>10 DEF Fail
<1>11. ASSUME NEW p \in Pods, Wake(p) PROVE TypeOK'
  <2>1. NextBackoff(backoff[p]) \in MinBackoff..MaxBackoff
    BY <1>0, NextBackoffFacts
  <2> QED BY <1>0, <1>3, <1>11, <2>1 DEF Wake
<1>12. ASSUME NEW p \in Pods, Stop(p) PROVE TypeOK'
  BY <1>0, <1>1, <1>2, <1>3, <1>12 DEF Stop
<1>13. CASE Toggle
  BY <1>0, <1>13 DEF Toggle
<1>14. CASE LateSet
  <2>1. PICK call \in late :
          /\ late' = late \ {call}
          /\ Apply(call) \/ UNCHANGED <<clients, nextId>>
    BY <1>14 DEF LateSet
  <2>2. call \in SetCall /\ AimedAt(call.target)
    BY DEF IInv, LateAimed
  <2>3. /\ DOMAIN clients' \subseteq 1..MaxId
        /\ \A i \in DOMAIN clients' : clients'[i] \in Client
        /\ nextId' \in 1..(MaxId + 1)
    BY <1>0, <2>1, <2>2, ApplyFacts
  <2> QED BY <1>0, <1>14, <2>1, <2>3 DEF LateSet
<1>15. CASE Remove
  <2>1. PICK gone \in DOMAIN clients :
          clients' = [i \in DOMAIN clients \ {gone} |-> clients[i]]
    BY <1>15 DEF Remove
  <2>2. removed' \in 0..MaxRemovals
    BY <1>0, <1>15, RegistrationAssumption DEF Remove
  <2> QED BY <1>0, <1>15, <2>1, <2>2 DEF Remove
<1> QED BY <1>4, <1>5, <1>6, <1>7, <1>8, <1>9, <1>10, <1>11, <1>12, <1>13,
           <1>14, <1>15 DEF Next, Step

-----------------------------------------------------------------------------
(* Aims.                                                                   *)

\* An id that is aimed stays so over any step.
LEMMA AimKept ==
  ASSUME IInv, Next, NEW i \in Nat, AimedAt(i)
  PROVE  AimedAt(i)'
  BY NextClientsStep, ClientsStepFacts

LEMMA NextLateAimed ==
  ASSUME IInv, Next
  PROVE  LateAimed'
<1>1. \A call \in late : call.target \in Nat /\ AimedAt(call.target)
  BY DEF IInv, TypeOK, LateAimed, SetCall
<1>2. ASSUME NEW call \in late PROVE AimedAt(call.target)'
  BY <1>1, AimKept
<1>3. ASSUME NEW p \in Pods, MayBeLate(p), NEW call \in late'
      PROVE  AimedAt(call.target)'
  <2>1. CASE call \in late
    BY <1>2, <2>1
  <2>2. CASE call = SetCallOf(p)
    <3>1. call.target \in Nat /\ AimedAt(call.target)
      BY <2>2, SetCallOfFacts DEF SetCall
    <3> QED BY <3>1, AimKept
  <2> QED BY <1>3, <2>1, <2>2 DEF MayBeLate
<1>4. ASSUME NEW p \in Pods, Fail(p) \/ Stop(p) PROVE LateAimed'
  BY <1>3, <1>4 DEF Fail, Stop, LateAimed
<1>5. ASSUME late' \subseteq late PROVE LateAimed'
  BY <1>2, <1>5 DEF LateAimed
<1>6. ASSUME NEW p \in Pods,
             \/ Start(p) \/ Query(p) \/ Get(p) \/ RefuseToPick(p) \/ Set(p)
             \/ SetRefused(p) \/ Wake(p)
      PROVE  LateAimed'
  BY <1>5, <1>6 DEF Start, Query, Get, RefuseToPick, Set, SetRefused, Wake
<1>7. CASE Toggle \/ LateSet \/ Remove
  BY <1>5, <1>7 DEF Toggle, LateSet, Remove
<1> QED BY <1>4, <1>6, <1>7 DEF Next, Step

\* What Get keeps is ours.
LEMMA ExactFacts ==
  ASSUME IInv, NEW p \in Pods
  PROVE  /\ Exact(p) \subseteq 1..MaxId
         /\ \A i \in Exact(p) : AimedAt(i)
         /\ Stale \subseteq ids[p] => Stale \subseteq Exact(p)
  BY DEF Exact, IInv, TypeOK, IdsBelow, AimedAt, Stale, Ours

LEMMA NextPodsAimed ==
  ASSUME IInv, Next
  PROVE  PodsAimed'
<1> USE RegistrationAssumption
<1>1. exact \in [Pods -> SUBSET (1..MaxId)] /\ MaxId \in Nat
  BY DEF IInv, TypeOK
<1>2. ASSUME NEW q \in Pods, NEW i \in exact[q] PROVE AimedAt(i)'
  <2>1. i \in Nat /\ AimedAt(i)
    BY <1>1 DEF IInv, PodsAimed
  <2> QED BY <2>1, AimKept
<1>3. ASSUME \A q \in Pods : exact'[q] \subseteq exact[q] PROVE PodsAimed'
  BY <1>2, <1>3 DEF PodsAimed
<1>4. ASSUME NEW p \in Pods, Get(p) PROVE PodsAimed'
  <2>1. \A i \in Exact(p) : i \in Nat /\ AimedAt(i)
    BY <1>1, ExactFacts
  <2>2. \A i \in Exact(p) : AimedAt(i)'
    BY <2>1, AimKept
  <2>3. \A q \in Pods : exact'[q] = IF q = p THEN Exact(p) ELSE exact[q]
    BY <1>1, <1>4 DEF Get
  <2> QED BY <1>2, <2>2, <2>3 DEF PodsAimed
<1>5. ASSUME NEW p \in Pods, NEW l \in Locations, Leave(p, l) PROVE PodsAimed'
  <2>1. \A q \in Pods : exact'[q] \subseteq exact[q]
    BY <1>1, <1>5 DEF Leave
  <2> QED BY <1>3, <2>1
<1>6. ASSUME NEW p \in Pods,
             RefuseToPick(p) \/ Set(p) \/ SetRefused(p) \/ Fail(p) \/ Stop(p)
      PROVE  PodsAimed'
  BY <1>5, <1>6 DEF RefuseToPick, Set, SetRefused, Fail, Stop, Locations
<1>7. ASSUME UNCHANGED exact PROVE PodsAimed'
  BY <1>3, <1>7
<1>8. ASSUME NEW p \in Pods, Start(p) \/ Query(p) \/ Wake(p) PROVE PodsAimed'
  BY <1>7, <1>8 DEF Start, Query, Wake
<1>9. CASE Toggle \/ LateSet \/ Remove
  BY <1>7, <1>9 DEF Toggle, LateSet, Remove
<1> QED BY <1>4, <1>6, <1>8, <1>9 DEF Next, Step

-----------------------------------------------------------------------------
(* Stale clients.                                                          *)

\* What the pods other than p know of stale clients stays true.
LEMMA OthersStaleSeen ==
  ASSUME IInv, Next, NEW q \in Pods,
         pc'[q] = pc[q], ids'[q] = ids[q], exact'[q] = exact[q]
  PROVE  /\ pc'[q] = "get" => Stale' \subseteq ids'[q]
         /\ pc'[q] = "set" => /\ Stale' \subseteq exact'[q]
                              /\ Cardinality(exact'[q]) <= 1
         /\ pc'[q] # "set" => exact'[q] = {}
         /\ pc'[q] = "done" => Stale' = {}
<1>1. Stale' \subseteq Stale
  BY NextClientsStep, ClientsStepFacts
<1> QED BY <1>1 DEF IInv, StaleSeen

\* The update of a pod that has seen the only stale client leaves none.
LEMMA SetLeavesNoneStale ==
  ASSUME IInv, NEW p \in Pods, Set(p)
  PROVE  Stale' = {}
<1> DEFINE call == SetCallOf(p)
<1>1. /\ call \in SetCall /\ AimedAt(call.target)
      /\ exact[p] # {} => call.target \in exact[p]
  BY SetCallOfFacts
<1>2. Stale' \subseteq Stale
  BY <1>1, ApplyFacts, ClientsStepFacts DEF Set
<1>3. call.target \notin Stale'
  BY <1>1, ApplyFacts DEF Set, Stale, Ours
<1>4. Stale \subseteq exact[p] /\ \A i, j \in exact[p] : i = j
  <2>1. /\ Stale \subseteq exact[p] /\ Cardinality(exact[p]) <= 1
        /\ exact[p] \in SUBSET (1..MaxId)
    BY DEF Set, IInv, StaleSeen, TypeOK
  <2> QED BY <2>1, AtMostOne
<1> QED BY <1>1, <1>2, <1>3, <1>4

LEMMA NextStaleSeen ==
  ASSUME IInv, Next
  PROVE  StaleSeen'
<1>1. /\ pc \in [Pods -> Locations]
      /\ ids \in [Pods -> SUBSET (1..MaxId)]
      /\ exact \in [Pods -> SUBSET (1..MaxId)]
      /\ \A q \in Pods : pc[q] # "set" => exact[q] = {}
      /\ \A q \in Pods : pc[q] = "get" => Stale \subseteq ids[q]
  BY DEF IInv, TypeOK, StaleSeen
<1>2. Stale' \subseteq Stale
  BY NextClientsStep, ClientsStepFacts
<1> DEFINE Kept(q) == pc'[q] = pc[q] /\ ids'[q] = ids[q] /\ exact'[q] = exact[q]
           SeenBy(q) == /\ pc'[q] = "get" => Stale' \subseteq ids'[q]
                        /\ pc'[q] = "set" => /\ Stale' \subseteq exact'[q]
                                             /\ Cardinality(exact'[q]) <= 1
                        /\ pc'[q] # "set" => exact'[q] = {}
                        /\ pc'[q] = "done" => Stale' = {}
<1>3. ASSUME NEW p \in Pods, \A q \in Pods \ {p} : Kept(q), SeenBy(p)
      PROVE  StaleSeen'
  <2>1. ASSUME NEW q \in Pods PROVE SeenBy(q)
    BY <1>3, OthersStaleSeen
  <2> QED BY <2>1 DEF StaleSeen
<1>4. ASSUME NEW p \in Pods, NEW l \in {"wait", "off", "done"}, Leave(p, l),
             l = "done" => Stale' = {}
      PROVE  StaleSeen'
  <2>1. /\ pc'[p] = l /\ exact'[p] = {}
        /\ \A q \in Pods \ {p} : Kept(q)
    BY <1>1, <1>4 DEF Leave
  <2>2. SeenBy(p)
    BY <1>4, <2>1
  <2> QED BY <1>3, <2>1, <2>2
<1>5. ASSUME NEW p \in Pods, RefuseToPick(p) \/ SetRefused(p) \/ Fail(p) \/ Stop(p)
      PROVE  StaleSeen'
  BY <1>4, <1>5 DEF RefuseToPick, SetRefused, Fail, Stop
<1>6. ASSUME NEW p \in Pods, Set(p) PROVE StaleSeen'
  BY <1>4, <1>6, SetLeavesNoneStale DEF Set
<1>7. ASSUME NEW p \in Pods, Start(p) \/ Wake(p) PROVE StaleSeen'
  <2>1. /\ pc'[p] = "query" /\ exact'[p] = {}
        /\ \A q \in Pods \ {p} : Kept(q)
    BY <1>1, <1>7 DEF Start, Wake
  <2> QED BY <1>3, <2>1
<1>8. ASSUME NEW p \in Pods, Query(p) PROVE StaleSeen'
  <2>1. PICK found \in SUBSET DOMAIN clients :
          /\ Ours \subseteq found
          /\ ids' = [ids EXCEPT ![p] = found]
          /\ pc' = [pc EXCEPT ![p] = IF found = {} THEN "set" ELSE "get"]
    BY <1>8 DEF Query
  <2>2. /\ exact'[p] = {} /\ ids'[p] = found
        /\ pc'[p] = IF found = {} THEN "set" ELSE "get"
        /\ \A q \in Pods \ {p} : Kept(q)
    BY <1>1, <1>8, <2>1 DEF Query
  <2>3. Stale' \subseteq found
    BY <1>2, <2>1 DEF Stale
  <2>4. Cardinality({}) <= 1
    BY FS_EmptySet
  <2>5. SeenBy(p)
    BY <2>2, <2>3, <2>4
  <2> QED BY <1>3, <2>2, <2>5
<1>9. ASSUME NEW p \in Pods, Get(p) PROVE StaleSeen'
  <2>1. /\ pc[p] = "get" /\ Cardinality(Exact(p)) <= 1
        /\ pc'[p] = "set" /\ exact'[p] = Exact(p)
        /\ \A q \in Pods \ {p} : Kept(q)
    BY <1>1, <1>9 DEF Get
  <2>2. Stale' \subseteq Exact(p)
    BY <1>1, <1>2, <2>1, ExactFacts
  <2> QED BY <1>3, <2>1, <2>2
<1>10. ASSUME UNCHANGED <<pc, ids, exact>> PROVE StaleSeen'
  <2>1. ASSUME NEW q \in Pods PROVE SeenBy(q)
    BY <1>10, OthersStaleSeen
  <2> QED BY <2>1 DEF StaleSeen
<1>11. CASE Toggle \/ LateSet \/ Remove
  BY <1>10, <1>11 DEF Toggle, LateSet, Remove
<1> QED BY <1>5, <1>6, <1>7, <1>8, <1>9, <1>11 DEF Next, Step

-----------------------------------------------------------------------------
(* The theorems.                                                           *)

LEMMA InitIInv == Init => IInv
<1> SUFFICES ASSUME Init PROVE IInv
  OBVIOUS
<1>1. TypeOK
  BY InitTypes
<1>2. PICK known \in Existing :
        /\ clients = [i \in DOMAIN known |-> [clientId |-> known[i], secret |-> OldSecret]]
        /\ nextId = Len(known) + 1
  BY DEF Init
<1>3. DOMAIN clients = 1..Len(known) /\ Len(known) \in Nat
  BY <1>2, RegistrationAssumption
<1>4. IdsBelow
  BY <1>2, <1>3 DEF IdsBelow
<1>5. PodsAimed /\ LateAimed /\ StaleSeen
  BY DEF Init, PodsAimed, LateAimed, StaleSeen
<1> QED BY <1>1, <1>4, <1>5 DEF IInv

LEMMA NextIInv == IInv /\ [Next]_vars => IInv'
<1>1. ASSUME IInv, Next PROVE IInv'
  <2>1. IdsBelow'
    BY <1>1, NextClientsStep DEF ClientsStep
  <2> QED BY <1>1, <2>1, NextTypes, NextLateAimed, NextPodsAimed, NextStaleSeen DEF IInv
<1>2. ASSUME IInv, UNCHANGED vars PROVE IInv'
  BY <1>2 DEF vars, IInv, TypeOK, IdsBelow, PodsAimed, LateAimed, StaleSeen,
              AimedAt, Stale, Ours
<1> QED BY <1>1, <1>2

LEMMA Inductive == Spec => []IInv
<1> QED BY InitIInv, NextIInv, PTL DEF Spec

\* Every variable keeps its type; the pause stays between 5 s and 60 s.
THEOREM RegistrationTypes == Spec => []TypeOK
<1>1. IInv => TypeOK
  BY DEF IInv
<1> QED BY <1>1, Inductive, PTL

\* Once a pod has registered no client of ours holds what it held before.
THEOREM SecretsRenewed == Spec => []NoStaleSecret
<1>1. IInv => NoStaleSecret
  BY DEF IInv, StaleSeen, Stale, NoStaleSecret
<1> QED BY <1>1, Inductive, PTL

\* Clients of other applications are never changed, by any of the pods or by
\* a call that was given up on.
THEOREM OthersKept == Spec => OthersUntouched
<1>1. ASSUME IInv, Next PROVE \A i \in 1..MaxId : OtherClientKept(i)
  BY <1>1, NextClientsStep DEF ClientsStep, ClientStep, OtherClientKept
<1> DEFINE A == \A i \in 1..MaxId : OtherClientKept(i)
<1>2. IInv /\ [Next]_vars => [A]_vars
  <2> HIDE DEF A
  <2> SUFFICES ASSUME IInv, Next PROVE A
    OBVIOUS
  <2> QED BY <1>1 DEF A
<1> QED BY <1>2, Inductive, PTL DEF Spec, OthersUntouched
=============================================================================
