------------------------------ MODULE Api_proof ------------------------------
(***************************************************************************)
(* Proofs about Api, for any set of names, domains, requests and sessions  *)
(* and any number of requests at once.                                     *)
(***************************************************************************)
EXTENDS Api, TLAPS

-----------------------------------------------------------------------------
(* The inductive invariant.                                                *)

\* The domains a request carries were its user's while it was in progress.
Known(c) == \E w \in seen[c] : w.rows[calls[c].session.user] = calls[c].doms

\* What the route alone asks of a domain admin's request.
RouteFits(c) ==
  LET r == calls[c].req
      doms == calls[c].doms
  IN /\ r.op \in DomainAdmin
     /\ r.op \in {"del_email", "del_group"} => Manages(doms, r.arg)
     /\ Manages(doms, r.name)

WasNoAdmin(c, n) == \E w \in seen[c] : w.role[n] # "admin"

TargetFits(c) ==
  /\ Known(c)
  /\ RouteFits(c)
  /\ WasManageable(c, calls[c].doms, calls[c].req.name)

\* What has been established when a request that is no full admin's has come to
\* a place.
Established(c) ==
  LET s == calls[c].session
      r == calls[c].req
      at == calls[c].at
      doms == calls[c].doms
  IN /\ at = "target_role" => Known(c) /\ RouteFits(c)
     /\ at = "target_domains" => Known(c) /\ RouteFits(c) /\ WasNoAdmin(c, r.name)
     /\ at = "exists" =>
          /\ r.op \notin {"create", "patch", "password", "list"}
          /\ TargetFits(c) \/ (r.op \in SelfService /\ r.name = s.user)
     /\ at = "email_type" => r.op = "del_email" /\ TargetFits(c)
     /\ at = "address" =>
          \/ r.op = "create" /\ ~r.quota /\ Known(c) /\ Manages(doms, r.name)
          \/ r.op = "add_email" /\ TargetFits(c) /\ Manages(doms, r.arg)
     /\ at \in {"group_role", "group_domains"} =>
          r.op = "add_group" /\ TargetFits(c) /\ Manages(doms, r.arg)
     /\ at = "group_domains" => WasNoAdmin(c, r.arg)

SignInPlaces == {"signin_account", "signin_role"}

CallRights(c) ==
  /\ World \in seen[c]
  /\ (calls[c].at \in SignInPlaces) = (calls[c].req.op = "signin")
  /\ calls[c].req.op # "signin" /\ ~calls[c].session.admin => Established(c)
  /\ calls[c].at \in {"store", "destroy", "own"} => Entitled(c)
  /\ calls[c].at = "destroy" => calls[c].req.op = "delete"

RightsInv == \A c \in Calls : calls[c] # Idle => CallRights(c)

-----------------------------------------------------------------------------
(* Types.                                                                  *)

\* What GoTo leaves of the requests.
LEMMA GoToKeeps ==
  ASSUME TypeOK, NEW c \in Calls, calls[c] # Idle, NEW place \in Place, GoTo(c, place)
  PROVE  /\ calls' \in [Calls -> Busy \cup {Idle}]
         /\ \A d \in Calls : d # c => calls'[d] = calls[d]
         /\ place = "idle" => calls'[c] = Idle
         /\ place # "idle" =>
              /\ calls'[c] # Idle
              /\ calls'[c].at = place
              /\ calls'[c].session = calls[c].session
              /\ calls'[c].req = calls[c].req
              /\ calls'[c].doms = calls[c].doms
              /\ calls'[c].begun = calls[c].begun
<1>1. calls \in [Calls -> Busy \cup {Idle}] /\ calls[c] \in Busy
  BY DEF TypeOK
<1>2. calls' = [calls EXCEPT ![c] = IF place = "idle" THEN Idle
                                    ELSE [calls[c] EXCEPT !.at = place]]
  BY DEF GoTo
<1>3. CASE place = "idle"
  BY <1>1, <1>2, <1>3
<1>4. CASE place # "idle"
  <2>1. calls'[c] = [calls[c] EXCEPT !.at = place]
    BY <1>1, <1>2, <1>4
  <2>2. /\ calls'[c] \in Busy /\ calls'[c].at = place
        /\ calls'[c].session = calls[c].session
        /\ calls'[c].req = calls[c].req
        /\ calls'[c].doms = calls[c].doms
        /\ calls'[c].begun = calls[c].begun
    BY <1>1, <1>4, <2>1 DEF Busy
  <2>3. calls'[c] # Idle
    BY <1>4, <2>2 DEF Idle
  <2>4. \A d \in Calls : d # c => calls'[d] = calls[d]
    BY <1>1, <1>2
  <2>5. calls' \in [Calls -> Busy \cup {Idle}]
    BY <1>1, <1>2, <2>1, <2>2
  <2> QED BY <1>4, <2>2, <2>3, <2>4, <2>5
<1> QED BY <1>3, <1>4

\* What Begin makes of the requests.
LEMMA BeginMakes ==
  ASSUME TypeOK, NEW c \in Calls, NEW place \in Place, NEW s \in Session,
         NEW r \in Requests \cup SignInOp, Begin(c, place, s, r)
  PROVE  /\ calls' \in [Calls -> Busy \cup {Idle}]
         /\ calls[c] = Idle
         /\ \A d \in Calls : d # c => calls'[d] = calls[d]
         /\ place = "idle" => calls'[c] = Idle
         /\ place # "idle" =>
              /\ calls'[c] # Idle
              /\ calls'[c] = [at |-> place, session |-> s, req |-> r,
                              doms |-> {}, begun |-> clock]
<1>1. calls \in [Calls -> Busy \cup {Idle}] /\ clock \in Nat
  BY ApiAssumption DEF TypeOK
<1>2. calls[c] = Idle
  BY DEF Begin
<1> DEFINE new == [at |-> place, session |-> s, req |-> r, doms |-> {}, begun |-> clock]
<1>3. calls' = [calls EXCEPT ![c] = IF place = "idle" THEN Idle ELSE new]
  BY DEF Begin
<1>4. place # "idle" => new \in Busy /\ new # Idle
  BY <1>1 DEF Busy, Idle
<1>5. \A d \in Calls : d # c => calls'[d] = calls[d]
  BY <1>1, <1>3
<1> QED BY <1>1, <1>2, <1>3, <1>4, <1>5

\* The helpers that choose the next place choose a place.
LEMMA Places ==
  ASSUME NEW s, NEW r, NEW doms
  PROVE  /\ Handler(s, r, doms) \in {"idle", "store", "address", "own", "exists"}
         /\ Routed(s, r, doms) \in {"idle", "store", "address", "own", "exists", "target_role"}
         /\ AfterLookup(s, r, doms) \in {"idle", "store", "address", "group_role", "email_type"}
<1>1. Handler(s, r, doms) \in {"idle", "store", "address", "own", "exists"}
  BY DEF Handler
<1>2. Routed(s, r, doms) \in {"idle", "store", "address", "own", "exists", "target_role"}
  BY <1>1 DEF Routed
<1>3. AfterLookup(s, r, doms) \in {"idle", "store", "address", "group_role", "email_type"}
  BY DEF AfterLookup
<1> QED BY <1>1, <1>2, <1>3

\* TypeOK without the history.
Typed ==
  /\ clock \in 0..MaxTime
  /\ role \in [Name -> Role]
  /\ alias \subseteq Name \X Name
  /\ rows \in [Name -> SUBSET Domain]
  /\ sessions \subseteq Session
  /\ calls \in [Calls -> Busy \cup {Idle}]
  /\ requests \in 0..MaxRequests
  /\ changes \in 0..MaxChanges

LEMMA HoldsType ==
  ASSUME clock \in 0..MaxTime, role \in [Name -> Role]
  PROVE  Holds \subseteq Name \X {"user", "admin"} \X (0..MaxTime)
BY DEF Holds

LEMMA TypeInit == Init => TypeOK
<1> SUFFICES ASSUME Init PROVE TypeOK
  OBVIOUS
<1>1. sessions \subseteq Session
  <2> DEFINE signed(n) == [user |-> n, admin |-> InitRole[n] = "admin", expires |-> TTL]
  <2>1. \A n \in SignedIn : n \in Name
    BY ApiAssumption
  <2>2. \A n \in SignedIn : signed(n) \in Session
    <3> SUFFICES ASSUME NEW n \in SignedIn PROVE signed(n) \in Session
      OBVIOUS
    <3>1. (InitRole[n] = "admin") \in BOOLEAN
      OBVIOUS
    <3> QED BY <2>1, <3>1, ApiAssumption DEF Session
  <2>3. sessions = {signed(n) : n \in SignedIn}
    BY DEF Init
  <2> QED BY <2>2, <2>3
<1>2. calls \in [Calls -> Busy \cup {Idle}]
  BY DEF Init
<1>3. clock \in 0..MaxTime /\ requests \in 0..MaxRequests /\ changes \in 0..MaxChanges
  BY ApiAssumption DEF Init
<1>4. /\ role \in [Name -> Role] /\ alias \subseteq Name \X Name
      /\ rows \in [Name -> SUBSET Domain]
  BY ApiAssumption DEF Init
<1>5. held \subseteq Name \X {"user", "admin"} \X (0..MaxTime)
  BY <1>3, <1>4, HoldsType DEF Init
<1>6. seen \in [Calls -> SUBSET [role : [Name -> Role], alias : SUBSET (Name \X Name),
                                rows : [Name -> SUBSET Domain]]]
  BY DEF Init
<1> QED BY <1>1, <1>2, <1>3, <1>4, <1>5, <1>6 DEF TypeOK

\* A call that only moves on.
LEMMA MoveTypes ==
  ASSUME TypeOK, NEW c \in Calls, calls[c] # Idle, NEW place \in Place, GoTo(c, place),
         UNCHANGED <<clock, directory, sessions, bounds>>
  PROVE  Typed'
BY GoToKeeps DEF TypeOK, Typed, directory, bounds

LEMMA BeginTypes ==
  ASSUME TypeOK, NEW c \in Calls, NEW place \in Place, NEW s \in Session,
         NEW r \in Requests \cup SignInOp, Begin(c, place, s, r)
  PROVE  Typed'
<1>1. calls' \in [Calls -> Busy \cup {Idle}]
  BY BeginMakes
<1>2. requests' \in 0..MaxRequests
  <2>1. CASE \A d \in Calls : calls[d] = Idle
    BY <2>1, ApiAssumption DEF Begin
  <2>2. CASE ~ \A d \in Calls : calls[d] = Idle
    BY <2>2, ApiAssumption DEF Begin, TypeOK
  <2> QED BY <2>1, <2>2
<1> QED BY <1>1, <1>2 DEF Begin, TypeOK, Typed, directory

\* What a session presented to ReadDomains turns its request into.
LEMMA ReadMakes ==
  ASSUME TypeOK, NEW c \in Calls, ReadDomains(c), calls[c].session \in Session
  PROVE  LET doms == rows[calls[c].session.user]
             place == Routed(calls[c].session, calls[c].req, doms)
         IN /\ calls[c] # Idle
            /\ doms \subseteq Domain
            /\ calls' \in [Calls -> Busy \cup {Idle}]
            /\ \A d \in Calls : d # c => calls'[d] = calls[d]
            /\ place = "idle" => calls'[c] = Idle
            /\ place # "idle" =>
                 /\ calls'[c] # Idle
                 /\ calls'[c].at = place /\ calls'[c].doms = doms
                 /\ calls'[c].session = calls[c].session
                 /\ calls'[c].req = calls[c].req
                 /\ calls'[c].begun = calls[c].begun
<1> DEFINE doms == rows[calls[c].session.user]
           place == Routed(calls[c].session, calls[c].req, doms)
<1>1. calls[c] # Idle /\ calls[c] \in Busy /\ calls \in [Calls -> Busy \cup {Idle}]
  BY DEF ReadDomains, At, TypeOK
<1>2. doms \subseteq Domain
  BY DEF TypeOK, Session
<1>3. place \in Place
  BY Places DEF Place
<1>4. calls' = [calls EXCEPT ![c] = IF place = "idle" THEN Idle
                  ELSE [calls[c] EXCEPT !.at = place, !.doms = doms]]
  BY DEF ReadDomains
<1> HIDE DEF doms, place
<1>5. \A d \in Calls : d # c => calls'[d] = calls[d]
  BY <1>1, <1>4
<1>6. CASE place = "idle"
  BY <1>1, <1>2, <1>4, <1>5, <1>6 DEF doms, place
<1>7. CASE place # "idle"
  <2>1. calls'[c] = [calls[c] EXCEPT !.at = place, !.doms = doms]
    BY <1>1, <1>4, <1>7
  <2>2. /\ calls'[c] \in Busy /\ calls'[c].at = place /\ calls'[c].doms = doms
        /\ calls'[c].session = calls[c].session /\ calls'[c].req = calls[c].req
        /\ calls'[c].begun = calls[c].begun
    BY <1>1, <1>2, <1>3, <1>7, <2>1 DEF Busy
  <2>3. calls'[c] # Idle
    BY <1>7, <2>2 DEF Idle
  <2>4. calls' \in [Calls -> Busy \cup {Idle}]
    BY <1>1, <1>4, <2>1, <2>2
  <2> QED BY <1>1, <1>2, <1>5, <1>7, <2>2, <2>3, <2>4 DEF doms, place
<1> QED BY <1>6, <1>7

LEMMA BusyCall ==
  ASSUME TypeOK, NEW c \in Calls, calls[c] # Idle
  PROVE  /\ calls[c] \in Busy
         /\ calls[c].session \in Session
         /\ calls[c].req \in Requests \cup SignInOp
         /\ calls[c].begun \in Nat
BY DEF TypeOK, Busy

\* The steps of a request that change nothing but where it is.
Moves(c) ==
  \/ SignInAccount(c) \/ CheckTarget(c) \/ LookUp(c) \/ ReadEmailType(c)
  \/ CheckAddress(c) \/ CheckGroup(c) \/ ChangeOwn(c) \/ Fail(c)

LEMMA MovesMove ==
  ASSUME TypeOK, NEW c \in Calls, Moves(c)
  PROVE  /\ calls[c] # Idle
         /\ UNCHANGED <<clock, directory, sessions, bounds>>
         /\ \E place \in Place : GoTo(c, place)
<1>1. CASE SignInAccount(c)
  BY <1>1 DEF SignInAccount, At, Place
<1>2. CASE CheckTarget(c)
  <2> DEFINE next == Handler(calls[c].session, calls[c].req, calls[c].doms)
  <2>1. next \in Place
    BY Places DEF Place
  <2>2. CanManageAccount(c, calls[c].req.name, "target_role", "target_domains", next)
    BY <1>2 DEF CheckTarget
  <2> QED BY <2>1, <2>2 DEF CanManageAccount, At, Place
<1>8. CASE CheckGroup(c)
  BY <1>8 DEF CheckGroup, CanManageAccount, At, Place
<1>3. CASE LookUp(c)
  BY <1>3, Places DEF LookUp, At, Place
<1>4. CASE ReadEmailType(c)
  BY <1>4 DEF ReadEmailType, At, Place
<1>5. CASE CheckAddress(c)
  BY <1>5 DEF CheckAddress, At, Place
<1>6. CASE ChangeOwn(c)
  BY <1>6 DEF ChangeOwn, At, Place
<1>7. CASE Fail(c)
  BY <1>7 DEF Fail, Place
<1> QED BY <1>1, <1>2, <1>3, <1>4, <1>5, <1>6, <1>7, <1>8 DEF Moves

\* What a session signed by SignInRole is.
Signed(c) ==
  [user |-> calls[c].req.name, admin |-> role[calls[c].req.name] = "admin",
   expires |-> clock + TTL]

LEMMA SignedType ==
  ASSUME TypeOK, NEW c \in Calls, calls[c] # Idle
  PROVE  Signed(c) \in Session
<1>1. calls[c].req.name \in Name
  BY BusyCall DEF Requests, SignInOp
<1>2. (role[calls[c].req.name] = "admin") \in BOOLEAN
  OBVIOUS
<1>3. clock + TTL \in Nat
  BY ApiAssumption DEF TypeOK
<1> QED BY <1>1, <1>2, <1>3 DEF Signed, Session

LEMMA CallTypes ==
  ASSUME TypeOK, NEW c \in Calls, CallStep(c)
  PROVE  Typed'
<1>1. ASSUME NEW n \in SignIns, SignIn(c, n) PROVE Typed'
  <2>1. n \in Name
    BY ApiAssumption
  <2>2. [user |-> n, admin |-> FALSE, expires |-> 0] \in Session
    BY <2>1 DEF Session
  <2>3. [op |-> "signin", name |-> n] \in Requests \cup SignInOp
    BY <2>1 DEF SignInOp
  <2> QED BY <1>1, <2>2, <2>3, BeginTypes DEF SignIn, Place
<1>2. ASSUME Moves(c) PROVE Typed'
  BY <1>2, MovesMove, MoveTypes
<1>3. CASE SignInRole(c)
  <2>1. calls[c] # Idle /\ sessions' = sessions \cup {Signed(c)} /\ GoTo(c, "idle")
    BY <1>3 DEF SignInRole, At, Signed
  <2>2. sessions' \subseteq Session
    BY <2>1, SignedType DEF TypeOK
  <2>3. calls' \in [Calls -> Busy \cup {Idle}]
    BY <2>1, GoToKeeps DEF Place
  <2> QED BY <1>3, <2>2, <2>3 DEF SignInRole, TypeOK, Typed, directory, bounds
<1>4. ASSUME NEW s \in sessions, NEW r \in Request, Ask(c, s, r) PROVE Typed'
  <2>1. s \in Session /\ r \in Requests \cup SignInOp
    BY ApiAssumption DEF TypeOK
  <2>2. (IF s.admin THEN Handler(s, r, {}) ELSE "domains") \in Place
    BY Places DEF Place
  <2> QED BY <1>4, <2>1, <2>2, BeginTypes DEF Ask
<1>5. CASE ReadDomains(c)
  <2>1. calls[c].session \in Session
    BY <1>5, BusyCall DEF ReadDomains, At
  <2>2. calls' \in [Calls -> Busy \cup {Idle}]
    BY <1>5, <2>1, ReadMakes
  <2> QED BY <1>5, <2>2 DEF ReadDomains, TypeOK, Typed, directory, bounds
<1>6. CASE Store(c)
  <2>1. calls[c] # Idle
    BY <1>6 DEF Store, At
  <2>2. calls' \in [Calls -> Busy \cup {Idle}]
    <3>1. PICK place \in Place : GoTo(c, place)
      BY <1>6 DEF Store, Place
    <3> QED BY <2>1, <3>1, GoToKeeps
  <2> DEFINE r == calls[c].req
  <2>3. UNCHANGED <<clock, sessions, requests, changes>>
    BY <1>6 DEF Store, bounds
  <2>4. At(c, "store") /\ calls[c].at \notin {"signin_account", "signin_role"}
    BY <1>6 DEF Store, At
  <2>5. role' \in [Name -> Role]
    BY <1>6 DEF Store, TypeOK, Role, directory
  <2>6. rows' \in [Name -> SUBSET Domain]
    <3>1. CASE r.op = "put_domains" /\ rows' = [rows EXCEPT ![r.name] = r.domains]
      <4>1. r.domains \in SUBSET Domain
        BY <2>1, <3>1, BusyCall DEF Requests, SignInOp
      <4> QED BY <3>1, <4>1 DEF TypeOK
    <3>2. CASE rows' = [rows EXCEPT ![r.name] = {}]
      BY <3>2 DEF TypeOK
    <3>3. CASE rows' = rows
      BY <3>3 DEF TypeOK
    <3> QED BY <1>6, <3>1, <3>2, <3>3 DEF Store, directory
  <2>7. alias' \subseteq Name \X Name
    <3>1. CASE r.op = "add_email" /\ alias' = alias \cup {<<r.arg, r.name>>}
      <4>1. r.arg \in Name /\ r.name \in Name
        BY <2>1, <3>1, BusyCall DEF Requests, SignInOp
      <4> QED BY <3>1, <4>1 DEF TypeOK
    <3>2. CASE alias' \subseteq alias
      BY <3>2 DEF TypeOK
    <3> QED BY <1>6, <3>1, <3>2 DEF Store, directory
  <2> QED BY <2>2, <2>3, <2>5, <2>6, <2>7 DEF TypeOK, Typed
<1>7. CASE Destroy(c)
  <2>1. calls' \in [Calls -> Busy \cup {Idle}]
    BY <1>7, GoToKeeps DEF Destroy, At, Place
  <2>2. role' \in [Name -> Role]
    BY <1>7 DEF Destroy, TypeOK, Role
  <2>3. alias' \subseteq Name \X Name
    BY <1>7 DEF Destroy, TypeOK
  <2> QED BY <1>7, <2>1, <2>2, <2>3 DEF Destroy, TypeOK, Typed, bounds
<1> QED BY <1>1, <1>2, <1>3, <1>4, <1>5, <1>6, <1>7 DEF CallStep, Moves

LEMMA TypeStep == TypeOK /\ [Next]_vars => TypeOK'
<1> SUFFICES ASSUME TypeOK, [Next]_vars PROVE TypeOK'
  OBVIOUS
<1>1. CASE Next
  <2>1. Typed'
    <3>1. ASSUME NEW c \in Calls, CallStep(c) PROVE Typed'
      BY <3>1, CallTypes
    <3>2. ASSUME NEW ch \in Change, ChangeElsewhere(ch) PROVE Typed'
      <4>1. ch.name \in Name /\ ch.role \in Role
        BY ApiAssumption
      <4>2. role' \in [Name -> Role]
        BY <3>2, <4>1 DEF ChangeElsewhere, TypeOK
      <4>3. alias' \subseteq Name \X Name
        BY <3>2 DEF ChangeElsewhere, TypeOK
      <4>4. changes' \in 0..MaxChanges
        BY <3>2, ApiAssumption DEF ChangeElsewhere, TypeOK
      <4> QED BY <3>2, <4>2, <4>3, <4>4 DEF ChangeElsewhere, TypeOK, Typed
    <3>3. CASE Tick
      <4>1. clock' \in 0..MaxTime
        BY <3>3, ApiAssumption DEF Tick, TypeOK
      <4> QED BY <3>3, <4>1 DEF Tick, TypeOK, Typed, directory, bounds
    <3> QED BY <1>1, <3>1, <3>2, <3>3 DEF Next
  <2>2. Remember
    BY <1>1 DEF Next
  <2>3. Holds' \subseteq Name \X {"user", "admin"} \X (0..MaxTime)
    BY <2>1 DEF Typed, Holds
  <2>4. held' \subseteq Name \X {"user", "admin"} \X (0..MaxTime)
    BY <2>2, <2>3 DEF Remember, TypeOK
  <2>5. World' \in [role : [Name -> Role], alias : SUBSET (Name \X Name),
                    rows : [Name -> SUBSET Domain]]
    BY <2>1 DEF Typed, World
  <2>6. seen' \in [Calls -> SUBSET [role : [Name -> Role], alias : SUBSET (Name \X Name),
                                    rows : [Name -> SUBSET Domain]]]
    BY <2>2, <2>5 DEF Remember, TypeOK
  <2> QED BY <2>1, <2>4, <2>6 DEF Typed, TypeOK
<1>2. CASE UNCHANGED vars
  BY <1>2 DEF vars, directory, bounds, history, TypeOK
<1> QED BY <1>1, <1>2

\* Every variable of the model keeps its type.
THEOREM ApiTypeCorrect == Spec => []TypeOK
BY TypeInit, TypeStep, PTL DEF Spec

-----------------------------------------------------------------------------
(* Rights.                                                                 *)

\* The history of a request only grows.
LEMMA SeenGrows ==
  ASSUME TypeOK, Remember, NEW c \in Calls, calls'[c] # Idle
  PROVE  /\ World' \in seen'[c]
         /\ calls[c] # Idle => seen[c] \subseteq seen'[c]
BY DEF Remember, TypeOK

\* The same request, perhaps at another place, with at least the same history.
Goes(c) ==
  /\ calls'[c].session = calls[c].session
  /\ calls'[c].req = calls[c].req
  /\ calls'[c].doms = calls[c].doms
  /\ seen[c] \subseteq seen'[c]

\* So what was established stays so.
LEMMA FactsKept ==
  ASSUME NEW c \in Calls, Goes(c)
  PROVE  /\ Known(c) => Known(c)'
         /\ RouteFits(c) => RouteFits(c)'
         /\ TargetFits(c) => TargetFits(c)'
         /\ WasNoAdmin(c, calls[c].req.name) => WasNoAdmin(c, calls[c].req.name)'
         /\ WasNoAdmin(c, calls[c].req.arg) => WasNoAdmin(c, calls[c].req.arg)'
<1>1. Known(c) => Known(c)'
  BY DEF Goes, Known
<1>2. RouteFits(c) => RouteFits(c)'
  BY DEF Goes, RouteFits, Manages
<1>3. WasManageable(c, calls[c].doms, calls[c].req.name)
        => WasManageable(c, calls[c].doms, calls[c].req.name)'
  BY DEF Goes, WasManageable, Manages
<1>4. TargetFits(c) => TargetFits(c)'
  BY <1>1, <1>2, <1>3 DEF TargetFits
<1> QED BY <1>1, <1>2, <1>4 DEF Goes, WasNoAdmin

LEMMA EntitledKept ==
  ASSUME NEW c \in Calls, Goes(c), Entitled(c), At(c, "own") => At(c, "own")'
  PROVE  Entitled(c)'
<1> DEFINE s == calls[c].session
           r == calls[c].req
<1>1. /\ WasFree(c, r.name) => WasFree(c, r.name)'
      /\ WasFree(c, r.arg) => WasFree(c, r.arg)'
  BY DEF Goes, WasFree
<1>2. \A m : /\ WasManageable(c, m, r.name) => WasManageable(c, m, r.name)'
             /\ WasManageable(c, m, r.arg) => WasManageable(c, m, r.arg)'
  BY DEF Goes, WasManageable, Manages
<1>3. CASE s.admin
  BY <1>3 DEF Goes, Entitled
<1>4. CASE ~s.admin
  <2>1. r.op \in {"patch", "create"} => ~r.quota
    BY <1>4 DEF Entitled
  <2>2. CASE r.op \in SelfService /\ r.name = s.user /\ (r.op = "password" => At(c, "own"))
    BY <2>1, <2>2 DEF Goes, Entitled
  <2>3. CASE ~(r.op \in SelfService /\ r.name = s.user /\ (r.op = "password" => At(c, "own")))
    <3> DEFINE fits(m) ==
          \/ r.op = "list" /\ m # {}
          \/ r.op = "create" /\ Manages(m, r.name) /\ WasFree(c, r.name)
          \/ /\ r.op \in DomainAdmin /\ WasManageable(c, m, r.name)
             /\ r.op \in {"add_email", "del_email", "del_group"} => Manages(m, r.arg)
             /\ r.op = "add_email" => WasFree(c, r.arg)
             /\ r.op = "add_group" => WasManageable(c, m, r.arg)
    <3>1. PICK w \in seen[c] : fits(w.rows[s.user])
      BY <1>4, <2>3 DEF Entitled
    <3>2. w \in seen'[c] /\ fits(w.rows[s.user])'
      BY <1>1, <1>2, <3>1 DEF Goes, Manages
    <3> QED BY <2>1, <3>2 DEF Entitled, Goes
  <2> QED BY <2>2, <2>3
<1> QED BY <1>3, <1>4

\* A request that the step leaves where it is.
LEMMA StayRights ==
  ASSUME TypeOK, Remember, NEW c \in Calls, calls[c] # Idle, calls'[c] = calls[c], CallRights(c)
  PROVE  CallRights(c)'
<1>1. World' \in seen'[c] /\ Goes(c)
  BY SeenGrows DEF Goes
<1>2. Established(c) => Established(c)'
  BY <1>1, FactsKept DEF Established
<1>3. Entitled(c) => Entitled(c)'
  BY <1>1, EntitledKept DEF At
<1> QED BY <1>1, <1>2, <1>3 DEF CallRights

\* A domain admin's request on an account of theirs.
LEMMA TargetEntitled ==
  ASSUME NEW c \in Calls, TargetFits(c),
         calls[c].req.op = "patch" => ~calls[c].req.quota,
         calls[c].req.op = "add_email" =>
           Manages(calls[c].doms, calls[c].req.arg) /\ WasFree(c, calls[c].req.arg),
         calls[c].req.op = "add_group" =>
           WasManageable(c, calls[c].doms, calls[c].req.arg)
  PROVE  Entitled(c)
<1>1. PICK w \in seen[c] : w.rows[calls[c].session.user] = calls[c].doms
  BY DEF TargetFits, Known
<1>2. calls[c].req.op # "create"
  BY DEF TargetFits, RouteFits, DomainAdmin, SelfService
<1> QED BY <1>1, <1>2 DEF TargetFits, RouteFits, Entitled

\* A request that moves on with what its new place asks for.
LEMMA MovedRights ==
  ASSUME TypeOK, Remember, NEW c \in Calls, calls[c] # Idle, CallRights(c),
         NEW place \in Place \ {"idle"}, GoTo(c, place),
         (place \in SignInPlaces) = (calls[c].req.op = "signin"),
         calls[c].req.op # "signin" /\ ~calls[c].session.admin => Established(c)',
         place \in {"store", "destroy", "own"} => Entitled(c)',
         place = "destroy" => calls[c].req.op = "delete"
  PROVE  CallRights(c)'
<1>1. /\ calls'[c] # Idle
      /\ calls'[c].at = place
      /\ calls'[c].session = calls[c].session
      /\ calls'[c].req = calls[c].req
  BY GoToKeeps
<1>2. World' \in seen'[c]
  BY <1>1, SeenGrows
<1> QED BY <1>1, <1>2 DEF CallRights

LEMMA MovedGoes ==
  ASSUME TypeOK, Remember, NEW c \in Calls, calls[c] # Idle,
         NEW place \in Place \ {"idle"}, GoTo(c, place)
  PROVE  Goes(c) /\ calls'[c] # Idle /\ calls'[c].at = place
<1>1. /\ calls'[c] # Idle /\ calls'[c].at = place
      /\ calls'[c].session = calls[c].session
      /\ calls'[c].req = calls[c].req
      /\ calls'[c].doms = calls[c].doms
  BY GoToKeeps
<1> QED BY <1>1, SeenGrows DEF Goes

\* Moving on to what the request is for.
LEMMA ArrivedRights ==
  ASSUME TypeOK, Remember, NEW c \in Calls, calls[c] # Idle, CallRights(c),
         NEW place \in {"store", "destroy"}, GoTo(c, place),
         calls[c].req.op # "signin", ~At(c, "own"), Entitled(c),
         place = "destroy" => calls[c].req.op = "delete"
  PROVE  CallRights(c)'
<1>1. place \in Place \ {"idle"} /\ place \notin SignInPlaces
  BY DEF Place, SignInPlaces
<1>2. Goes(c) /\ calls'[c].at = place
  BY <1>1, MovedGoes
<1>3. Entitled(c)'
  BY <1>2, EntitledKept
<1>4. Established(c)'
  BY <1>2 DEF Established
<1> QED BY <1>1, <1>3, <1>4, MovedRights

\* Going on to a handler from the checks of the path.
LEMMA TargetRights ==
  ASSUME TypeOK, Remember, NEW c \in Calls, CheckTarget(c), CallRights(c), calls'[c] # Idle
  PROVE  CallRights(c)'
<1> DEFINE s == calls[c].session
           r == calls[c].req
           doms == calls[c].doms
           next == Handler(s, r, doms)
<1>1. calls[c] # Idle /\ calls[c].at \in {"target_role", "target_domains"}
  BY DEF CheckTarget, CanManageAccount, At
<1>2. r.op # "signin" /\ World \in seen[c] /\ (~s.admin => Established(c))
  BY <1>1 DEF CallRights, SignInPlaces
<1>3. CASE At(c, "target_role")
            /\ GoTo(c, IF role[r.name] = "admin" THEN "idle" ELSE "target_domains")
  <2>1. role[r.name] # "admin" /\ GoTo(c, "target_domains")
    BY <1>1, <1>3, GoToKeeps DEF Place
  <2>2. Goes(c) /\ calls'[c].at = "target_domains"
    BY <1>1, <2>1, MovedGoes DEF Place
  <2>3. WasNoAdmin(c, r.name)
    BY <1>2, <2>1 DEF WasNoAdmin, World
  <2>4. ~s.admin => Established(c)'
    BY <1>2, <1>3, <2>2, <2>3, FactsKept DEF Established, At
  <2>5. "target_domains" \in Place \ {"idle"} /\ "target_domains" \notin SignInPlaces
    BY DEF Place, SignInPlaces
  <2> QED BY <1>1, <1>2, <2>1, <2>4, <2>5, MovedRights
<1>4. CASE At(c, "target_domains")
            /\ GoTo(c, IF rows[r.name] \subseteq doms THEN next ELSE "idle")
  <2>1. next \in {"idle", "store", "address", "own", "exists"}
    BY Places
  <2>2. rows[r.name] \subseteq doms /\ GoTo(c, next) /\ next # "idle"
    BY <1>1, <1>4, <2>1, GoToKeeps DEF Place
  <2>3. next \in Place \ {"idle"} /\ next \notin SignInPlaces
    BY <2>1, <2>2 DEF Place, SignInPlaces
  <2>4. Goes(c) /\ calls'[c].at = next
    BY <1>1, <2>2, <2>3, MovedGoes
  <2>5. ~s.admin => TargetFits(c)
    <3> SUFFICES ASSUME ~s.admin PROVE TargetFits(c)
      OBVIOUS
    <3>1. Known(c) /\ RouteFits(c) /\ WasNoAdmin(c, r.name)
      BY <1>2, <1>4 DEF Established, At
    <3>2. WasManageable(c, doms, r.name)
      BY <1>2, <2>2, <3>1 DEF WasManageable, WasNoAdmin, RouteFits, World
    <3> QED BY <3>1, <3>2 DEF TargetFits
  <2>6. CASE s.admin
    <3>1. Entitled(c)
      BY <2>6 DEF Entitled
    <3>2. Entitled(c)'
      BY <1>4, <2>4, <3>1, EntitledKept DEF At
    <3> QED BY <1>1, <1>2, <2>1, <2>2, <2>3, <2>6, <3>2, MovedRights
  <2>7. CASE ~s.admin
    <3>1. r.op \in DomainAdmin /\ r.op # "create" /\ r.op # "list"
      BY <2>5, <2>7 DEF TargetFits, RouteFits, DomainAdmin, SelfService
    <3>2. CASE next = "store"
      <4>1. r.op = "patch" => ~r.quota
        BY <2>7, <3>2 DEF Handler
      <4>2. r.op \notin {"add_email", "add_group"}
        BY <3>2 DEF Handler
      <4>3. Entitled(c)
        BY <2>5, <2>7, <4>1, <4>2, TargetEntitled
      <4> QED BY <1>1, <1>2, <1>4, <2>2, <3>2, <4>3, ArrivedRights DEF At
    <3>3. CASE next = "own"
      <4>1. r.op = "password" /\ s.user = r.name
        BY <3>3 DEF Handler
      <4>2. At(c, "own")'
        BY <1>1, <2>2, <2>3, <2>4, <3>3, MovedGoes DEF At
      <4>3. Entitled(c)'
        BY <2>4, <4>1, <4>2 DEF Goes, Entitled, SelfService
      <4>4. Established(c)'
        BY <2>4, <3>3 DEF Established
      <4> QED BY <1>1, <1>2, <2>2, <2>3, <3>3, <4>3, <4>4, MovedRights
    <3>4. CASE next = "exists"
      <4>1. r.op \notin {"create", "patch", "password", "list"}
        BY <2>7, <3>4 DEF Handler
      <4>2. TargetFits(c)'
        BY <2>4, <2>5, <2>7, FactsKept
      <4>3. Established(c)'
        BY <2>4, <3>4, <4>1, <4>2 DEF Established, Goes
      <4> QED BY <1>1, <1>2, <2>2, <2>3, <3>4, <4>3, MovedRights
    <3>5. next # "address"
      BY <3>1 DEF Handler
    <3> QED BY <2>1, <2>2, <3>2, <3>3, <3>4, <3>5
  <2> QED BY <2>6, <2>7
<1> QED BY <1>3, <1>4 DEF CheckTarget, CanManageAccount

\* Going on from the lookup of the account.
LEMMA LookUpRights ==
  ASSUME TypeOK, Remember, NEW c \in Calls, LookUp(c), CallRights(c), calls'[c] # Idle
  PROVE  CallRights(c)'
<1> DEFINE s == calls[c].session
           r == calls[c].req
           doms == calls[c].doms
           next == AfterLookup(s, r, doms)
<1>1. calls[c] # Idle /\ calls[c].at = "exists"
  BY DEF LookUp, At
<1>2. r.op # "signin" /\ World \in seen[c] /\ (~s.admin => Established(c))
  BY <1>1 DEF CallRights, SignInPlaces
<1>3. next \in {"idle", "store", "address", "group_role", "email_type"}
  BY Places
<1>4. GoTo(c, next) /\ next # "idle"
  BY <1>1, <1>3, GoToKeeps DEF LookUp, Place
<1>5. next \in Place \ {"idle"} /\ next \notin SignInPlaces
  BY <1>3, <1>4 DEF Place, SignInPlaces
<1>6. Goes(c) /\ calls'[c].at = next
  BY <1>1, <1>4, <1>5, MovedGoes
<1>7. CASE s.admin
  <2>1. Entitled(c)
    BY <1>7 DEF Entitled
  <2>2. Entitled(c)'
    BY <1>1, <1>6, <2>1, EntitledKept DEF At
  <2> QED BY <1>1, <1>2, <1>3, <1>4, <1>5, <1>7, <2>2, MovedRights
<1>8. CASE ~s.admin
  <2>1. /\ r.op \notin {"create", "patch", "password", "list"}
        /\ TargetFits(c) \/ (r.op \in SelfService /\ r.name = s.user)
    BY <1>1, <1>2, <1>8 DEF Established
  <2>2. CASE next = "store"
    <3>1. r.op \notin {"add_email", "add_group", "del_email"}
      BY <1>8, <2>2 DEF AfterLookup
    <3>2. TargetFits(c) => Entitled(c)
      BY <2>1, <3>1, TargetEntitled
    <3>3. r.op \in SelfService /\ r.name = s.user => Entitled(c)
      BY <2>1 DEF Entitled
    <3>4. Entitled(c)
      BY <2>1, <3>2, <3>3
    <3> QED BY <1>1, <1>2, <1>4, <2>2, <3>4, ArrivedRights DEF At
  <2>3. CASE next \in {"address", "group_role", "email_type"}
    <3>1. r.op \in {"add_email", "add_group", "del_email"}
      BY <2>3 DEF AfterLookup
    <3>2. TargetFits(c)'
      BY <1>6, <2>1, <3>1, FactsKept DEF SelfService
    <3>3. /\ next = "address" => r.op = "add_email" /\ Manages(doms, r.arg)
          /\ next = "group_role" => r.op = "add_group" /\ Manages(doms, r.arg)
          /\ next = "email_type" => r.op = "del_email"
      BY <1>8, <2>3, <3>1 DEF AfterLookup
    <3>4. Established(c)'
      BY <1>6, <2>3, <3>2, <3>3 DEF Established, Goes, Manages
    <3> QED BY <1>1, <1>2, <1>4, <1>5, <2>3, <3>4, MovedRights
  <2> QED BY <1>3, <1>4, <2>2, <2>3
<1> QED BY <1>7, <1>8

LEMMA EmailTypeRights ==
  ASSUME TypeOK, Remember, NEW c \in Calls, ReadEmailType(c), CallRights(c), calls'[c] # Idle
  PROVE  CallRights(c)'
<1>1. calls[c] # Idle /\ calls[c].at = "email_type"
  BY DEF ReadEmailType, At
<1>2. GoTo(c, "store")
  BY <1>1, GoToKeeps DEF ReadEmailType, Place
<1>3. calls[c].req.op # "signin" /\ (~calls[c].session.admin => Established(c))
  BY <1>1 DEF CallRights, SignInPlaces
<1>4. CASE calls[c].session.admin
  BY <1>1, <1>2, <1>3, <1>4, ArrivedRights DEF Entitled, At
<1>5. CASE ~calls[c].session.admin
  <2>1. calls[c].req.op = "del_email" /\ TargetFits(c)
    BY <1>1, <1>3, <1>5 DEF Established
  <2>2. Entitled(c)
    BY <2>1, TargetEntitled
  <2> QED BY <1>1, <1>2, <1>3, <2>2, ArrivedRights DEF At
<1> QED BY <1>4, <1>5

LEMMA AddressRights ==
  ASSUME TypeOK, Remember, NEW c \in Calls, CheckAddress(c), CallRights(c), calls'[c] # Idle
  PROVE  CallRights(c)'
<1> DEFINE s == calls[c].session
           r == calls[c].req
<1>1. calls[c] # Idle /\ calls[c].at = "address"
  BY DEF CheckAddress, At
<1>2. GoTo(c, "store") /\ ~InUse(IF r.op = "create" THEN r.name ELSE r.arg)
  BY <1>1, GoToKeeps DEF CheckAddress, Place
<1>3. r.op # "signin" /\ World \in seen[c] /\ (~s.admin => Established(c))
  BY <1>1 DEF CallRights, SignInPlaces
<1>4. CASE s.admin
  BY <1>1, <1>2, <1>3, <1>4, ArrivedRights DEF Entitled, At
<1>5. CASE ~s.admin /\ r.op = "create"
  <2>1. ~r.quota /\ Known(c) /\ Manages(calls[c].doms, r.name)
    BY <1>1, <1>3, <1>5 DEF Established
  <2>2. WasFree(c, r.name)
    BY <1>2, <1>3, <1>5 DEF WasFree, InUse, World
  <2>3. Entitled(c)
    BY <1>5, <2>1, <2>2 DEF Entitled, Known
  <2> QED BY <1>1, <1>2, <1>3, <2>3, ArrivedRights DEF At
<1>6. CASE ~s.admin /\ r.op # "create"
  <2>1. r.op = "add_email" /\ TargetFits(c) /\ Manages(calls[c].doms, r.arg)
    BY <1>1, <1>3, <1>6 DEF Established
  <2>2. WasFree(c, r.arg)
    BY <1>2, <1>3, <1>6 DEF WasFree, InUse, World
  <2>3. Entitled(c)
    BY <2>1, <2>2, TargetEntitled
  <2> QED BY <1>1, <1>2, <1>3, <2>3, ArrivedRights DEF At
<1> QED BY <1>4, <1>5, <1>6

LEMMA GroupRights ==
  ASSUME TypeOK, Remember, NEW c \in Calls, CheckGroup(c), CallRights(c), calls'[c] # Idle
  PROVE  CallRights(c)'
<1> DEFINE s == calls[c].session
           r == calls[c].req
           doms == calls[c].doms
<1>1. calls[c] # Idle /\ calls[c].at \in {"group_role", "group_domains"}
  BY DEF CheckGroup, CanManageAccount, At
<1>2. r.op # "signin" /\ World \in seen[c] /\ (~s.admin => Established(c))
  BY <1>1 DEF CallRights, SignInPlaces
<1>3. ~s.admin => r.op = "add_group" /\ TargetFits(c) /\ Manages(doms, r.arg)
  BY <1>1, <1>2 DEF Established
<1>4. CASE At(c, "group_role")
            /\ GoTo(c, IF role[r.arg] = "admin" THEN "idle" ELSE "group_domains")
  <2>1. role[r.arg] # "admin" /\ GoTo(c, "group_domains")
    BY <1>1, <1>4, GoToKeeps DEF Place
  <2>2. Goes(c) /\ calls'[c].at = "group_domains"
    BY <1>1, <2>1, MovedGoes DEF Place
  <2>3. WasNoAdmin(c, r.arg)
    BY <1>2, <2>1 DEF WasNoAdmin, World
  <2>4. ~s.admin => TargetFits(c)' /\ WasNoAdmin(c, r.arg)'
    BY <1>3, <2>2, <2>3, FactsKept
  <2>5. ~s.admin => Established(c)'
    BY <1>3, <2>2, <2>4 DEF Established, Goes, Manages
  <2>6. "group_domains" \in Place \ {"idle"} /\ "group_domains" \notin SignInPlaces
    BY DEF Place, SignInPlaces
  <2> QED BY <1>1, <1>2, <2>1, <2>5, <2>6, MovedRights
<1>5. CASE At(c, "group_domains")
            /\ GoTo(c, IF rows[r.arg] \subseteq doms THEN "store" ELSE "idle")
  <2>1. rows[r.arg] \subseteq doms /\ GoTo(c, "store")
    BY <1>1, <1>5, GoToKeeps DEF Place
  <2>2. CASE s.admin
    BY <1>1, <1>2, <1>5, <2>1, <2>2, ArrivedRights DEF Entitled, At
  <2>3. CASE ~s.admin
    <3>1. WasNoAdmin(c, r.arg)
      BY <1>2, <1>5, <2>3 DEF Established, At
    <3>2. WasManageable(c, doms, r.arg)
      BY <1>2, <1>3, <2>1, <2>3, <3>1 DEF WasManageable, WasNoAdmin, World
    <3>3. Entitled(c)
      BY <1>3, <2>3, <3>2, TargetEntitled
    <3> QED BY <1>1, <1>2, <1>5, <2>1, <3>3, ArrivedRights DEF At
  <2> QED BY <2>2, <2>3
<1> QED BY <1>4, <1>5 DEF CheckGroup, CanManageAccount

\* A request whose user's domains have just been found.
LEMMA ReadRights ==
  ASSUME TypeOK, Remember, NEW c \in Calls, ReadDomains(c), CallRights(c), calls'[c] # Idle
  PROVE  CallRights(c)'
<1> DEFINE s == calls[c].session
           r == calls[c].req
           doms == rows[s.user]
           next == Routed(s, r, doms)
<1>1. calls[c] # Idle /\ calls[c].at = "domains"
  BY DEF ReadDomains, At
<1>2. r.op # "signin" /\ World \in seen[c] /\ s \in Session
  BY <1>1, BusyCall DEF CallRights, SignInPlaces
<1>3. /\ next # "idle" /\ calls'[c].at = next /\ calls'[c].doms = doms
      /\ calls'[c].session = s /\ calls'[c].req = r
  BY <1>2, ReadMakes
<1>4. World \in seen'[c] /\ World' \in seen'[c] /\ World.rows[s.user] = doms
  BY <1>1, <1>2, SeenGrows DEF World
<1>5. Known(c)'
  BY <1>3, <1>4 DEF Known
<1>6. next \in {"store", "address", "own", "exists", "target_role"}
  BY <1>3, Places
<1>7. CASE s.admin
  <2>1. Entitled(c)'
    BY <1>3, <1>7 DEF Entitled
  <2> QED BY <1>2, <1>3, <1>4, <1>6, <1>7, <2>1 DEF CallRights, SignInPlaces
<1>8. CASE ~s.admin
  <2>1. CASE r.op \in Collection
    <3>1. doms # {} /\ next = Handler(s, r, doms)
      BY <1>3, <2>1 DEF Routed, Collection, SelfService, DomainAdmin
    <3>2. CASE r.op = "list"
      <4>1. next = "store"
        BY <3>1, <3>2 DEF Handler
      <4>2. Entitled(c)'
        BY <1>3, <1>4, <3>1, <3>2 DEF Entitled
      <4>3. Established(c)'
        BY <1>3, <4>1 DEF Established
      <4> QED BY <1>2, <1>3, <1>4, <4>1, <4>2, <4>3 DEF CallRights, SignInPlaces
    <3>3. CASE r.op = "create"
      <4>1. next = "address" /\ ~r.quota /\ Manages(doms, r.name)
        BY <1>3, <1>8, <3>1, <3>3 DEF Handler
      <4>2. Established(c)'
        BY <1>3, <1>5, <3>3, <4>1 DEF Established, Manages
      <4> QED BY <1>2, <1>3, <1>4, <4>1, <4>2 DEF CallRights, SignInPlaces
    <3> QED BY <2>1, <3>2, <3>3 DEF Collection
  <2>2. CASE r.op \notin Collection /\ r.op \in SelfService /\ r.name = s.user
    <3>1. next = Handler(s, r, doms)
      BY <2>2 DEF Routed
    <3>2. CASE next = "exists"
      <4>1. r.op \notin {"create", "patch", "password", "list"}
        BY <1>8, <2>2, <3>1, <3>2 DEF Handler, Collection
      <4>2. Established(c)'
        BY <1>3, <2>2, <3>2, <4>1 DEF Established
      <4> QED BY <1>2, <1>3, <1>4, <3>2, <4>2 DEF CallRights, SignInPlaces
    <3>3. CASE next \in {"store", "own"}
      <4>1. r.op = "patch" => ~r.quota
        BY <1>8, <3>1, <3>3 DEF Handler
      <4>2. r.op = "password" => next = "own"
        BY <1>8, <2>2, <3>1 DEF Handler
      <4>3. calls'[c] # Idle /\ (r.op = "password" => At(c, "own")')
        BY <1>3, <4>2 DEF At
      <4>4. Entitled(c)'
        BY <1>3, <2>2, <4>1, <4>3 DEF Entitled, Collection
      <4>5. Established(c)'
        BY <1>3, <3>3 DEF Established
      <4> QED BY <1>2, <1>3, <1>4, <3>3, <4>4, <4>5 DEF CallRights, SignInPlaces
    <3>4. next # "address" /\ next # "target_role"
      BY <2>2, <3>1 DEF Handler, Collection
    <3> QED BY <1>6, <3>2, <3>3, <3>4
  <2>3. CASE r.op \notin Collection /\ ~(r.op \in SelfService /\ r.name = s.user)
    <3>1. /\ next = "target_role" /\ r.op \in DomainAdmin
          /\ r.op \in {"del_email", "del_group"} => Manages(doms, r.arg)
          /\ Manages(doms, r.name)
      BY <1>3, <2>3 DEF Routed
    <3>2. RouteFits(c)'
      BY <1>3, <3>1 DEF RouteFits, Manages
    <3>3. Established(c)'
      BY <1>3, <1>5, <3>1, <3>2 DEF Established
    <3> QED BY <1>2, <1>3, <1>4, <3>1, <3>3 DEF CallRights, SignInPlaces
  <2> QED BY <2>1, <2>2, <2>3
<1> QED BY <1>7, <1>8

\* A request that has just come in.
LEMMA AskRights ==
  ASSUME TypeOK, Remember, NEW c \in Calls, NEW s \in sessions, NEW r \in Request,
         Ask(c, s, r), calls'[c] # Idle
  PROVE  CallRights(c)'
<1> DEFINE place == IF s.admin THEN Handler(s, r, {}) ELSE "domains"
<1>1. s \in Session /\ r \in Requests
  BY ApiAssumption DEF TypeOK
<1>2. place \in {"domains", "store", "address", "own", "exists", "idle"}
  BY Places
<1>3. place # "idle" /\ calls'[c] = [at |-> place, session |-> s, req |-> r,
                                     doms |-> {}, begun |-> clock]
  BY <1>1, <1>2, BeginMakes DEF Ask, Place
<1>4. World' \in seen'[c]
  BY SeenGrows
<1>5. r.op # "signin"
  BY <1>1 DEF Requests, DomainAdmin, SelfService, Collection, FullAdmin
<1>6. CASE s.admin
  <2>1. Entitled(c)'
    BY <1>3, <1>6 DEF Entitled
  <2> QED BY <1>2, <1>3, <1>4, <1>5, <1>6, <2>1 DEF CallRights, SignInPlaces
<1>7. CASE ~s.admin
  <2>1. Established(c)'
    BY <1>3, <1>7 DEF Established
  <2> QED BY <1>3, <1>4, <1>5, <1>7, <2>1 DEF CallRights, SignInPlaces
<1> QED BY <1>6, <1>7

LEMMA SignInRights ==
  ASSUME TypeOK, Remember, NEW c \in Calls, NEW n \in SignIns, SignIn(c, n)
  PROVE  CallRights(c)'
<1> DEFINE s == [user |-> n, admin |-> FALSE, expires |-> 0]
           r == [op |-> "signin", name |-> n]
<1>1. s \in Session /\ r \in Requests \cup SignInOp
  BY ApiAssumption DEF Session, SignInOp
<1>2. calls'[c] # Idle /\ calls'[c] = [at |-> "signin_account", session |-> s, req |-> r,
                                       doms |-> {}, begun |-> clock]
  BY <1>1, BeginMakes DEF SignIn, Place
<1>3. World' \in seen'[c]
  BY <1>2, SeenGrows
<1> QED BY <1>2, <1>3 DEF CallRights, SignInPlaces

\* The step of request c, whatever it is, leaves what is asked of c.
LEMMA StepRights ==
  ASSUME TypeOK, Remember, NEW c \in Calls, CallStep(c), calls'[c] # Idle,
         calls[c] # Idle => CallRights(c)
  PROVE  CallRights(c)'
<1>1. ASSUME NEW n \in SignIns, SignIn(c, n) PROVE CallRights(c)'
  BY <1>1, SignInRights
<1>2. CASE SignInAccount(c)
  <2>1. calls[c] # Idle /\ calls[c].at = "signin_account" /\ GoTo(c, "signin_role")
    BY <1>2, GoToKeeps DEF SignInAccount, At, Place
  <2>2. calls[c].req.op = "signin"
    BY <2>1 DEF CallRights, SignInPlaces
  <2>3. "signin_role" \in Place \ {"idle"} /\ "signin_role" \in SignInPlaces
    BY DEF Place, SignInPlaces
  <2> QED BY <2>1, <2>2, <2>3, MovedRights
<1>3. ASSUME NEW s \in sessions, NEW r \in Request, Ask(c, s, r) PROVE CallRights(c)'
  BY <1>3, AskRights
<1>4. CASE ReadDomains(c)
  BY <1>4, ReadRights DEF ReadDomains, At
<1>5. CASE CheckTarget(c)
  BY <1>5, TargetRights DEF CheckTarget, CanManageAccount, At
<1>6. CASE LookUp(c)
  BY <1>6, LookUpRights DEF LookUp, At
<1>7. CASE ReadEmailType(c)
  BY <1>7, EmailTypeRights DEF ReadEmailType, At
<1>8. CASE CheckAddress(c)
  BY <1>8, AddressRights DEF CheckAddress, At
<1>9. CASE CheckGroup(c)
  BY <1>9, GroupRights DEF CheckGroup, CanManageAccount, At
<1>10. CASE Store(c)
  <2>1. calls[c] # Idle /\ calls[c].at = "store"
    BY <1>10 DEF Store, At
  <2>2. ~GoTo(c, "idle")
    BY <2>1, GoToKeeps DEF Place
  <2>3. GoTo(c, "destroy") /\ calls[c].req.op = "delete"
    BY <1>10, <2>2 DEF Store
  <2>4. calls[c].req.op # "signin" /\ Entitled(c) /\ CallRights(c)
    BY <2>1 DEF CallRights, SignInPlaces
  <2> QED BY <2>1, <2>3, <2>4, ArrivedRights DEF At
<1>11. CASE SignInRole(c) \/ Destroy(c) \/ ChangeOwn(c) \/ Fail(c)
  <2>1. calls[c] # Idle /\ GoTo(c, "idle")
    BY <1>11 DEF SignInRole, Destroy, ChangeOwn, Fail, At
  <2> QED BY <2>1, GoToKeeps DEF Place
<1> QED BY <1>1, <1>2, <1>3, <1>4, <1>5, <1>6, <1>7, <1>8, <1>9, <1>10, <1>11 DEF CallStep

\* A step of one request leaves the others.
LEMMA OthersStay ==
  ASSUME TypeOK, NEW c \in Calls, CallStep(c), NEW d \in Calls, d # c
  PROVE  calls'[d] = calls[d]
<1>1. calls \in [Calls -> Busy \cup {Idle}]
  BY DEF TypeOK
<1>2. ASSUME NEW place, GoTo(c, place) PROVE calls'[d] = calls[d]
  BY <1>1, <1>2 DEF GoTo
<1>3. ASSUME NEW n \in SignIns, SignIn(c, n) PROVE calls'[d] = calls[d]
  BY <1>1, <1>3 DEF SignIn, Begin
<1>4. ASSUME NEW s \in sessions, NEW r \in Request, Ask(c, s, r) PROVE calls'[d] = calls[d]
  BY <1>1, <1>4 DEF Ask, Begin
<1>5. CASE ReadDomains(c)
  BY <1>1, <1>5 DEF ReadDomains
<1>6. CASE Moves(c)
  BY <1>2, <1>6, MovesMove
<1>7. CASE SignInRole(c) \/ Destroy(c)
  BY <1>2, <1>7 DEF SignInRole, Destroy
<1>8. CASE Store(c)
  BY <1>2, <1>8 DEF Store
<1> QED BY <1>3, <1>4, <1>5, <1>6, <1>7, <1>8 DEF CallStep, Moves

LEMMA RightsInit == Init => RightsInv
BY DEF Init, RightsInv

LEMMA RightsStep == TypeOK /\ RightsInv /\ [Next]_vars => RightsInv'
<1> SUFFICES ASSUME TypeOK, RightsInv, [Next]_vars PROVE RightsInv'
  OBVIOUS
<1>1. CASE Next
  <2>1. Remember
    BY <1>1 DEF Next
  <2> SUFFICES ASSUME NEW d \in Calls, calls'[d] # Idle PROVE CallRights(d)'
    BY DEF RightsInv
  <2>2. CASE calls'[d] = calls[d]
    BY <2>1, <2>2, StayRights DEF RightsInv
  <2>3. ASSUME NEW c \in Calls, CallStep(c) PROVE CallRights(d)'
    <3>1. CASE c = d
      BY <2>1, <2>3, <3>1, StepRights DEF RightsInv
    <3>2. CASE c # d
      BY <2>2, <2>3, <3>2, OthersStay
    <3> QED BY <3>1, <3>2
  <2>4. CASE Tick \/ \E ch \in Change : ChangeElsewhere(ch)
    BY <2>2, <2>4 DEF Tick, ChangeElsewhere
  <2> QED BY <1>1, <2>3, <2>4 DEF Next
<1>2. CASE UNCHANGED vars
  <2> SUFFICES ASSUME NEW d \in Calls, calls'[d] # Idle PROVE CallRights(d)'
    BY DEF RightsInv
  <2>1. calls' = calls /\ seen' = seen /\ World' = World
    BY <1>2 DEF vars, directory, history, World
  <2>2. CallRights(d) /\ Goes(d)
    BY <2>1 DEF RightsInv, Goes
  <2>3. Established(d) => Established(d)'
    BY <2>1, <2>2, FactsKept DEF Established
  <2>4. Entitled(d) => Entitled(d)'
    BY <2>1, <2>2, EntitledKept DEF At
  <2> QED BY <2>1, <2>2, <2>3, <2>4 DEF CallRights
<1> QED BY <1>1, <1>2

\* A request that is about to do what it is for has every right it needs, each
\* looked up since the request came in, whatever is asked at the same time.
THEOREM ApiActsWithinRights == Spec => []ActsWithinRights
<1>1. RightsInv => ActsWithinRights
  BY DEF RightsInv, CallRights, ActsWithinRights
<1> QED BY <1>1, TypeInit, TypeStep, RightsInit, RightsStep, PTL DEF Spec

-----------------------------------------------------------------------------
(* Sessions.                                                               *)

\* Name n was seen with r, an account or the Admin role, at a time from which
\* limit is no further than by.
Seen(n, r, limit, by) == \E t \in 0..MaxTime : <<n, r, t>> \in held /\ limit <= t + by

SessionFits(s) ==
  /\ Seen(s.user, "user", s.expires, TTL + 1)
  /\ s.admin => Seen(s.user, "admin", s.expires, TTL)

CallFits(c) ==
  /\ calls[c].at \in SignInPlaces =>
       calls[c].begun <= clock /\ clock <= calls[c].begun + 1
  /\ calls[c].at = "signin_role" => Seen(calls[c].req.name, "user", calls[c].begun, 0)
  /\ calls[c].req.op # "signin" =>
       /\ Seen(calls[c].session.user, "user", calls[c].begun, TTL)
       /\ calls[c].session.admin => Seen(calls[c].session.user, "admin", calls[c].begun + 1, TTL)

SessionInv ==
  /\ Holds \subseteq held
  /\ \A s \in sessions : SessionFits(s)
  /\ \A c \in Calls : calls[c] # Idle => CallFits(c)

LEMMA SessionInit == Init => SessionInv
<1> SUFFICES ASSUME Init PROVE SessionInv
  OBVIOUS
<1>1. Holds \subseteq held /\ \A c \in Calls : calls[c] = Idle
  BY DEF Init
<1>2. ASSUME NEW s \in sessions PROVE SessionFits(s)
  <2>1. PICK n \in SignedIn :
          s = [user |-> n, admin |-> InitRole[n] = "admin", expires |-> TTL]
    BY DEF Init
  <2>2. n \in Name /\ role[n] \in Users /\ 0 \in 0..MaxTime
    BY ApiAssumption DEF Init
  <2>3. <<n, "user", 0>> \in held
    BY <2>2 DEF Init, Holds
  <2>4. InitRole[n] = "admin" => <<n, "admin", 0>> \in held
    BY <2>2 DEF Init, Holds
  <2>5. TTL <= 0 + (TTL + 1) /\ TTL <= 0 + TTL
    BY ApiAssumption
  <2>6. Seen(n, "user", TTL, TTL + 1)
    BY <2>2, <2>3, <2>5 DEF Seen
  <2>7. InitRole[n] = "admin" => Seen(n, "admin", TTL, TTL)
    BY <2>2, <2>4, <2>5 DEF Seen
  <2> QED BY <2>1, <2>6, <2>7 DEF SessionFits
<1> QED BY <1>1, <1>2 DEF SessionInv

\* What was seen stays seen.
LEMMA SeenStays ==
  ASSUME held \subseteq held'
  PROVE  \A n, r, limit, by : Seen(n, r, limit, by) => Seen(n, r, limit, by)'
BY DEF Seen

LEMMA RememberHolds ==
  ASSUME Remember
  PROVE  Holds' \subseteq held' /\ held \subseteq held'
BY DEF Remember

\* What is true now has been seen now.
LEMMA HoldsNow ==
  ASSUME TypeOK, SessionInv, NEW n \in Name
  PROVE  /\ clock \in 0..MaxTime
         /\ role[n] \in Users => <<n, "user", clock>> \in held
         /\ role[n] = "admin" => <<n, "admin", clock>> \in held
BY DEF TypeOK, SessionInv, Holds

LEMMA StayFits ==
  ASSUME held \subseteq held', NEW c \in Calls, CallFits(c),
         clock' = clock \/ calls[c].at \notin SignInPlaces,
         calls'[c].at \notin SignInPlaces \/ calls'[c].at = calls[c].at,
         calls'[c].session = calls[c].session, calls'[c].req = calls[c].req,
         calls'[c].begun = calls[c].begun
  PROVE  CallFits(c)'
BY SeenStays DEF CallFits, SignInPlaces

\* A session is signed by what Stalwart said no longer than a tick before.
LEMMA SignedFits ==
  ASSUME TypeOK, SessionInv, NEW c \in Calls, At(c, "signin_role")
  PROVE  SessionFits(Signed(c))
<1> DEFINE n == calls[c].req.name
<1>1. n \in Name /\ calls[c].begun \in Nat /\ clock \in 0..MaxTime /\ TTL \in Nat /\ MaxTime \in Nat
  BY BusyCall, ApiAssumption DEF At, Requests, SignInOp, TypeOK
<1>2. CallFits(c) /\ calls[c].at = "signin_role"
  BY DEF SessionInv, At
<1>3. PICK t \in 0..MaxTime : <<n, "user", t>> \in held /\ calls[c].begun <= t + 0
  BY <1>2 DEF CallFits, Seen
<1>4. clock <= calls[c].begun + 1
  BY <1>2 DEF CallFits, SignInPlaces
<1>5. clock + TTL <= t + (TTL + 1)
  BY <1>1, <1>3, <1>4
<1>6. Seen(n, "user", clock + TTL, TTL + 1)
  BY <1>3, <1>5 DEF Seen
<1>7. role[n] = "admin" => Seen(n, "admin", clock + TTL, TTL)
  <2>1. clock + TTL <= clock + TTL
    BY <1>1
  <2>2. role[n] = "admin" => <<n, "admin", clock>> \in held
    BY <1>1, HoldsNow
  <2> QED BY <1>1, <2>1, <2>2 DEF Seen
<1> QED BY <1>6, <1>7 DEF SessionFits, Signed

\* A request is taken only from a session that has not expired.
LEMMA AskFits ==
  ASSUME TypeOK, SessionInv, Remember, NEW c \in Calls, NEW s \in sessions, NEW r \in Request,
         Ask(c, s, r), calls'[c] # Idle
  PROVE  CallFits(c)'
<1> DEFINE place == IF s.admin THEN Handler(s, r, {}) ELSE "domains"
<1>1. s \in Session /\ r \in Requests /\ clock \in Nat /\ TTL \in Nat /\ MaxTime \in Nat
  BY ApiAssumption DEF TypeOK
<1>2. place \in {"domains", "store", "address", "own", "exists", "idle"}
  BY Places
<1>3. calls'[c] = [at |-> place, session |-> s, req |-> r, doms |-> {}, begun |-> clock]
  BY <1>1, <1>2, BeginMakes DEF Ask, Place
<1>4. clock < s.expires /\ s.expires \in Nat
  BY <1>1 DEF Ask, Good, Session
<1>5. SessionFits(s)
  BY DEF SessionInv
<1>6. Seen(s.user, "user", clock, TTL)
  BY <1>1, <1>4, <1>5 DEF SessionFits, Seen
<1>7. s.admin => Seen(s.user, "admin", clock + 1, TTL)
  BY <1>1, <1>4, <1>5 DEF SessionFits, Seen
<1>8. /\ Seen(s.user, "user", clock, TTL)'
      /\ s.admin => Seen(s.user, "admin", clock + 1, TTL)'
  <2>1. clock' = clock
    BY DEF Ask, Begin
  <2> QED BY <1>6, <1>7, <2>1, RememberHolds DEF Seen
<1>9. clock' = clock
  BY DEF Ask, Begin
<1> QED BY <1>2, <1>3, <1>8, <1>9 DEF CallFits, SignInPlaces, Seen

LEMMA SessionStep == TypeOK /\ RightsInv /\ SessionInv /\ [Next]_vars => SessionInv'
<1> SUFFICES ASSUME TypeOK, RightsInv, SessionInv, [Next]_vars PROVE SessionInv'
  OBVIOUS
<1>1. CASE Next
  <2>1. Remember /\ Holds' \subseteq held' /\ held \subseteq held'
    BY <1>1, RememberHolds DEF Next
  <2>2. ASSUME NEW c \in Calls, CallStep(c)
        PROVE  /\ \A s \in sessions' : SessionFits(s)'
               /\ \A d \in Calls : calls'[d] # Idle => CallFits(d)'
    <3>1. clock' = clock
      BY <2>2 DEF CallStep, SignIn, SignInAccount, SignInRole, Ask, Begin, ReadDomains,
         CheckTarget, CanManageAccount, LookUp, ReadEmailType, CheckAddress, CheckGroup,
         Store, Destroy, ChangeOwn, Fail
    <3>2. \A s \in sessions' : SessionFits(s)'
      <4>1. ASSUME NEW s \in sessions PROVE SessionFits(s)'
        BY <2>1, SeenStays DEF SessionInv, SessionFits
      <4>2. CASE sessions' = sessions
        BY <4>1, <4>2
      <4>3. CASE SignInRole(c)
        <5>1. sessions' = sessions \cup {Signed(c)} /\ At(c, "signin_role")
          BY <4>3 DEF SignInRole, Signed
        <5>2. SessionFits(Signed(c))
          BY <5>1, SignedFits
        <5>3. \A x : SessionFits(x) => SessionFits(x)'
          BY <2>1, SeenStays DEF SessionFits
        <5> QED BY <4>1, <5>1, <5>2, <5>3
      <4> QED BY <2>2, <4>2, <4>3 DEF CallStep, SignIn, SignInAccount, Ask, Begin, ReadDomains,
         CheckTarget, CanManageAccount, LookUp, ReadEmailType, CheckAddress, CheckGroup,
         Store, Destroy, ChangeOwn, Fail
    <3>3. ASSUME NEW d \in Calls, d # c, calls'[d] # Idle PROVE CallFits(d)'
      <4>1. calls'[d] = calls[d]
        BY <2>2, <3>3, OthersStay
      <4> QED BY <2>1, <3>1, <3>3, <4>1, StayFits DEF SessionInv
    <3>4. ASSUME calls'[c] # Idle PROVE CallFits(c)'
      <4>1. ASSUME NEW n \in SignIns, SignIn(c, n) PROVE CallFits(c)'
        <5> DEFINE s == [user |-> n, admin |-> FALSE, expires |-> 0]
                   r == [op |-> "signin", name |-> n]
        <5>1. s \in Session /\ r \in Requests \cup SignInOp
          BY ApiAssumption DEF Session, SignInOp
        <5>2. calls'[c] = [at |-> "signin_account", session |-> s, req |-> r,
                           doms |-> {}, begun |-> clock]
          BY <4>1, <5>1, BeginMakes DEF SignIn, Place
        <5>3. clock \in Nat
          BY ApiAssumption DEF TypeOK
        <5> QED BY <3>1, <5>2, <5>3 DEF CallFits
      <4>2. ASSUME NEW s \in sessions, NEW r \in Request, Ask(c, s, r) PROVE CallFits(c)'
        BY <2>1, <3>4, <4>2, AskFits
      <4>3. CASE SignInAccount(c)
        <5>1. /\ calls[c] # Idle /\ calls[c].at = "signin_account" /\ GoTo(c, "signin_role")
              /\ role[calls[c].req.name] \in Users
          BY <3>4, <4>3, GoToKeeps DEF SignInAccount, At, Place
        <5>2. /\ calls'[c].at = "signin_role" /\ calls'[c].req = calls[c].req
              /\ calls'[c].begun = calls[c].begun
          BY <5>1, GoToKeeps DEF Place
        <5>3. /\ calls[c].req.name \in Name /\ calls[c].begun \in Nat
              /\ calls[c].req.op = "signin" /\ CallFits(c)
          BY <5>1, BusyCall DEF Requests, SignInOp, SessionInv, RightsInv, CallRights, SignInPlaces
        <5>4. /\ calls[c].begun <= clock /\ clock <= calls[c].begun + 1
              /\ clock \in 0..MaxTime /\ MaxTime \in Nat
          BY <5>1, <5>3, ApiAssumption DEF CallFits, SignInPlaces, TypeOK
        <5>5. <<calls[c].req.name, "user", clock>> \in held'
          BY <2>1, <5>1, <5>3, HoldsNow
        <5>6. Seen(calls[c].req.name, "user", calls[c].begun, 0)'
          BY <3>1, <5>2, <5>4, <5>5 DEF Seen
        <5> QED BY <3>1, <5>2, <5>3, <5>4, <5>6 DEF CallFits
      <4>4. CASE ReadDomains(c)
        <5>1. calls[c] # Idle /\ calls[c].at = "domains"
          BY <4>4 DEF ReadDomains, At
        <5>2. /\ calls'[c].at \in {"store", "address", "own", "exists", "target_role"}
              /\ calls'[c].session = calls[c].session /\ calls'[c].req = calls[c].req
              /\ calls'[c].begun = calls[c].begun
          BY <3>4, <4>4, <5>1, BusyCall, ReadMakes, Places
        <5> QED BY <2>1, <3>1, <5>1, <5>2, StayFits DEF SessionInv, SignInPlaces
      <4>5. ASSUME NEW place \in Place, GoTo(c, place), calls[c] # Idle,
                   place \notin SignInPlaces
            PROVE  CallFits(c)'
        <5>1. /\ calls'[c].at = place
              /\ calls'[c].session = calls[c].session /\ calls'[c].req = calls[c].req
              /\ calls'[c].begun = calls[c].begun
          BY <3>4, <4>5, GoToKeeps
        <5> QED BY <2>1, <3>1, <4>5, <5>1, StayFits DEF SessionInv
      <4>6. CASE CheckTarget(c) \/ LookUp(c) \/ ReadEmailType(c) \/ CheckAddress(c)
                  \/ CheckGroup(c) \/ ChangeOwn(c) \/ Fail(c)
        <5>1. PICK place \in Place : GoTo(c, place)
          BY <4>6, MovesMove DEF Moves
        <5>2. calls[c] # Idle /\ CallRights(c)
          BY <4>6, MovesMove DEF Moves, RightsInv
        <5>3. calls'[c].at = place /\ calls'[c].req = calls[c].req
          BY <3>4, <5>1, <5>2, GoToKeeps
        <5>4. CallRights(c)'
          BY <2>1, <2>2, <3>4, <5>2, StepRights
        <5>5. CASE calls[c].at \notin SignInPlaces
          <6>1. place \notin SignInPlaces
            BY <5>2, <5>3, <5>4, <5>5 DEF CallRights
          <6> QED BY <4>5, <5>1, <5>2, <6>1
        <5>6. CASE calls[c].at \in SignInPlaces
          <6>1. CASE Fail(c)
            BY <3>4, <5>2, <6>1, GoToKeeps DEF Fail, Place
          <6>2. CASE ~Fail(c)
            BY <4>6, <5>6, <6>2 DEF CheckTarget, LookUp, ReadEmailType, CheckAddress,
               CheckGroup, ChangeOwn, CanManageAccount, At, SignInPlaces
          <6> QED BY <6>1, <6>2
        <5> QED BY <5>5, <5>6
      <4>7. CASE Store(c) \/ Destroy(c) \/ SignInRole(c)
        <5>1. calls[c] # Idle /\ (GoTo(c, "idle") \/ GoTo(c, "destroy"))
          BY <4>7 DEF Store, Destroy, SignInRole, At
        <5>2. "destroy" \in Place /\ "idle" \in Place /\ "destroy" \notin SignInPlaces
              /\ "idle" \notin SignInPlaces
          BY DEF Place, SignInPlaces
        <5> QED BY <4>5, <5>1, <5>2
      <4> QED BY <2>2, <4>1, <4>2, <4>3, <4>4, <4>6, <4>7 DEF CallStep
    <3> QED BY <3>2, <3>3, <3>4
  <2>3. ASSUME NEW ch \in Change, ChangeElsewhere(ch)
        PROVE  /\ \A s \in sessions' : SessionFits(s)'
               /\ \A d \in Calls : calls'[d] # Idle => CallFits(d)'
    <3>1. sessions' = sessions /\ calls' = calls /\ clock' = clock
      BY <2>3 DEF ChangeElsewhere
    <3>2. \A s \in sessions' : SessionFits(s)'
      BY <2>1, <3>1, SeenStays DEF SessionInv, SessionFits
    <3> QED BY <2>1, <3>1, <3>2, StayFits DEF SessionInv
  <2>4. CASE Tick
    <3>1. sessions' = sessions /\ calls' = calls /\ clock' = clock + 1 /\ clock \in Nat
      BY <2>4, ApiAssumption DEF Tick, TypeOK
    <3>2. \A s \in sessions' : SessionFits(s)'
      BY <2>1, <3>1, SeenStays DEF SessionInv, SessionFits
    <3>3. ASSUME NEW d \in Calls, calls'[d] # Idle PROVE CallFits(d)'
      <4>1. CASE calls[d].at \notin SignInPlaces
        BY <2>1, <3>1, <3>3, <4>1, StayFits DEF SessionInv
      <4>2. CASE calls[d].at \in SignInPlaces
        <5>1. calls[d].begun = clock
          BY <2>4, <3>1, <3>3, <4>2 DEF Tick, At, SignInPlaces
        <5>2. CallFits(d) /\ calls[d].req.op = "signin"
          BY <3>1, <3>3, <4>2 DEF SessionInv, RightsInv, CallRights
        <5> QED BY <2>1, <3>1, <5>1, <5>2, SeenStays DEF CallFits
      <4> QED BY <4>1, <4>2
    <3> QED BY <2>1, <3>2, <3>3 DEF SessionInv
  <2> QED BY <1>1, <2>1, <2>2, <2>3, <2>4 DEF Next, SessionInv
<1>2. CASE UNCHANGED vars
  <2>1. /\ held' = held /\ calls' = calls /\ clock' = clock
        /\ sessions' = sessions /\ Holds' = Holds
    BY <1>2 DEF vars, directory, history, Holds
  <2>2. \A s \in sessions' : SessionFits(s)'
    BY <2>1, SeenStays DEF SessionInv, SessionFits
  <2>3. \A d \in Calls : calls'[d] # Idle => CallFits(d)'
    BY <2>1, StayFits DEF SessionInv
  <2>4. Holds' \subseteq held'
    BY <2>1 DEF SessionInv
  <2> QED BY <2>2, <2>3, <2>4 DEF SessionInv
<1> QED BY <1>1, <1>2

\* A session gives rights for no longer than TTL after its user last had them:
\* whatever was taken away or deleted, and whoever has the address now.
THEOREM ApiSessionsExpire == Spec => []SessionsExpire
<1>1. TypeOK /\ SessionInv => SessionsExpire
  <2> SUFFICES ASSUME TypeOK, SessionInv, NEW c \in Calls, calls[c] # Idle,
                      calls[c].req.op # "signin"
               PROVE  LET s == calls[c].session IN
                      /\ \E t \in 0..MaxTime :
                           <<s.user, "user", t>> \in held /\ calls[c].begun <= t + TTL
                      /\ s.admin => \E t \in 0..MaxTime :
                           <<s.user, "admin", t>> \in held /\ calls[c].begun < t + TTL
    BY DEF SessionsExpire
  <2>1. CallFits(c)
    BY DEF SessionInv
  <2>2. calls[c].begun \in Nat /\ TTL \in Nat /\ MaxTime \in Nat
    BY BusyCall, ApiAssumption
  <2> QED BY <2>1, <2>2 DEF CallFits, Seen
<1> QED BY <1>1, TypeInit, TypeStep, RightsInit, RightsStep, SessionInit, SessionStep, PTL DEF Spec

=============================================================================
