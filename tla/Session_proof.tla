--------------------------- MODULE Session_proof ---------------------------
(***************************************************************************)
(* Proofs about Session: for any number of requests, users, sign-ins and   *)
(* any times, a session's password changes use its own user's tokens, the  *)
(* tokens live as long as the session, do not expire in use, and are not   *)
(* brought back.                                                           *)
(***************************************************************************)
EXTENDS Session, FiniteSetTheorems, TLAPS

-----------------------------------------------------------------------------
(* The invariant, one part per concern.                                    *)

SessionRecord == [user : Users, expires : Nat]

Typed == TypeOK /\ sessions \in Seq(SessionRecord)

\* What the provider knows of a sign-in: nobody has authenticated before a code
\* is issued, exactly one user afterwards.
Authenticated ==
  \A f \in Flow : IF codes[f] = "none" THEN who[f] = {} ELSE \E u \in Users : who[f] = {u}

\* What a call holds, by the place it has got to.
Placed(call) ==
  CASE call.at = "idle" -> call = IdleCall
    [] call.at = "exchange" -> call.flow \in Flow /\ call.sid = 0
    [] call.at \in {"userinfo", "account"} ->
         call.flow \in Flow /\ call.sid = 0 /\ call.held \in Tokens
         /\ call.held.flow = call.flow /\ codes[call.flow] = "used"
    [] call.at = "authorize" -> call.ctx # 0 /\ call.sid = 0
    [] call.at = "refresh" -> ~ call.refreshed
    [] OTHER -> TRUE

\* A session uses up the code of a sign-in of its own: the codes that have been
\* exchanged are enough for the sessions there are and the sign-ins under way.
SigningIn == {c \in Calls : calls[c].at \in {"userinfo", "account"}}
UsedCodes == {f \in Flow : codes[f] = "used"}
Counted ==
  /\ IsFiniteSet(SigningIn)
  /\ Cardinality(SigningIn) + Len(sessions) <= Cardinality(UsedCodes)

\* t are tokens of a sign-in of the user of session s.
TokensOf(t, s) ==
  /\ s \in 1..Len(sessions) /\ t \in Tokens
  /\ codes[t.flow] = "used" /\ who[t.flow] = {sessions[s].user}

Owned ==
  /\ \A s \in Sid : store[s] # NoEntry => TokensOf(store[s].tokens, s)
  /\ \A c \in Calls : calls[c].sid # 0 => TokensOf(calls[c].held, calls[c].sid)

\* The tokens of a session are all of the grant it was signed in with.
SameGrant ==
  \A c \in Calls : calls[c].sid # 0 =>
    /\ store[calls[c].sid] # NoEntry =>
         store[calls[c].sid].tokens.flow = calls[c].held.flow
    /\ \A d \in Calls : calls[d].sid = calls[c].sid => calls[d].held.flow = calls[c].held.flow

\* Where a call has no deadline yet.
Untimed == {"idle", "authorize"}

\* A request does not outlive its deadline, and the tokens it is going to send do.
Timed ==
  \A c \in Calls :
    /\ calls[c].at \notin Untimed => now <= calls[c].due /\ calls[c].due <= now + CallTime
    /\ calls[c].at \in {"put", "change"} => calls[c].due < calls[c].held.expires

\* The entry of a session was stored no earlier than a lifetime before the
\* session expires.
Kept ==
  \A s \in 1..Len(sessions) :
    /\ sessions[s].expires <= now + TokenTTL
    /\ (Valid(s) /\ s \notin ended) =>
         store[s] # NoEntry /\ sessions[s].expires <= store[s].stored + TokenTTL

Forgotten ==
  /\ ended \subseteq 1..Len(sessions)
  /\ \A s \in ended \ busy : store[s] = NoEntry /\ \A c \in Calls : calls[c].sid # s

\* Password changes of one session know of each other, and one that has had its
\* session to itself holds the tokens that are stored.
Aligned ==
  /\ \A c, d \in Calls :
       (c # d /\ calls[c].sid = calls[d].sid /\ calls[c].sid # 0) => calls[c].overlapped
  /\ \A c \in Calls :
       (calls[c].at \in {"refresh", "change"} /\ ~ calls[c].overlapped
          /\ Alive(store[calls[c].sid])) =>
         store[calls[c].sid].tokens = calls[c].held

SessionInv ==
  /\ Typed /\ Authenticated /\ (\A c \in Calls : Placed(calls[c]))
  /\ Counted /\ Owned /\ SameGrant /\ Timed /\ Kept /\ Forgotten /\ Aligned

-----------------------------------------------------------------------------
(* What a step does.                                                       *)

\* Everything the invariant, but for types, is about.
core == <<now, codes, who, sessions, store, calls, ended, busy>>

\* Call c is over, and nothing else of the core changes.
Ends(c) ==
  /\ calls' = [calls EXCEPT ![c] = IdleCall]
  /\ UNCHANGED <<now, codes, who, sessions, store, ended, busy>>

\* Call c goes on, and nothing else of the core changes.
GoesOn(c) ==
  \/ \E f \in Flow : CallbackStart(c, f)
  \/ UserInfo(c) \/ PasswordStart(c) \/ Refresh(c) \/ Change(c)
  \/ ChangeUnauthorized(c) /\ MayRefresh(calls[c])

\* The actions that change the core, the others being alike.
StepOf(c) ==
  \/ Ends(c) \/ GoesOn(c)
  \/ Exchange(c) \/ LoseExchange(c) \/ SignIn(c) \/ LookUpTokens(c) \/ StoreTokens(c)

LEMMA StepKinds ==
  ASSUME [Next]_vars
  PROVE  \/ UNCHANGED core
         \/ \E f \in Flow, u \in Users : Authorize(f, u)
         \/ \E c \in Calls : StepOf(c)
         \/ Logout \/ Restart \/ Tick
<1>1. CASE UNCHANGED vars
  BY <1>1 DEF vars, core, provider, history
<1>2. CASE LoginStart
  BY <1>2 DEF LoginStart, core, provider, history
<1>3. CASE \E u \in Users : Revoke(u)
  BY <1>3 DEF Revoke, core, history
<1>4. ASSUME NEW c \in Calls, Callback(c)
      PROVE  StepOf(c)
  BY <1>4 DEF Callback, StepOf, Ends, GoesOn, CallbackRefused, NoMailbox, CallbackFails,
              CallbackOver, Answer, provider, history
<1>5. ASSUME NEW c \in Calls, ChangePassword(c)
      PROVE  StepOf(c)
  BY <1>5 DEF ChangePassword, StepOf, Ends, GoesOn, PasswordStartFails, RefreshRefused,
              RefreshFails, ChangeOk, ChangeRefused, LoseChange, ChangeUnauthorized,
              ChangeFails, Answer, provider, history
<1> QED BY <1>1, <1>2, <1>3, <1>4, <1>5 DEF Next

\* One call changes to r and the others stay.
LEMMA OneCall ==
  ASSUME calls \in [Calls -> Call], NEW c \in Calls, NEW r \in Call,
         calls' = [calls EXCEPT ![c] = r]
  PROVE  /\ calls' \in [Calls -> Call] /\ calls'[c] = r
         /\ \A d \in Calls : d # c => calls'[d] = calls[d]
  OBVIOUS

LEMMA IdleTyped == IdleCall \in Call
  BY DEF IdleCall, Call, Locations

-----------------------------------------------------------------------------
(* Types.                                                                  *)

StoreType == [Sid -> [tokens : Tokens \cup {NoTokens}, stored : Nat]]

LEMMA NoEntryTyped == NoEntry \in [tokens : Tokens \cup {NoTokens}, stored : Nat]
  BY DEF NoEntry

LEMMA PutTyped ==
  ASSUME Typed, NEW s, NEW t \in Tokens, Put(s, t)
  PROVE  store' \in StoreType
  BY NoEntryTyped DEF Typed, TypeOK, Put, StoreType

\* What the types say of the core.
LEMMA CoreTyped ==
  ASSUME Typed
  PROVE  /\ now \in Nat /\ sessions \in Seq(SessionRecord) /\ Len(sessions) \in Nat
         /\ 1..Len(sessions) \subseteq Sid
         /\ calls \in [Calls -> Call] /\ store \in StoreType
<1>1. Len(sessions) \in Nat
  BY DEF Typed
<1>2. MaxFlows \in Nat /\ Len(sessions) <= MaxFlows
  BY SessionAssumption DEF Typed, TypeOK
<1> QED BY <1>1, <1>2 DEF Typed, TypeOK, Sid, StoreType

\* The types of what is not in the core.
Rest ==
  /\ started \in 0..MaxFlows
  /\ grants \in [Flow -> Nat]
  /\ cookie \in [flow : Flow \cup {0}, expires : Nat]
  /\ jar \in 0..Len(sessions)

LEMMA TokenFields == \A t \in Tokens : t.flow \in Flow /\ t.expires \in Nat /\ t.refresh \in Nat
  BY DEF Tokens

LEMMA RestStep ==
  ASSUME SessionInv, [Next]_vars, Len(sessions') = Len(sessions)
  PROVE  Rest'
<1> USE SessionAssumption DEF Rest
<1>1. Rest /\ now \in Nat /\ MaxFlows \in Nat /\ StateTTL \in Nat /\ MaxRefresh \in Nat
  BY DEF SessionInv, Typed, TypeOK
<1>2. NoCookie \in [flow : Flow \cup {0}, expires : Nat]
  BY DEF NoCookie
<1>3. CASE UNCHANGED vars
  BY <1>1, <1>3 DEF vars, provider
<1>4. CASE LoginStart
  BY <1>1, <1>4 DEF LoginStart, provider, Flow
<1>5. CASE \E f \in Flow, u \in Users : Authorize(f, u)
  BY <1>1, <1>5 DEF Authorize
<1>6. ASSUME NEW c \in Calls, Callback(c)
      PROVE  Rest'
  <2>1. CASE \E f \in Flow : CallbackStart(c, f)
    BY <1>1, <2>1 DEF CallbackStart, provider
  <2>2. CASE Exchange(c)
    BY <1>1, <2>2 DEF Exchange
  <2>3. CASE LoseExchange(c)
    BY <1>1, <1>2, <2>3 DEF LoseExchange, CallbackOver
  <2>4. CASE UserInfo(c)
    BY <1>1, <2>4 DEF UserInfo, provider
  <2>5. CASE CallbackRefused(c) \/ NoMailbox(c) \/ CallbackFails(c)
    BY <1>1, <1>2, <2>5 DEF CallbackRefused, NoMailbox, CallbackFails, CallbackOver, provider
  <2>6. CASE SignIn(c)
    <3>1. Len(sessions') # Len(sessions)
      BY <2>6 DEF SignIn, SessionInv, Typed
    <3> QED BY <3>1
  <2> QED BY <1>6, <2>1, <2>2, <2>3, <2>4, <2>5, <2>6 DEF Callback
<1>7. ASSUME NEW c \in Calls, ChangePassword(c)
      PROVE  Rest'
  <2>1. CASE Refresh(c)
    <3>1. calls[c].held \in Tokens
      BY <2>1 DEF Refresh, At, SessionInv, Typed, TypeOK, Call
    <3>2. calls[c].held.refresh \in Nat /\ calls[c].held.refresh + 1 \in Nat
      BY <3>1, TokenFields
    <3>3. grants' \in [Flow -> Nat]
      BY <1>1, <2>1, <3>2 DEF Refresh
    <3> QED BY <1>1, <2>1, <3>3 DEF Refresh
  <2>2. CASE RefreshFails(c)
    <3>1. calls[c].held \in Tokens
      BY <2>2 DEF RefreshFails, At, SessionInv, Typed, TypeOK, Call
    <3>2. calls[c].held.refresh \in Nat /\ calls[c].held.refresh + 1 \in Nat
      BY <3>1, TokenFields
    <3>3. grants' \in [Flow -> Nat]
      BY <1>1, <2>2, <3>2 DEF RefreshFails
    <3> QED BY <1>1, <2>2, <3>3 DEF RefreshFails
  <2>3. CASE ~ Refresh(c) /\ ~ RefreshFails(c)
    BY <1>1, <1>7, <2>3 DEF ChangePassword, PasswordStart, PasswordStartFails, LookUpTokens,
         RefreshRefused, StoreTokens, Change, ChangeOk, ChangeRefused, LoseChange, ChangeUnauthorized, ChangeFails, provider
  <2> QED BY <2>1, <2>2, <2>3
<1>8. CASE Logout
  BY <1>1, <1>8 DEF Logout, provider
<1>9. CASE Restart
  BY <1>1, <1>9 DEF Restart, provider
<1>10. CASE \E u \in Users : Revoke(u)
  BY <1>1, <1>10 DEF Revoke
<1>11. CASE Tick
  BY <1>1, <1>2, <1>11 DEF Tick, provider
<1> QED BY <1>3, <1>4, <1>5, <1>6, <1>7, <1>8, <1>9, <1>10, <1>11 DEF Next

-----------------------------------------------------------------------------
(* The parts of the invariant that are about the core.                     *)

PasswordPlaces == {"refresh", "put", "change", "answer"}

CoreTypes ==
  /\ now \in 0..MaxTime
  /\ codes \in [Flow -> {"none", "issued", "used"}] /\ who \in [Flow -> SUBSET Users]
  /\ sessions \in Seq(SessionRecord) /\ Len(sessions) <= MaxFlows
  /\ store \in StoreType /\ calls \in [Calls -> Call]
  /\ \A c \in Calls : calls[c].at \in PasswordPlaces =>
       calls[c].sid \in 1..Len(sessions) /\ calls[c].held # NoTokens

CallsPlaced == \A c \in Calls : Placed(calls[c])

CoreInv ==
  /\ CoreTypes /\ Authenticated /\ CallsPlaced
  /\ Counted /\ Owned /\ SameGrant /\ Timed /\ Kept /\ Forgotten /\ Aligned

LEMMA InvIsCore == SessionInv <=> CoreInv /\ Rest
<1>1. Typed <=> CoreTypes /\ Rest
  <2>1. ASSUME sessions \in Seq(SessionRecord)
        PROVE  \A s \in 1..Len(sessions) : sessions[s] \in SessionRecord
    BY <2>1
  <2> QED BY <2>1 DEF Typed, TypeOK, CoreTypes, Rest, SessionRecord, StoreType, PasswordPlaces
<1> QED BY <1>1 DEF SessionInv, CoreInv, CallsPlaced

LEMMA CoreStutters ==
  ASSUME CoreInv, UNCHANGED core
  PROVE  CoreInv'
<1> USE DEF core
<1>1. CoreTypes' /\ Authenticated' /\ CallsPlaced'
  BY DEF CoreInv, CoreTypes, Authenticated, CallsPlaced, Placed
<1>2. Counted'
  BY DEF CoreInv, Counted, SigningIn, UsedCodes
<1>3. Owned' /\ SameGrant' /\ Timed' /\ Kept' /\ Forgotten' /\ Aligned'
  BY DEF CoreInv, Owned, SameGrant, TokensOf, Timed, Kept, Valid, Forgotten, Aligned, Alive
<1> QED BY <1>1, <1>2, <1>3 DEF CoreInv

LEMMA UsedCodesFinite ==
  /\ IsFiniteSet(UsedCodes) /\ Cardinality(UsedCodes) \in Nat
  /\ Cardinality(UsedCodes) <= MaxFlows
<1>1. MaxFlows \in Nat
  BY SessionAssumption
<1>2. IsFiniteSet(Flow) /\ Cardinality(Flow) = MaxFlows
  BY <1>1, FS_Interval DEF Flow
<1>3. UsedCodes \in SUBSET Flow
  BY DEF UsedCodes
<1>4. IsFiniteSet(UsedCodes) /\ Cardinality(UsedCodes) <= Cardinality(Flow)
  BY <1>2, <1>3, FS_Subset
<1> QED BY <1>2, <1>4, FS_CardinalityType

\* No sign-in gets under way, and no code is used: the count stays right.
LEMMA CountedKept ==
  ASSUME Counted, SigningIn' \subseteq SigningIn, UsedCodes' = UsedCodes,
         sessions \in Seq(SessionRecord), sessions' = sessions
  PROVE  Counted'
<1>1. IsFiniteSet(SigningIn') /\ Cardinality(SigningIn') <= Cardinality(SigningIn)
  BY FS_Subset DEF Counted
<1>2. Cardinality(SigningIn') \in Nat /\ Cardinality(SigningIn) \in Nat
  BY <1>1, FS_CardinalityType DEF Counted
<1>3. Len(sessions) \in Nat /\ Cardinality(UsedCodes) \in Nat
  BY UsedCodesFinite
<1> QED BY <1>1, <1>2, <1>3 DEF Counted

\* One call changes, in a way that starts nothing, and nothing else does.
LEMMA CallGoesOn ==
  ASSUME CoreInv, NEW c \in Calls, NEW r \in Call, calls' = [calls EXCEPT ![c] = r],
         UNCHANGED <<now, codes, who, sessions, store, ended, busy>>,
         Placed(r),
         r.at \in PasswordPlaces => r.sid # 0,
         r.at \in {"userinfo", "account"} => calls[c].at \in {"userinfo", "account"},
         r.sid # 0 => /\ r.sid = calls[c].sid /\ r.overlapped = calls[c].overlapped
                      /\ TokensOf(r.held, r.sid) /\ r.held.flow = calls[c].held.flow,
         r.at \notin Untimed => now <= r.due /\ r.due <= now + CallTime,
         r.at \in {"put", "change"} => r.due < r.held.expires,
         (r.at \in {"refresh", "change"} /\ ~ r.overlapped /\ Alive(store[r.sid])) =>
           store[r.sid].tokens = r.held
  PROVE  CoreInv'
<1>1. /\ calls' \in [Calls -> Call] /\ calls'[c] = r
      /\ \A d \in Calls : d # c => calls'[d] = calls[d]
  BY OneCall DEF CoreInv, CoreTypes
<1>2. CoreTypes'
  <2>1. ASSUME NEW d \in Calls, calls'[d].at \in PasswordPlaces
        PROVE  calls'[d].sid \in 1..Len(sessions) /\ calls'[d].held # NoTokens
    <3>1. CASE d = c
      <4>1. r.sid \in 1..Len(sessions) /\ r.held \in Tokens
        BY <1>1, <2>1, <3>1 DEF TokensOf
      <4>2. NoTokens \notin Tokens
        BY DEF NoTokens, Tokens, Flow
      <4> QED BY <1>1, <3>1, <4>1, <4>2
    <3>2. CASE d # c
      BY <1>1, <2>1, <3>2 DEF CoreInv, CoreTypes
    <3> QED BY <3>1, <3>2
  <2> QED BY <1>1, <2>1 DEF CoreInv, CoreTypes
<1>3. Authenticated'
  BY DEF CoreInv, Authenticated
<1>4. CallsPlaced'
  <2>1. ASSUME NEW d \in Calls PROVE Placed(calls'[d])
    BY <1>1, <2>1 DEF CoreInv, CallsPlaced
  <2> QED BY <2>1 DEF CallsPlaced, Placed
<1>5. Counted'
  <2>1. SigningIn' \subseteq SigningIn
    BY <1>1 DEF SigningIn
  <2>2. UsedCodes' = UsedCodes
    BY DEF UsedCodes
  <2> QED BY <2>1, <2>2, CountedKept DEF CoreInv, CoreTypes
<1>6. Owned'
  BY <1>1 DEF CoreInv, Owned, TokensOf
<1>7. Timed'
  BY <1>1 DEF CoreInv, Timed
<1>8. Kept'
  BY DEF CoreInv, Kept, Valid
<1>9. Forgotten'
  BY <1>1 DEF CoreInv, Forgotten
<1>10. Aligned'
  BY <1>1 DEF CoreInv, Aligned, Alive
<1>11. SameGrant'
  BY <1>1 DEF CoreInv, SameGrant
<1> QED BY <1>2, <1>3, <1>4, <1>5, <1>6, <1>7, <1>8, <1>9, <1>10, <1>11 DEF CoreInv

LEMMA EndsStep ==
  ASSUME CoreInv, NEW c \in Calls, Ends(c)
  PROVE  CoreInv'
<1>1. IdleCall.at = "idle" /\ IdleCall.sid = 0 /\ Placed(IdleCall)
  BY DEF IdleCall, Placed
<1>2. IdleCall \in Call
  BY IdleTyped
<1> QED BY <1>1, <1>2, CallGoesOn DEF Ends, PasswordPlaces, Untimed

\* What a call has when it is typed.
LEMMA CallTyped ==
  ASSUME CoreInv, NEW c \in Calls
  PROVE  /\ calls[c] \in Call /\ now \in Nat
         /\ calls[c].at \in PasswordPlaces =>
              TokensOf(calls[c].held, calls[c].sid) /\ calls[c].sid # 0
         /\ calls[c].at \notin Untimed => now <= calls[c].due /\ calls[c].due <= now + CallTime
         /\ Placed(calls[c])
<1>1. calls[c] \in Call /\ now \in Nat
  BY SessionAssumption DEF CoreInv, CoreTypes
<1>2. ASSUME calls[c].at \in PasswordPlaces
      PROVE  calls[c].sid # 0
  BY <1>2 DEF CoreInv, CoreTypes
<1> QED BY <1>1, <1>2 DEF CoreInv, Owned, Timed, CallsPlaced

LEMMA GoesOnStep ==
  ASSUME CoreInv, NEW c \in Calls, GoesOn(c)
  PROVE  CoreInv'
<1>1. CASE \E f \in Flow : CallbackStart(c, f)
  <2>1. PICK f \in Flow : CallbackStart(c, f)
    BY <1>1
  <2> DEFINE r == [IdleCall EXCEPT !.at = "exchange", !.flow = f, !.due = now + CallTime]
  <2>2. now \in Nat /\ now + CallTime \in Nat
    BY SessionAssumption, CallTyped
  <2>3. r \in Call
    BY <2>2, IdleTyped DEF Call, Locations
  <2>4. r.at = "exchange" /\ r.flow = f /\ r.sid = 0 /\ r.due = now + CallTime
    BY DEF IdleCall
  <2>5. calls' = [calls EXCEPT ![c] = r]
    BY <2>1 DEF CallbackStart
  <2> HIDE DEF r
  <2>6. Placed(r)
    BY <2>4 DEF Placed
  <2>7. UNCHANGED <<now, codes, who, sessions, store, ended, busy>>
    BY <2>1 DEF CallbackStart, provider, history
  <2>8. CallTime \in Nat /\ now <= r.due /\ r.due <= now + CallTime
    BY <2>2, <2>4, SessionAssumption
  <2> QED BY <2>3, <2>4, <2>5, <2>6, <2>7, <2>8, CallGoesOn DEF PasswordPlaces
<1>2. CASE UserInfo(c)
  <2> DEFINE r == [calls[c] EXCEPT !.at = "account"]
  <2>1. calls[c] \in Call /\ calls[c].at = "userinfo"
    BY <1>2, CallTyped DEF UserInfo, At
  <2>2. r \in Call
    BY <2>1 DEF Call, Locations
  <2>3. /\ r.at = "account" /\ r.flow = calls[c].flow /\ r.sid = calls[c].sid
        /\ r.held = calls[c].held /\ r.due = calls[c].due
    BY <2>1 DEF Call
  <2>4. calls' = [calls EXCEPT ![c] = r]
    BY <1>2 DEF UserInfo, GoTo
  <2> HIDE DEF r
  <2>5. Placed(r) /\ r.sid = 0
    BY <2>1, <2>3, CallTyped DEF Placed
  <2>6. UNCHANGED <<now, codes, who, sessions, store, ended, busy>>
    BY <1>2 DEF UserInfo, provider, history
  <2>7. now <= r.due /\ r.due <= now + CallTime
    BY <2>1, <2>3, CallTyped DEF Untimed
  <2> QED BY <2>1, <2>2, <2>3, <2>4, <2>5, <2>6, <2>7, CallGoesOn DEF PasswordPlaces
<1>3. CASE Refresh(c)
  <2> DEFINE t == calls[c].held
             fresh(n) == [flow |-> t.flow, expires |-> now + AccessTTL, refresh |-> n]
             r(new) == [calls[c] EXCEPT !.at = "put", !.refreshed = TRUE, !.held = new]
  <2>1. calls[c] \in Call /\ calls[c].at = "refresh" /\ now \in Nat
    BY <1>3, CallTyped DEF Refresh, At
  <2>2. TokensOf(t, calls[c].sid)
    BY <2>1, CallTyped DEF PasswordPlaces
  <2>3. PICK n \in Nat : calls' = [calls EXCEPT ![c] = r(fresh(n))]
    <3>1. PICK rotated \in Rotation :
            calls' = [calls EXCEPT ![c].at = "put", ![c].refreshed = TRUE,
                        ![c].held = fresh(IF rotated THEN t.refresh + 1 ELSE t.refresh)]
      BY <1>3 DEF Refresh
    <3>2. (IF rotated THEN t.refresh + 1 ELSE t.refresh) \in Nat
      BY <2>2 DEF TokensOf, Tokens
    <3>3. ASSUME NEW new
          PROVE  [calls EXCEPT ![c].at = "put", ![c].refreshed = TRUE, ![c].held = new]
                   = [calls EXCEPT ![c] = r(new)]
      <4>1. calls \in [Calls -> Call]
        BY DEF CoreInv, CoreTypes
      <4> QED BY <4>1
    <3> HIDE DEF r, fresh
    <3> QED BY <3>1, <3>2, <3>3
  <2> DEFINE new == fresh(n)
             rn == r(new)
  <2>4. new \in Tokens /\ new.flow = t.flow /\ new.expires = now + AccessTTL
    BY <2>1, <2>2, SessionAssumption DEF TokensOf, Tokens
  <2> HIDE DEF new
  <2>5. rn \in Call
    BY <2>1, <2>4 DEF Call, Locations
  <2>6. /\ rn.at = "put" /\ rn.sid = calls[c].sid /\ rn.held = new
        /\ rn.overlapped = calls[c].overlapped /\ rn.due = calls[c].due
    BY <2>1 DEF Call
  <2>7. calls' = [calls EXCEPT ![c] = rn]
    BY <2>3 DEF new
  <2> HIDE DEF rn
  <2>8. Placed(rn) /\ TokensOf(rn.held, rn.sid) /\ rn.sid # 0 /\ rn.held.flow = t.flow
    BY <2>1, <2>2, <2>4, <2>6, CallTyped DEF TokensOf, Placed, PasswordPlaces
  <2>9. now <= rn.due /\ rn.due <= now + CallTime /\ rn.due \in Nat
    BY <2>1, <2>6, CallTyped DEF Call, Untimed
  <2>10. rn.due < rn.held.expires
    BY <2>1, <2>4, <2>6, <2>9, SessionAssumption
  <2>11. UNCHANGED <<now, codes, who, sessions, store, ended, busy>>
    BY <1>3 DEF Refresh, history
  <2> QED BY <2>5, <2>6, <2>7, <2>8, <2>9, <2>10, <2>11, CallGoesOn
<1>4. CASE ChangeUnauthorized(c) /\ MayRefresh(calls[c])
  <2> DEFINE r == [calls[c] EXCEPT !.at = "refresh"]
  <2>1. calls[c] \in Call /\ calls[c].at = "change" /\ ~ calls[c].refreshed
    BY <1>4, CallTyped DEF ChangeUnauthorized, At, MayRefresh
  <2>2. r \in Call
    BY <2>1 DEF Call, Locations
  <2>3. /\ r.at = "refresh" /\ r.sid = calls[c].sid /\ r.held = calls[c].held
        /\ r.due = calls[c].due /\ r.refreshed = calls[c].refreshed
        /\ r.overlapped = calls[c].overlapped
    BY <2>1 DEF Call
  <2>4. calls' = [calls EXCEPT ![c] = r]
    BY <1>4 DEF ChangeUnauthorized, GoTo
  <2> HIDE DEF r
  <2>5. Placed(r) /\ TokensOf(r.held, r.sid) /\ r.sid # 0
    BY <2>1, <2>3, CallTyped DEF Placed, PasswordPlaces
  <2>6. now <= r.due /\ r.due <= now + CallTime
    BY <2>1, <2>3, CallTyped DEF Untimed
  <2>7. (~ r.overlapped /\ Alive(store[r.sid])) => store[r.sid].tokens = r.held
    BY <2>1, <2>3 DEF CoreInv, Aligned
  <2>8. UNCHANGED <<now, codes, who, sessions, store, ended, busy>>
    BY <1>4 DEF ChangeUnauthorized, provider, history
  <2> QED BY <2>2, <2>3, <2>4, <2>5, <2>6, <2>7, <2>8, CallGoesOn
<1>5. CASE PasswordStart(c)
  <2> DEFINE r == [IdleCall EXCEPT !.at = "authorize", !.ctx = jar]
  <2>1. jar \in Sid /\ jar # 0
    <3>1. 1..Len(sessions) \subseteq Sid
      BY SessionAssumption DEF CoreInv, CoreTypes, Sid
    <3> QED BY <1>5, <3>1 DEF PasswordStart, Valid
  <2>2. r \in Call
    BY <2>1, IdleTyped DEF Call, Locations
  <2>3. r.at = "authorize" /\ r.ctx = jar /\ r.sid = 0
    BY DEF IdleCall
  <2>4. calls' = [calls EXCEPT ![c] = r]
    BY <1>5 DEF PasswordStart
  <2> HIDE DEF r
  <2>5. Placed(r)
    BY <2>1, <2>3 DEF Placed
  <2>6. UNCHANGED <<now, codes, who, sessions, store, ended, busy>>
    BY <1>5 DEF PasswordStart, provider, history
  <2> QED BY <2>2, <2>3, <2>4, <2>5, <2>6, CallGoesOn DEF PasswordPlaces, Untimed
<1>6. CASE Change(c)
  <2> DEFINE r == [calls[c] EXCEPT !.at = "answer", !.changed = TRUE]
  <2>1. calls[c] \in Call /\ calls[c].at = "change"
    BY <1>6, CallTyped DEF Change, At
  <2>2. r \in Call
    BY <2>1 DEF Call, Locations
  <2>3. /\ r.at = "answer" /\ r.sid = calls[c].sid /\ r.held = calls[c].held
        /\ r.due = calls[c].due /\ r.overlapped = calls[c].overlapped
    BY <2>1 DEF Call
  <2>4. calls' = [calls EXCEPT ![c] = r]
    <3>1. calls \in [Calls -> Call]
      BY DEF CoreInv, CoreTypes
    <3> QED BY <1>6, <3>1 DEF Change
  <2> HIDE DEF r
  <2>5. Placed(r) /\ TokensOf(r.held, r.sid) /\ r.sid # 0
    BY <2>1, <2>3, CallTyped DEF Placed, PasswordPlaces
  <2>6. now <= r.due /\ r.due <= now + CallTime
    BY <2>1, <2>3, CallTyped DEF Untimed
  <2>7. UNCHANGED <<now, codes, who, sessions, store, ended, busy>>
    BY <1>6 DEF Change, provider, history
  <2> QED BY <2>2, <2>3, <2>4, <2>5, <2>6, <2>7, CallGoesOn
<1> QED BY <1>1, <1>2, <1>3, <1>4, <1>5, <1>6 DEF GoesOn

\* The code of sign-in f is exchanged.
LEMMA CodeUsed ==
  ASSUME CoreInv, NEW f \in Flow, codes[f] = "issued", codes' = [codes EXCEPT ![f] = "used"]
  PROVE  /\ codes' \in [Flow -> {"none", "issued", "used"}]
         /\ \A g \in Flow : (codes[g] = "used" => codes'[g] = "used")
                            /\ (codes'[g] = "none" <=> codes[g] = "none")
         /\ IsFiniteSet(UsedCodes')
         /\ Cardinality(UsedCodes') = Cardinality(UsedCodes) + 1
<1>1. codes \in [Flow -> {"none", "issued", "used"}]
  BY DEF CoreInv, CoreTypes
<1>2. UsedCodes' = UsedCodes \cup {f} /\ f \notin UsedCodes
  BY <1>1 DEF UsedCodes
<1>3. IsFiniteSet(UsedCodes')
      /\ Cardinality(UsedCodes') = Cardinality(UsedCodes) + 1
  BY <1>2, UsedCodesFinite, FS_AddElement
<1> QED BY <1>1, <1>3

LEMMA ExchangeStep ==
  ASSUME CoreInv, NEW c \in Calls, Exchange(c)
  PROVE  CoreInv'
<1> DEFINE f == calls[c].flow
           fresh(n) == [flow |-> f, expires |-> now + AccessTTL, refresh |-> n]
           r(new) == [calls[c] EXCEPT !.at = "userinfo", !.held = new]
<1>1. /\ calls[c] \in Call /\ calls[c].at = "exchange" /\ now \in Nat
      /\ f \in Flow /\ calls[c].sid = 0 /\ codes[f] = "issued"
      /\ now <= calls[c].due /\ calls[c].due <= now + CallTime
  BY CallTyped DEF Exchange, At, Placed, Untimed
<1>2. PICK n \in {0, 1} : calls' = [calls EXCEPT ![c] = r(fresh(n))]
  <2>1. PICK n \in {0, 1} : calls' = [calls EXCEPT ![c].at = "userinfo", ![c].held = fresh(n)]
    BY DEF Exchange
  <2>2. ASSUME NEW new
        PROVE  [calls EXCEPT ![c].at = "userinfo", ![c].held = new] = [calls EXCEPT ![c] = r(new)]
    <3>1. calls \in [Calls -> Call]
      BY DEF CoreInv, CoreTypes
    <3> QED BY <3>1
  <2> HIDE DEF r, fresh
  <2> QED BY <2>1, <2>2
<1> DEFINE new == fresh(n)
           rn == r(new)
<1>3. new \in Tokens /\ new.flow = f
  BY <1>1, SessionAssumption DEF Tokens
<1> HIDE DEF new
<1>4. rn \in Call
  BY <1>1, <1>3 DEF Call, Locations
<1>5. /\ rn.at = "userinfo" /\ rn.sid = 0 /\ rn.held = new /\ rn.flow = f
      /\ rn.due = calls[c].due
  BY <1>1 DEF Call
<1>6. /\ calls' \in [Calls -> Call] /\ calls'[c] = rn
      /\ \A d \in Calls : d # c => calls'[d] = calls[d]
  <2>1. calls' = [calls EXCEPT ![c] = rn]
    BY <1>2 DEF new
  <2> HIDE DEF rn
  <2> QED BY <1>4, <2>1, OneCall DEF CoreInv, CoreTypes
<1> HIDE DEF rn
<1>7. /\ codes' = [codes EXCEPT ![f] = "used"]
      /\ UNCHANGED <<now, who, sessions, store, ended, busy>>
  BY DEF Exchange, history
<1>8. codes' \in [Flow -> {"none", "issued", "used"}] /\ codes'[f] = "used"
  BY <1>1, <1>7, CodeUsed DEF CoreInv, CoreTypes
<1>9. \A g \in Flow : (codes[g] = "used" => codes'[g] = "used")
                      /\ (codes'[g] = "none" <=> codes[g] = "none")
  BY <1>1, <1>7, CodeUsed
<1>10. CoreTypes'
  BY <1>5, <1>6, <1>7, <1>8 DEF CoreInv, CoreTypes, PasswordPlaces
<1>11. Authenticated'
  BY <1>7, <1>9 DEF CoreInv, Authenticated
<1>12. CallsPlaced'
  <2>1. Placed(calls[c])'
    BY <1>1, <1>3, <1>5, <1>6, <1>8 DEF Placed
  <2>2. ASSUME NEW d \in Calls, d # c
        PROVE  Placed(calls[d])'
    BY <1>6, <1>9, <2>2 DEF CoreInv, CallsPlaced, Placed
  <2> QED BY <2>1, <2>2 DEF CallsPlaced
<1>13. Counted'
  <2>1. SigningIn' = SigningIn \cup {c} /\ c \notin SigningIn
    BY <1>1, <1>5, <1>6 DEF SigningIn
  <2>2. IsFiniteSet(SigningIn') /\ Cardinality(SigningIn') = Cardinality(SigningIn) + 1
    BY <2>1, FS_AddElement DEF CoreInv, Counted
  <2>3. Cardinality(UsedCodes') = Cardinality(UsedCodes) + 1
    BY <1>1, <1>7, CodeUsed
  <2>4. Cardinality(SigningIn) \in Nat /\ Len(sessions) \in Nat
    BY FS_CardinalityType DEF CoreInv, Counted, CoreTypes
  <2> QED BY <1>7, <2>2, <2>3, <2>4, UsedCodesFinite DEF CoreInv, Counted
<1>14. Owned'
  BY <1>5, <1>6, <1>7, <1>9 DEF CoreInv, Owned, TokensOf, Tokens
<1>15. Timed'
  BY <1>1, <1>5, <1>6, <1>7 DEF CoreInv, Timed, Untimed
<1>16. Kept'
  BY <1>7 DEF CoreInv, Kept, Valid
<1>17. Forgotten'
  <2>1. \A s \in ended : s # 0
    BY DEF CoreInv, Forgotten
  <2> QED BY <1>5, <1>6, <1>7, <2>1 DEF CoreInv, Forgotten
<1>18. Aligned'
  BY <1>5, <1>6, <1>7 DEF CoreInv, Aligned, Alive
<1>19. SameGrant'
  BY <1>5, <1>6, <1>7 DEF CoreInv, SameGrant
<1> QED BY <1>10, <1>11, <1>12, <1>13, <1>14, <1>15, <1>16, <1>17, <1>18, <1>19 DEF CoreInv

LEMMA LoseExchangeStep ==
  ASSUME CoreInv, NEW c \in Calls, LoseExchange(c)
  PROVE  CoreInv'
<1> DEFINE f == calls[c].flow
<1>1. calls[c].at = "exchange" /\ f \in Flow /\ codes[f] = "issued"
  BY CallTyped DEF LoseExchange, At, Placed
<1>2. /\ calls' \in [Calls -> Call] /\ calls'[c] = IdleCall
      /\ \A d \in Calls : d # c => calls'[d] = calls[d]
  <2>1. calls' = [calls EXCEPT ![c] = IdleCall]
    BY DEF LoseExchange, CallbackOver, Answer
  <2> QED BY <2>1, IdleTyped, OneCall DEF CoreInv, CoreTypes
<1>3. /\ codes' = [codes EXCEPT ![f] = "used"]
      /\ UNCHANGED <<now, who, sessions, store, ended, busy>>
  BY DEF LoseExchange, CallbackOver, history
<1>4. codes' \in [Flow -> {"none", "issued", "used"}]
  BY <1>1, <1>3, CodeUsed
<1>5. \A g \in Flow : (codes[g] = "used" => codes'[g] = "used")
                      /\ (codes'[g] = "none" <=> codes[g] = "none")
  BY <1>1, <1>3, CodeUsed
<1>6. IdleCall.at = "idle" /\ IdleCall.sid = 0
  BY DEF IdleCall
<1>7. CoreTypes'
  BY <1>2, <1>3, <1>4, <1>6 DEF CoreInv, CoreTypes, PasswordPlaces
<1>8. Authenticated'
  BY <1>3, <1>5 DEF CoreInv, Authenticated
<1>9. CallsPlaced'
  BY <1>2, <1>5, <1>6 DEF CoreInv, CallsPlaced, Placed
<1>10. Counted'
  <2>1. SigningIn' = SigningIn
    BY <1>1, <1>2, <1>6 DEF SigningIn
  <2>2. Cardinality(UsedCodes') = Cardinality(UsedCodes) + 1
    BY <1>1, <1>3, CodeUsed
  <2>3. Cardinality(SigningIn) \in Nat /\ Len(sessions) \in Nat
    BY FS_CardinalityType DEF CoreInv, Counted, CoreTypes
  <2> QED BY <1>3, <2>1, <2>2, <2>3, UsedCodesFinite DEF CoreInv, Counted
<1>11. Owned'
  BY <1>2, <1>3, <1>5, <1>6 DEF CoreInv, Owned, TokensOf, Tokens
<1>12. Timed' /\ Kept'
  BY <1>2, <1>3, <1>6 DEF CoreInv, Timed, Untimed, Kept, Valid
<1>13. Forgotten' /\ Aligned'
  <2>1. \A s \in ended : s # 0
    BY DEF CoreInv, Forgotten
  <2> QED BY <1>2, <1>3, <1>6, <2>1 DEF CoreInv, Forgotten, Aligned, Alive
<1>14. SameGrant'
  BY <1>2, <1>3, <1>6 DEF CoreInv, SameGrant
<1> QED BY <1>7, <1>8, <1>9, <1>10, <1>11, <1>12, <1>13, <1>14 DEF CoreInv

-----------------------------------------------------------------------------
(* TokenStore.Put.                                                         *)

\* Put leaves an entry where an entry lives; what it stores is as good as new.
LEMMA PutFacts ==
  ASSUME CoreTypes, NEW s \in Sid, NEW t \in Tokens, Put(s, t)
  PROVE  /\ store' \in StoreType
         /\ store'[s].tokens = t /\ store'[s].stored = now /\ store'[s] # NoEntry
         /\ \A x \in Sid : x # s => (store'[x] = store[x] \/ store'[x] = NoEntry)
         /\ \A x \in Sid : (x # s /\ Alive(store[x])) => store'[x] = store[x]
<1>1. now \in Nat
  BY SessionAssumption DEF CoreTypes
<1>2. store' \in StoreType
  BY <1>1, NoEntryTyped DEF CoreTypes, Put, StoreType
<1>3. store'[s] = [tokens |-> t, stored |-> now]
  BY DEF Put
<1>4. t # NoTokens
  BY DEF Tokens, NoTokens, Flow
<1>5. \A x \in Sid : x # s => store'[x] = IF Alive(store[x]) THEN store[x] ELSE NoEntry
  BY DEF Put
<1> QED BY <1>2, <1>3, <1>4, <1>5 DEF NoEntry

\* An entry that is stored and is no longer alive is older than a lifetime.
LEMMA DeadIsOld ==
  ASSUME CoreTypes, NEW s \in Sid, store[s] # NoEntry, ~ Alive(store[s])
  PROVE  store[s].stored + TokenTTL < now
<1>1. store[s].stored \in Nat /\ now \in Nat /\ TokenTTL \in Nat
  BY SessionAssumption DEF CoreTypes, StoreType
<1> QED BY <1>1 DEF Alive

\* Put keeps the entries that sessions still need.
LEMMA PutKeeps ==
  ASSUME CoreInv, NEW s \in Sid, NEW t \in Tokens, Put(s, t),
         NEW x \in 1..Len(sessions), x # s, Valid(x), x \notin ended
  PROVE  store'[x] = store[x]
<1>1. x \in Sid /\ store[x] # NoEntry /\ sessions[x].expires <= store[x].stored + TokenTTL
  <2>1. MaxFlows \in Nat /\ Len(sessions) \in Nat /\ Len(sessions) <= MaxFlows
    BY SessionAssumption DEF CoreInv, CoreTypes
  <2> QED BY <2>1 DEF CoreInv, Kept, Sid
<1>2. sessions[x].expires \in Nat /\ now \in Nat /\ now < sessions[x].expires
  <2>1. sessions[x] \in SessionRecord /\ now \in Nat
    BY SessionAssumption DEF CoreInv, CoreTypes
  <2> QED BY <2>1 DEF SessionRecord, Valid
<1>3. store[x].stored \in Nat /\ TokenTTL \in Nat
  BY <1>1, SessionAssumption DEF CoreInv, CoreTypes, StoreType
<1>4. Alive(store[x])
  BY <1>1, <1>2, <1>3, DeadIsOld DEF CoreInv
<1> QED BY <1>1, <1>4, PutFacts DEF CoreInv

LEMMA SignInStep ==
  ASSUME CoreInv, NEW c \in Calls, SignIn(c)
  PROVE  CoreInv'
<1> DEFINE f == calls[c].flow
           s == Len(sessions) + 1
<1>1. /\ calls[c].at = "account" /\ f \in Flow /\ calls[c].sid = 0
      /\ calls[c].held \in Tokens /\ calls[c].held.flow = f /\ codes[f] = "used"
      /\ now \in Nat
  BY CallTyped DEF SignIn, At, Placed
<1>2. PICK u \in who[f] : sessions' = Append(sessions, [user |-> u, expires |-> now + TokenTTL])
  BY DEF SignIn
<1>3. u \in Users /\ who[f] = {u}
  BY <1>1, <1>2 DEF CoreInv, Authenticated
<1>4. /\ sessions \in Seq(SessionRecord) /\ Len(sessions) \in Nat
      /\ now + TokenTTL \in Nat /\ TokenTTL \in Nat
  BY <1>1, SessionAssumption DEF CoreInv, CoreTypes
<1>5. /\ sessions' \in Seq(SessionRecord) /\ Len(sessions') = s
      /\ sessions'[s] = [user |-> u, expires |-> now + TokenTTL]
      /\ \A x \in 1..Len(sessions) : sessions'[x] = sessions[x]
  <2>1. [user |-> u, expires |-> now + TokenTTL] \in SessionRecord
    BY <1>3, <1>4 DEF SessionRecord
  <2> QED BY <1>2, <1>4, <2>1
<1>6. SigningIn' = SigningIn \ {c} /\ c \in SigningIn /\ calls' \in [Calls -> Call]
      /\ calls'[c] = IdleCall /\ (\A d \in Calls : d # c => calls'[d] = calls[d])
  <2>1. calls' = [calls EXCEPT ![c] = IdleCall]
    BY DEF SignIn, Answer
  <2>2. calls' \in [Calls -> Call] /\ calls'[c] = IdleCall
        /\ \A d \in Calls : d # c => calls'[d] = calls[d]
    BY <2>1, IdleTyped, OneCall DEF CoreInv, CoreTypes
  <2>3. IdleCall.at = "idle"
    BY DEF IdleCall
  <2> QED BY <1>1, <2>2, <2>3 DEF SigningIn
<1>7. UNCHANGED <<now, codes, who, ended, busy>>
  BY DEF SignIn, provider, history
<1>8. Counted' /\ s \in Sid
  <2>1. IsFiniteSet(SigningIn') /\ Cardinality(SigningIn') = Cardinality(SigningIn) - 1
    BY <1>6, FS_RemoveElement DEF CoreInv, Counted
  <2>2. Cardinality(SigningIn) \in Nat /\ Cardinality(SigningIn') \in Nat
    BY <2>1, FS_CardinalityType DEF CoreInv, Counted
  <2>3. UsedCodes' = UsedCodes
    BY <1>7 DEF UsedCodes
  <2>4. Cardinality(SigningIn) + Len(sessions) <= Cardinality(UsedCodes)
    BY DEF CoreInv, Counted
  <2>5. Counted'
    BY <1>4, <1>5, <2>1, <2>2, <2>3, <2>4, UsedCodesFinite DEF Counted
  <2>6. s <= MaxFlows /\ MaxFlows \in Nat
    BY <1>4, <2>1, <2>2, <2>4, UsedCodesFinite, SessionAssumption
  <2> QED BY <1>4, <2>5, <2>6 DEF Sid
<1>9. Put(s, calls[c].held)
  BY <1>5 DEF SignIn
<1>10. IdleCall.at = "idle" /\ IdleCall.sid = 0
  BY DEF IdleCall
<1>11. /\ store' \in StoreType
       /\ store'[s].tokens = calls[c].held /\ store'[s].stored = now /\ store'[s] # NoEntry
       /\ \A x \in Sid : x # s => (store'[x] = store[x] \/ store'[x] = NoEntry)
       /\ \A x \in Sid : (x # s /\ Alive(store[x])) => store'[x] = store[x]
  BY <1>1, <1>8, <1>9, PutFacts DEF CoreInv
<1>12. \A d \in Calls : calls'[d].sid # 0 => d # c /\ calls[d].sid \in 1..Len(sessions)
  BY <1>6, <1>10 DEF CoreInv, Owned, TokensOf
<1> HIDE DEF s
<1>13. s \in Nat /\ s = Len(sessions) + 1
  BY <1>4 DEF s
<1>14. s <= MaxFlows
  BY <1>8, SessionAssumption DEF Sid
<1>15. CoreTypes'
  <2>1. ASSUME NEW d \in Calls, calls'[d].at \in PasswordPlaces
        PROVE  calls'[d].sid \in 1..Len(sessions') /\ calls'[d].held # NoTokens
    <3>1. d # c
      BY <1>6, <1>10, <2>1 DEF PasswordPlaces
    <3>2. calls[d].sid \in 1..Len(sessions) /\ calls[d].held # NoTokens
      BY <1>6, <2>1, <3>1 DEF CoreInv, CoreTypes
    <3> QED BY <1>4, <1>5, <1>6, <1>13, <3>1, <3>2
  <2> QED BY <1>5, <1>6, <1>7, <1>11, <1>14, <2>1 DEF CoreInv, CoreTypes
<1>16. Authenticated'
  BY <1>7 DEF CoreInv, Authenticated
<1>17. CallsPlaced'
  BY <1>6, <1>7, <1>10 DEF CoreInv, CallsPlaced, Placed
<1>18. Owned'
  <2>1. ASSUME NEW x \in Sid, store'[x] # NoEntry
        PROVE  TokensOf(store[x].tokens, x)'
    <3>1. CASE x = s
      BY <1>1, <1>3, <1>5, <1>7, <1>11, <1>13, <3>1 DEF TokensOf
    <3>2. CASE x # s
      <4>1. store'[x] = store[x] /\ TokensOf(store[x].tokens, x)
        BY <1>11, <2>1, <3>2 DEF CoreInv, Owned
      <4> QED BY <1>4, <1>5, <1>7, <1>13, <4>1 DEF TokensOf
    <3> QED BY <3>1, <3>2
  <2>2. ASSUME NEW d \in Calls, calls'[d].sid # 0
        PROVE  TokensOf(calls[d].held, calls[d].sid)'
    <3>1. calls'[d] = calls[d] /\ TokensOf(calls[d].held, calls[d].sid)
      BY <1>6, <1>12, <2>2 DEF CoreInv, Owned
    <3> QED BY <1>4, <1>5, <1>7, <1>13, <3>1 DEF TokensOf
  <2> QED BY <2>1, <2>2 DEF Owned
<1>19. Timed'
  BY <1>6, <1>7, <1>10 DEF CoreInv, Timed, Untimed
<1>20. Kept'
  <2>1. ASSUME NEW x \in 1..Len(sessions')
        PROVE  /\ sessions'[x].expires <= now + TokenTTL
               /\ (now < sessions'[x].expires /\ x \notin ended) =>
                    store'[x] # NoEntry
                    /\ sessions'[x].expires <= store'[x].stored + TokenTTL
    <3>1. CASE x = s
      BY <1>4, <1>5, <1>11, <3>1
    <3>2. CASE x # s
      <4>1. x \in 1..Len(sessions) /\ sessions'[x] = sessions[x]
        BY <1>4, <1>5, <1>13, <2>1, <3>2
      <4>2. ASSUME Valid(x), x \notin ended
            PROVE  store'[x] = store[x]
        BY <1>1, <1>8, <1>9, <3>2, <4>1, <4>2, PutKeeps
      <4> QED BY <4>1, <4>2 DEF CoreInv, Kept, Valid
    <3> QED BY <3>1, <3>2
  <2> QED BY <1>7, <2>1 DEF Kept, Valid
<1>21. Forgotten'
  <2>1. ended \subseteq 1..Len(sessions) /\ s \notin ended /\ ended \subseteq Sid
    <3>1. ended \subseteq 1..Len(sessions)
      BY DEF CoreInv, Forgotten
    <3> QED BY <1>4, <1>13, <1>14, <3>1, SessionAssumption DEF Sid
  <2>2. \A x \in ended \ busy : store'[x] = NoEntry
    BY <1>11, <2>1 DEF CoreInv, Forgotten
  <2>3. \A x \in ended \ busy : \A d \in Calls : calls'[d].sid # x
    <3>1. \A x \in ended : x # 0
      BY <2>1
    <3> QED BY <1>6, <1>10, <3>1 DEF CoreInv, Forgotten
  <2>4. ended \subseteq 1..Len(sessions')
    BY <1>4, <1>5, <1>13, <2>1
  <2> QED BY <1>7, <2>2, <2>3, <2>4 DEF Forgotten
<1>22. Aligned'
  <2>1. \A d, e \in Calls :
          (d # e /\ calls'[d].sid = calls'[e].sid /\ calls'[d].sid # 0) => calls'[d].overlapped
    BY <1>6, <1>10 DEF CoreInv, Aligned
  <2>2. ASSUME NEW d \in Calls, calls'[d].at \in {"refresh", "change"},
               ~ calls'[d].overlapped, Alive(store[calls[d].sid])'
        PROVE  store'[calls'[d].sid].tokens = calls'[d].held
    <3>1. d # c /\ calls'[d] = calls[d]
      BY <1>6, <1>10, <2>2
    <3>2. calls[d].sid \in 1..Len(sessions)
      BY <2>2, <3>1 DEF CoreInv, CoreTypes, PasswordPlaces
    <3>3. calls[d].sid \in Sid /\ calls[d].sid # s
      BY <1>4, <1>13, <1>14, <3>2, SessionAssumption DEF Sid
    <3>4. store'[calls[d].sid] = store[calls[d].sid]
      BY <1>11, <2>2, <3>1, <3>3 DEF Alive
    <3> QED BY <1>7, <2>2, <3>1, <3>4 DEF CoreInv, Aligned, Alive
  <2> QED BY <2>1, <2>2 DEF Aligned
<1>23. SameGrant'
  <2>1. ASSUME NEW d \in Calls, calls'[d].sid # 0
        PROVE  /\ calls'[d] = calls[d] /\ calls[d].sid \in Sid
               /\ store'[calls[d].sid] \in {store[calls[d].sid], NoEntry}
    <3>1. calls'[d] = calls[d] /\ calls[d].sid \in 1..Len(sessions)
      BY <1>6, <1>12, <2>1
    <3>2. calls[d].sid \in Sid /\ calls[d].sid # s
      BY <1>4, <1>13, <1>14, <3>1, SessionAssumption DEF Sid
    <3> QED BY <1>11, <3>1, <3>2
  <2> QED BY <2>1 DEF CoreInv, SameGrant
<1> QED BY <1>8, <1>15, <1>16, <1>17, <1>18, <1>19, <1>20, <1>21, <1>22, <1>23 DEF CoreInv

LEMMA StoreTokensStep ==
  ASSUME CoreInv, NEW c \in Calls, StoreTokens(c)
  PROVE  CoreInv'
<1> DEFINE s == calls[c].sid
           r == [calls[c] EXCEPT !.at = "change"]
<1>1. calls[c] \in Call /\ calls[c].at = "put" /\ now \in Nat
  BY CallTyped DEF StoreTokens, At
<1>2. /\ s \in Sid /\ s \in 1..Len(sessions) /\ TokensOf(calls[c].held, s)
      /\ calls[c].held \in Tokens
  <2>1. TokensOf(calls[c].held, s)
    BY <1>1, CallTyped DEF PasswordPlaces
  <2>2. MaxFlows \in Nat /\ Len(sessions) \in Nat /\ Len(sessions) <= MaxFlows
    BY SessionAssumption DEF CoreInv, CoreTypes
  <2> QED BY <2>1, <2>2 DEF TokensOf, Sid
<1>3. r \in Call
  BY <1>1 DEF Call, Locations
<1>4. /\ r.at = "change" /\ r.sid = s /\ r.held = calls[c].held /\ r.due = calls[c].due
      /\ r.overlapped = calls[c].overlapped
  BY <1>1 DEF Call
<1>5. /\ calls' \in [Calls -> Call] /\ calls'[c] = r
      /\ \A d \in Calls : d # c => calls'[d] = calls[d]
  <2>1. calls' = [calls EXCEPT ![c] = r]
    BY DEF StoreTokens, GoTo
  <2> HIDE DEF r
  <2> QED BY <1>3, <2>1, OneCall DEF CoreInv, CoreTypes
<1> HIDE DEF r, s
<1>6. UNCHANGED <<now, codes, who, sessions, ended, busy>>
  BY DEF StoreTokens, provider, history
<1>7. Put(s, calls[c].held)
  BY DEF StoreTokens, s
<1>8. /\ store' \in StoreType
      /\ store'[s].tokens = calls[c].held /\ store'[s].stored = now /\ store'[s] # NoEntry
      /\ \A x \in Sid : x # s => (store'[x] = store[x] \/ store'[x] = NoEntry)
      /\ \A x \in Sid : (x # s /\ Alive(store[x])) => store'[x] = store[x]
  BY <1>2, <1>7, PutFacts DEF CoreInv
<1>9. 1..Len(sessions) \subseteq Sid
  BY SessionAssumption DEF CoreInv, CoreTypes, Sid
<1>10. CoreTypes'
  <2>1. calls[c].held # NoTokens
    BY <1>2 DEF Tokens, NoTokens, Flow
  <2>2. \A d \in Calls : calls'[d].at \in PasswordPlaces =>
          calls'[d].sid \in 1..Len(sessions) /\ calls'[d].held # NoTokens
    BY <1>2, <1>4, <1>5, <2>1 DEF CoreInv, CoreTypes
  <2> QED BY <1>5, <1>6, <1>8, <2>2 DEF CoreInv, CoreTypes
<1>11. Authenticated' /\ CallsPlaced'
  BY <1>4, <1>5, <1>6 DEF CoreInv, Authenticated, CallsPlaced, Placed
<1>12. Counted'
  <2>1. SigningIn' \subseteq SigningIn /\ UsedCodes' = UsedCodes
    BY <1>4, <1>5, <1>6 DEF SigningIn, UsedCodes
  <2> QED BY <1>6, <2>1, CountedKept DEF CoreInv, CoreTypes
<1>13. Owned'
  <2>1. \A x \in Sid : store'[x] # NoEntry => TokensOf(store'[x].tokens, x)
    BY <1>2, <1>8 DEF CoreInv, Owned
  <2>2. \A d \in Calls : calls'[d].sid # 0 => TokensOf(calls'[d].held, calls'[d].sid)
    BY <1>2, <1>4, <1>5 DEF CoreInv, Owned
  <2> QED BY <1>6, <2>1, <2>2 DEF Owned, TokensOf
<1>14. Timed'
  BY <1>1, <1>4, <1>5, <1>6 DEF CoreInv, Timed, Untimed
<1>15. Kept'
  <2>1. ASSUME NEW x \in 1..Len(sessions), Valid(x), x \notin ended
        PROVE  store'[x] # NoEntry /\ sessions[x].expires <= store'[x].stored + TokenTTL
    <3>1. CASE x = s
      BY <1>8, <2>1, <3>1 DEF CoreInv, Kept
    <3>2. CASE x # s
      <4>1. store'[x] = store[x]
        BY <1>2, <1>7, <2>1, <3>2, PutKeeps
      <4> QED BY <2>1, <4>1 DEF CoreInv, Kept
    <3> QED BY <3>1, <3>2
  <2> QED BY <1>6, <2>1 DEF CoreInv, Kept, Valid
<1>16. Forgotten'
  <2>1. \A x \in ended \ busy : x # s
    BY DEF CoreInv, Forgotten, s
  <2>2. ended \subseteq Sid
    BY <1>9 DEF CoreInv, Forgotten
  <2>3. \A x \in ended \ busy : store'[x] = NoEntry
    BY <1>8, <2>1, <2>2 DEF CoreInv, Forgotten
  <2>4. \A x \in ended \ busy : \A d \in Calls : calls'[d].sid # x
    BY <1>4, <1>5, <2>1 DEF CoreInv, Forgotten
  <2> QED BY <1>6, <2>3, <2>4 DEF CoreInv, Forgotten
<1>17. Aligned'
  <2>1. \A d \in Calls : calls'[d].sid = calls[d].sid /\ calls'[d].overlapped = calls[d].overlapped
    BY <1>4, <1>5 DEF s
  <2>2. ASSUME NEW d \in Calls, calls'[d].at \in {"refresh", "change"},
               ~ calls'[d].overlapped, Alive(store[calls[d].sid])'
        PROVE  store'[calls'[d].sid].tokens = calls'[d].held
    <3>1. CASE d = c
      BY <1>4, <1>5, <1>8, <3>1
    <3>2. CASE d # c
      <4>1. calls'[d] = calls[d] /\ calls[d].sid \in 1..Len(sessions) /\ calls[d].sid # 0
        BY <1>5, <2>2, <3>2 DEF CoreInv, CoreTypes, PasswordPlaces
      <4>2. calls[d].sid # s /\ calls[d].sid \in Sid
        BY <1>9, <2>2, <3>2, <4>1 DEF CoreInv, Aligned, s
      <4>3. store'[calls[d].sid] = store[calls[d].sid]
        BY <1>8, <2>2, <4>1, <4>2 DEF Alive
      <4> QED BY <1>6, <2>2, <4>1, <4>3 DEF CoreInv, Aligned, Alive
    <3> QED BY <3>1, <3>2
  <2> QED BY <2>1, <2>2 DEF CoreInv, Aligned
<1>18. SameGrant'
  <2>1. \A d \in Calls : calls'[d].sid = calls[d].sid /\ calls'[d].held = calls[d].held
    BY <1>4, <1>5 DEF s
  <2>2. ASSUME NEW d \in Calls, calls[d].sid # 0, store'[calls[d].sid] # NoEntry
        PROVE  store'[calls[d].sid].tokens.flow = calls[d].held.flow
    <3>1. CASE calls[d].sid = s
      BY <1>8, <2>2, <3>1 DEF CoreInv, SameGrant, s
    <3>2. CASE calls[d].sid # s
      <4>1. calls[d].sid \in Sid
        BY <1>9, <2>2 DEF CoreInv, Owned, TokensOf
      <4> QED BY <1>8, <2>2, <3>2, <4>1 DEF CoreInv, SameGrant
    <3> QED BY <3>1, <3>2
  <2> QED BY <2>1, <2>2 DEF CoreInv, SameGrant
<1> QED BY <1>10, <1>11, <1>12, <1>13, <1>14, <1>15, <1>16, <1>17, <1>18 DEF CoreInv

-----------------------------------------------------------------------------
(* The other steps that change the core.                                   *)

LEMMA AuthorizeStep ==
  ASSUME CoreInv, NEW f \in Flow, NEW u \in Users, Authorize(f, u)
  PROVE  CoreInv'
<1>1. /\ codes[f] = "none" /\ codes' = [codes EXCEPT ![f] = "issued"]
      /\ who' = [who EXCEPT ![f] = {u}]
      /\ UNCHANGED <<now, sessions, store, calls, ended, busy>>
  BY DEF Authorize, history
<1>2. CoreTypes'
  BY <1>1 DEF CoreInv, CoreTypes
<1>3. \A g \in Flow : codes[g] = "used" => codes'[g] = "used" /\ who'[g] = who[g]
  BY <1>1 DEF CoreInv, CoreTypes
<1>4. Authenticated'
  BY <1>1 DEF CoreInv, CoreTypes, Authenticated
<1>5. CallsPlaced'
  BY <1>1, <1>3 DEF CoreInv, CallsPlaced, Placed
<1>6. Counted'
  <2>1. SigningIn' = SigningIn /\ UsedCodes' = UsedCodes
    BY <1>1 DEF SigningIn, UsedCodes, CoreInv, CoreTypes
  <2> QED BY <1>1, <2>1 DEF CoreInv, Counted
<1>7. Owned'
  BY <1>1, <1>3 DEF CoreInv, Owned, TokensOf, Tokens
<1>8. SameGrant' /\ Timed' /\ Kept' /\ Forgotten' /\ Aligned'
  BY <1>1 DEF CoreInv, SameGrant, Timed, Kept, Valid, Forgotten, Aligned, Alive
<1> QED BY <1>2, <1>4, <1>5, <1>6, <1>7, <1>8 DEF CoreInv

LEMMA LogoutStep ==
  ASSUME CoreInv, Logout
  PROVE  CoreInv'
<1>1. UNCHANGED <<now, codes, who, sessions, calls>>
  BY DEF Logout, provider
<1>2. CASE ~ Valid(jar)
  <2>1. UNCHANGED core
    BY <1>1, <1>2 DEF Logout, core
  <2> QED BY <2>1, CoreStutters
<1>3. CASE Valid(jar)
  <2>1. /\ store' = [store EXCEPT ![jar] = NoEntry] /\ ended' = ended \cup {jar}
        /\ busy' = IF InProgress(jar) # {} THEN busy \cup {jar} ELSE busy
        /\ jar \in 1..Len(sessions) /\ jar # 0
    BY <1>3 DEF Logout, Valid
  <2>2. 1..Len(sessions) \subseteq Sid
    BY SessionAssumption DEF CoreInv, CoreTypes, Sid
  <2>3. /\ store' \in StoreType /\ store'[jar] = NoEntry
        /\ \A x \in Sid : x # jar => store'[x] = store[x]
    BY <2>1, <2>2, NoEntryTyped DEF CoreInv, CoreTypes, StoreType
  <2>4. CoreTypes' /\ Authenticated' /\ CallsPlaced' /\ Timed'
    BY <1>1, <2>3
       DEF CoreInv, CoreTypes, Authenticated, CallsPlaced, Placed, Timed, Untimed, PasswordPlaces
  <2>5. Counted'
    BY <1>1 DEF CoreInv, Counted, SigningIn, UsedCodes
  <2>6. Owned'
    BY <1>1, <2>3 DEF CoreInv, Owned, TokensOf
  <2>7. Kept'
    BY <1>1, <2>1, <2>2, <2>3 DEF CoreInv, Kept, Valid
  <2>8. Forgotten'
    <3>1. jar \notin busy' => \A d \in Calls : calls'[d].sid # jar
      BY <1>1, <2>1 DEF InProgress
    <3>2. ended \subseteq Sid
      BY <2>2 DEF CoreInv, Forgotten
    <3>3. \A x \in ended' \ busy' : store'[x] = NoEntry
      BY <2>1, <2>3, <3>2 DEF CoreInv, Forgotten
    <3> QED BY <1>1, <2>1, <3>1, <3>3 DEF CoreInv, Forgotten
  <2>9. Aligned'
    <3>1. ASSUME NEW d \in Calls, calls[d].at \in {"refresh", "change"}, ~ calls[d].overlapped,
                 Alive(store[calls[d].sid])'
          PROVE  store'[calls[d].sid].tokens = calls[d].held
      <4>1. calls[d].sid \in Sid
        BY <2>2, <3>1 DEF CoreInv, CoreTypes, PasswordPlaces
      <4>2. calls[d].sid # jar
        BY <1>1, <2>3, <3>1 DEF Alive
      <4> QED BY <1>1, <2>3, <3>1, <4>1, <4>2 DEF CoreInv, Aligned, Alive
    <3> QED BY <1>1, <3>1 DEF CoreInv, Aligned
  <2>10. SameGrant'
    <3>1. \A d \in Calls : calls[d].sid # 0 => calls[d].sid \in Sid
      BY <2>2 DEF CoreInv, Owned, TokensOf
    <3> QED BY <1>1, <2>3, <3>1 DEF CoreInv, SameGrant
  <2> QED BY <2>4, <2>5, <2>6, <2>7, <2>8, <2>9, <2>10 DEF CoreInv
<1> QED BY <1>2, <1>3

LEMMA RestartStep ==
  ASSUME CoreInv, Restart
  PROVE  CoreInv'
<1>1. /\ UNCHANGED <<now, codes, who, sessions, busy>>
      /\ store' = [s \in Sid |-> NoEntry] /\ calls' = [c \in Calls |-> IdleCall]
      /\ ended' = ended \cup 1..Len(sessions)
  BY DEF Restart, provider
<1>2. IdleCall.at = "idle" /\ IdleCall.sid = 0 /\ IdleCall \in Call
  BY IdleTyped DEF IdleCall
<1>3. store' \in StoreType
  BY <1>1, NoEntryTyped DEF StoreType
<1>4. CoreTypes'
  BY <1>1, <1>2, <1>3 DEF CoreInv, CoreTypes, PasswordPlaces
<1>5. Authenticated' /\ CallsPlaced'
  BY <1>1, <1>2 DEF CoreInv, Authenticated, CallsPlaced, Placed
<1>6. Counted'
  <2>1. SigningIn' \subseteq SigningIn /\ UsedCodes' = UsedCodes
    BY <1>1, <1>2 DEF SigningIn, UsedCodes
  <2> QED BY <1>1, <2>1, CountedKept DEF CoreInv, CoreTypes
<1>7. Owned' /\ Timed' /\ Kept'
  BY <1>1, <1>2 DEF CoreInv, Owned, Timed, Untimed, Kept, Valid
<1>8. Forgotten'
  <2>1. ended' = 1..Len(sessions)
    BY <1>1 DEF CoreInv, Forgotten
  <2>2. 1..Len(sessions) \subseteq Sid
    BY SessionAssumption DEF CoreInv, CoreTypes, Sid
  <2> QED BY <1>1, <1>2, <2>1, <2>2 DEF Forgotten
<1>9. Aligned' /\ SameGrant'
  BY <1>1, <1>2 DEF Aligned, SameGrant
<1> QED BY <1>4, <1>5, <1>6, <1>7, <1>8, <1>9 DEF CoreInv

LEMMA TickStep ==
  ASSUME CoreInv, Tick
  PROVE  CoreInv'
<1>1. /\ now < MaxTime /\ now' = now + 1
      /\ \A c \in Calls : calls[c].at \in Untimed \/ now < calls[c].due
      /\ UNCHANGED <<codes, who, sessions, store, calls, ended, busy>>
  BY DEF Tick, provider, history, Untimed
<1>2. now \in Nat /\ {MaxTime, TokenTTL, CallTime} \subseteq Nat
  BY SessionAssumption DEF CoreInv, CoreTypes
<1>3. CoreTypes'
  BY <1>1, <1>2 DEF CoreInv, CoreTypes
<1>4. Authenticated' /\ CallsPlaced'
  BY <1>1 DEF CoreInv, Authenticated, CallsPlaced, Placed
<1>5. Counted'
  BY <1>1 DEF CoreInv, Counted, SigningIn, UsedCodes
<1>6. Owned' /\ SameGrant' /\ Forgotten'
  BY <1>1 DEF CoreInv, Owned, SameGrant, TokensOf, Forgotten
<1>7. Timed'
  <2>1. \A c \in Calls : calls[c].due \in Nat
    BY DEF CoreInv, CoreTypes, Call
  <2> QED BY <1>1, <1>2, <2>1 DEF CoreInv, Timed, Untimed
<1>8. Kept'
  <2>1. \A s \in 1..Len(sessions) : sessions[s].expires \in Nat
    <3>1. \A s \in 1..Len(sessions) : sessions[s] \in SessionRecord
      BY DEF CoreInv, CoreTypes
    <3> QED BY <3>1 DEF SessionRecord
  <2> QED BY <1>1, <1>2, <2>1 DEF CoreInv, Kept, Valid
<1>9. Aligned'
  <2>1. \A c \in Calls : calls[c].at \in {"refresh", "change"} => calls[c].sid \in Sid
    <3>1. 1..Len(sessions) \subseteq Sid
      BY SessionAssumption DEF CoreInv, CoreTypes, Sid
    <3> QED BY <3>1 DEF CoreInv, CoreTypes, PasswordPlaces
  <2>2. ASSUME NEW s \in Sid, Alive(store[s])'
        PROVE  Alive(store[s])
    <3>1. store[s].stored \in Nat
      BY DEF CoreInv, CoreTypes, StoreType
    <3> QED BY <1>1, <1>2, <2>2, <3>1 DEF Alive
  <2> QED BY <1>1, <2>1, <2>2 DEF CoreInv, Aligned
<1> QED BY <1>3, <1>4, <1>5, <1>6, <1>7, <1>8, <1>9 DEF CoreInv

LEMMA LookUpTokensStep ==
  ASSUME SessionInv, NEW c \in Calls, LookUpTokens(c)
  PROVE  CoreInv'
<1> DEFINE sid == calls[c].ctx
           t == store[sid].tokens
           others == InProgress(sid)
<1>1. CoreInv /\ calls \in [Calls -> Call] /\ now \in Nat /\ CallTime \in Nat /\ Margin \in Nat
  BY InvIsCore, SessionAssumption DEF CoreInv, CoreTypes
<1>2. UNCHANGED <<now, codes, who, sessions, store, ended, busy>>
  BY DEF LookUpTokens, provider, history
<1>3. calls[c].sid = 0 /\ calls[c].at = "authorize" /\ sid \in Sid
  <2>1. calls[c].at = "authorize"
    BY DEF LookUpTokens, At
  <2>2. Placed(calls[c]) /\ calls[c] \in Call
    BY <1>1, CallTyped
  <2> QED BY <2>1, <2>2 DEF Placed, Call
<1>4. CASE ~ Alive(store[sid]) \/ (NeedsRefresh(t) /\ t.refresh = 0)
  <2>1. Answer(c)
    BY <1>4 DEF LookUpTokens
  <2> QED BY <1>1, <1>2, <2>1, EndsStep DEF Ends, Answer
<1>5. CASE Alive(store[sid]) /\ ~ (NeedsRefresh(t) /\ t.refresh = 0)
  <2> DEFINE place == IF NeedsRefresh(t) THEN "refresh" ELSE "change"
             shared == others # {}
             r == [IdleCall EXCEPT !.at = place, !.sid = sid, !.held = t,
                     !.due = now + CallTime, !.overlapped = shared]
             marked(d) == [calls[d] EXCEPT !.overlapped = @ \/ d \in others]
  <2>1. calls' = [d \in Calls |-> IF d = c THEN r ELSE marked(d)]
    BY <1>5 DEF LookUpTokens
  <2>2. TokensOf(t, sid) /\ t \in Tokens
    BY <1>1, <1>3, <1>5 DEF CoreInv, Owned, Alive, TokensOf
  <2>3. sid \in 1..Len(sessions) /\ sid # 0 /\ sid \in Sid
    BY <1>3, <2>2 DEF TokensOf
  <2>4. r \in Call
    <3>1. place \in {"refresh", "change"} /\ shared \in BOOLEAN /\ now + CallTime \in Nat
      BY <1>1
    <3> HIDE DEF place, shared
    <3> QED BY <2>2, <2>3, <3>1, IdleTyped DEF Call, Locations
  <2>5. /\ r.at = place /\ r.sid = sid /\ r.held = t /\ r.due = now + CallTime
        /\ (r.overlapped <=> others # {}) /\ r.refreshed = FALSE
    BY DEF IdleCall
  <2>6. ASSUME NEW d \in Calls
        PROVE  /\ marked(d) \in Call
               /\ marked(d).at = calls[d].at /\ marked(d).flow = calls[d].flow
               /\ marked(d).sid = calls[d].sid /\ marked(d).held = calls[d].held
               /\ marked(d).due = calls[d].due /\ marked(d).refreshed = calls[d].refreshed
               /\ (marked(d).overlapped <=> calls[d].overlapped \/ d \in others)
               /\ d \notin others => marked(d) = calls[d]
    <3>1. calls[d] \in Call
      BY <1>1
    <3> QED BY <3>1 DEF Call
  <2>7. calls'[c] = r /\ \A d \in Calls : d # c => calls'[d] = marked(d)
    BY <2>1
  <2>8. calls' \in [Calls -> Call]
    <3> HIDE DEF r, marked
    <3> QED BY <2>1, <2>4, <2>6
  <2> HIDE DEF r, marked, t
  <2>9. CoreTypes'
    <3>1. t # NoTokens
      BY <2>2 DEF Tokens, NoTokens, Flow
    <3>2. \A d \in Calls : calls'[d].at \in PasswordPlaces =>
            calls'[d].sid \in 1..Len(sessions) /\ calls'[d].held # NoTokens
      BY <1>1, <2>3, <2>5, <2>6, <2>7, <3>1 DEF CoreInv, CoreTypes
    <3> QED BY <1>1, <1>2, <2>8, <3>2 DEF CoreInv, CoreTypes
  <2>10. Authenticated'
    BY <1>1, <1>2 DEF CoreInv, Authenticated
  <2>11. \A d \in Calls : d \in others => calls[d].at \in PasswordPlaces
    BY <1>1, CallTyped DEF InProgress, Placed, IdleCall, Call, Locations, PasswordPlaces
  <2>12. CallsPlaced'
    <3>1. Placed(calls[c])'
      BY <2>5, <2>7 DEF Placed
    <3>2. ASSUME NEW d \in Calls, d # c
          PROVE  Placed(calls[d])'
      <4>1. CASE d \in others
        BY <1>1, <1>2, <2>6, <2>7, <2>11, <3>2, <4>1
           DEF CoreInv, CallsPlaced, Placed, PasswordPlaces
      <4>2. CASE d \notin others
        BY <1>1, <1>2, <2>6, <2>7, <3>2, <4>2 DEF CoreInv, CallsPlaced, Placed
      <4> QED BY <4>1, <4>2
    <3> QED BY <3>1, <3>2 DEF CallsPlaced
  <2>13. Counted'
    <3>1. SigningIn' \subseteq SigningIn /\ UsedCodes' = UsedCodes
      BY <1>2, <2>5, <2>6, <2>7 DEF SigningIn, UsedCodes
    <3> QED BY <1>1, <1>2, <3>1, CountedKept DEF CoreInv, CoreTypes
  <2>14. Owned'
    <3>1. \A d \in Calls : calls'[d].sid # 0 => TokensOf(calls'[d].held, calls'[d].sid)
      BY <1>1, <2>2, <2>5, <2>6, <2>7 DEF CoreInv, Owned
    <3> QED BY <1>1, <1>2, <3>1 DEF CoreInv, Owned, TokensOf
  <2>15. Timed'
    <3>1. ~ NeedsRefresh(t) => now + CallTime < t.expires
      <4>1. t.expires \in Nat
        BY <2>2, TokenFields
      <4> QED BY <1>1, <4>1, SessionAssumption DEF NeedsRefresh
    <3> QED BY <1>1, <1>2, <2>5, <2>6, <2>7, <3>1 DEF CoreInv, Timed, Untimed
  <2>16. Kept'
    BY <1>1, <1>2 DEF CoreInv, Kept, Valid
  <2>17. Forgotten'
    <3>1. sid \notin ended \ busy
      BY <1>1, <1>5 DEF CoreInv, Forgotten, Alive
    <3>2. \A d \in Calls : calls'[d].sid \in {calls[d].sid, sid}
      BY <2>5, <2>6, <2>7
    <3>3. Forgotten /\ UNCHANGED <<sessions, store, ended, busy>>
      BY <1>1, <1>2 DEF CoreInv
    <3>4. SUFFICES ASSUME NEW s \in ended \ busy
                   PROVE  store[s] = NoEntry /\ \A d \in Calls : calls'[d].sid # s
      BY <3>3 DEF Forgotten
    <3>5. store[s] = NoEntry /\ \A d \in Calls : calls[d].sid # s
      BY <3>3 DEF Forgotten
    <3> QED BY <3>1, <3>2, <3>5
  <2>18. Aligned'
    <3>1. \A d \in Calls : d \in others <=> calls[d].sid = sid
      BY <2>3 DEF InProgress
    <3>2. \A d, e \in Calls :
            (d # e /\ calls'[d].sid = calls'[e].sid /\ calls'[d].sid # 0) => calls'[d].overlapped
      <4> TAKE d, e \in Calls
      <4> HAVE d # e /\ calls'[d].sid = calls'[e].sid /\ calls'[d].sid # 0
      <4>1. CASE d = c
        BY <2>5, <2>6, <2>7, <3>1, <4>1
      <4>2. CASE e = c
        BY <2>5, <2>6, <2>7, <3>1, <4>2
      <4>3. CASE d # c /\ e # c
        BY <1>1, <2>6, <2>7, <4>3 DEF CoreInv, Aligned
      <4> QED BY <4>1, <4>2, <4>3
    <3>3. \A d \in Calls :
            (calls'[d].at \in {"refresh", "change"} /\ ~ calls'[d].overlapped
               /\ Alive(store[calls'[d].sid])) =>
              store[calls'[d].sid].tokens = calls'[d].held
      BY <1>1, <2>5, <2>6, <2>7 DEF CoreInv, Aligned, t
    <3> QED BY <1>2, <3>2, <3>3 DEF Aligned, Alive
  <2>19. SameGrant'
    <3>1. store[sid] # NoEntry
      BY <1>5 DEF Alive
    <3>2. ASSUME NEW d \in Calls, calls'[d].sid = sid
          PROVE  calls'[d].held.flow = store[sid].tokens.flow
      <4>1. CASE d = c
        BY <2>5, <2>7, <4>1 DEF t
      <4>2. CASE d # c
        BY <1>1, <2>3, <2>6, <2>7, <3>1, <3>2, <4>2 DEF CoreInv, SameGrant
      <4> QED BY <4>1, <4>2
    <3>3. \A d, e \in Calls :
            (calls'[d].sid # sid /\ calls'[d].sid # 0 /\ calls'[e].sid = calls'[d].sid) =>
              calls'[e].held.flow = calls'[d].held.flow
      BY <1>1, <2>5, <2>6, <2>7 DEF CoreInv, SameGrant
    <3>4. \A d \in Calls :
            (calls'[d].sid \notin {0, sid} /\ store[calls'[d].sid] # NoEntry) =>
              store[calls'[d].sid].tokens.flow = calls'[d].held.flow
      BY <1>1, <2>5, <2>6, <2>7 DEF CoreInv, SameGrant
    <3> HIDE DEF sid
    <3> QED BY <1>2, <3>2, <3>3, <3>4 DEF SameGrant
  <2> QED BY <2>9, <2>10, <2>12, <2>13, <2>14, <2>15, <2>16, <2>17, <2>18, <2>19 DEF CoreInv
<1> QED BY <1>4, <1>5

-----------------------------------------------------------------------------
(* Invariance.                                                             *)

\* The invariant holds at the start.
LEMMA SessionInit ==
  ASSUME Init
  PROVE  SessionInv
<1> USE DEF Init
<1>1. IdleCall.at = "idle" /\ IdleCall.sid = 0 /\ IdleCall \in Call
  BY IdleTyped DEF IdleCall
<1>2. /\ MaxTime \in Nat /\ MaxFlows \in Nat /\ sessions \in Seq(SessionRecord)
      /\ Len(sessions) = 0
  BY SessionAssumption
<1>3. NoCookie \in [flow : Flow \cup {0}, expires : Nat] /\ store \in StoreType
  BY NoEntryTyped DEF NoCookie, StoreType
<1>4. CoreTypes /\ Rest
  BY <1>1, <1>2, <1>3 DEF CoreTypes, Rest, PasswordPlaces
<1>5. Authenticated /\ CallsPlaced
  BY <1>1 DEF Authenticated, CallsPlaced, Placed
<1>6. Counted
  <2>1. SigningIn = {} /\ UsedCodes = {}
    BY <1>1 DEF SigningIn, UsedCodes
  <2> QED BY <1>2, <2>1, FS_EmptySet DEF Counted
<1>7. Owned /\ SameGrant /\ Timed /\ Kept /\ Forgotten /\ Aligned
  BY <1>1, <1>2 DEF Owned, SameGrant, Timed, Untimed, Kept, Forgotten, Aligned
<1> QED BY <1>4, <1>5, <1>6, <1>7, InvIsCore DEF CoreInv

\* Every step keeps it.
LEMMA SessionStep ==
  ASSUME SessionInv, [Next]_vars
  PROVE  SessionInv'
<1>1. CoreInv
  BY InvIsCore
<1>2. CoreInv'
  <2>1. ASSUME NEW c \in Calls, StepOf(c)
        PROVE  CoreInv'
    BY <1>1, <2>1, EndsStep, GoesOnStep, ExchangeStep, LoseExchangeStep, SignInStep,
       LookUpTokensStep, StoreTokensStep DEF StepOf
  <2> QED BY <1>1, <2>1, StepKinds, CoreStutters, AuthorizeStep, LogoutStep, RestartStep, TickStep
<1>3. Rest'
  <2>1. CASE \E c \in Calls : SignIn(c)
    <3>1. PICK c \in Calls : SignIn(c)
      BY <2>1
    <3>2. jar' = Len(sessions') /\ cookie' = NoCookie /\ UNCHANGED <<started, grants>>
      BY <3>1 DEF SignIn, provider
    <3>3. Len(sessions') \in Nat
      BY <1>2 DEF CoreInv, CoreTypes
    <3>4. NoCookie \in [flow : Flow \cup {0}, expires : Nat]
      BY DEF NoCookie
    <3> QED BY <1>1, <3>2, <3>3, <3>4, InvIsCore DEF Rest
  <2>2. CASE ~ \E c \in Calls : SignIn(c)
    <3>1. sessions' = sessions
      <4>1. ASSUME NEW c \in Calls, StepOf(c)
            PROVE  sessions' = sessions
        BY <2>2, <4>1 DEF StepOf, Ends, GoesOn, CallbackStart, UserInfo, PasswordStart,
             Refresh, Change, ChangeUnauthorized, Exchange, LoseExchange, CallbackOver,
             LookUpTokens, StoreTokens
      <4> QED BY <4>1, StepKinds DEF core, Authorize, Logout, Restart, Tick
    <3> QED BY <3>1, RestStep
  <2> QED BY <2>1, <2>2
<1>4. SessionInv' <=> CoreInv' /\ Rest'
  BY InvIsCore, PTL
<1> QED BY <1>2, <1>3, <1>4

\* Sessions, tokens and requests keep their types, and a password change that
\* has got past the lookup has a session and tokens: it never goes out with an
\* empty access token.  There are never more sessions than exchanged codes.
THEOREM SessionTypeCorrect == Spec => []TypeOK
<1>1. Init => SessionInv
  BY SessionInit
<1>2. SessionInv /\ [Next]_vars => SessionInv'
  BY SessionStep
<1>3. SessionInv => TypeOK
  BY DEF SessionInv, Typed
<1> QED BY <1>1, <1>2, <1>3, PTL DEF Spec

\* The tokens stored for a session, and the ones a request of it holds, are a
\* grant to the user the session names, whoever else has signed in with the same
\* browser since and however the requests overlap.
THEOREM TokensAreTheUsers == Spec => []TokensMatchSession
<1>1. Init => SessionInv
  BY SessionInit
<1>2. SessionInv /\ [Next]_vars => SessionInv'
  BY SessionStep
<1>3. SessionInv => TokensMatchSession
  BY DEF SessionInv, Owned, TokensOf, TokensMatchSession
<1> QED BY <1>1, <1>2, <1>3, PTL DEF Spec

\* A session that is good has its tokens until a logout or a restart takes them:
\* the cleanup in TokenStore.Put never drops the entry of a session that lives,
\* whatever the lifetime of sessions and entries is.
THEOREM TokensKeptForLife == Spec => []TokensOutliveSession
<1>1. Init => SessionInv
  BY SessionInit
<1>2. SessionInv /\ [Next]_vars => SessionInv'
  BY SessionStep
<1>3. SessionInv => TokensOutliveSession
  <2> SUFFICES ASSUME SessionInv, NEW s \in 1..Len(sessions), Valid(s), s \notin ended
               PROVE  Alive(store[s])
    BY DEF TokensOutliveSession
  <2>1. s \in Sid /\ store \in StoreType /\ now \in Nat /\ TokenTTL \in Nat
    BY CoreTyped, SessionAssumption DEF SessionInv
  <2>2. store[s] # NoEntry /\ sessions[s].expires <= store[s].stored + TokenTTL
    BY DEF SessionInv, Kept
  <2>3. now < sessions[s].expires /\ sessions[s].expires \in Nat
    <3>1. sessions[s] \in SessionRecord
      BY DEF SessionInv, Typed
    <3> QED BY <3>1 DEF SessionRecord, Valid
  <2>4. store[s].stored \in Nat
    BY <2>1 DEF StoreType
  <2> QED BY <2>1, <2>2, <2>3, <2>4 DEF Alive
<1> QED BY <1>1, <1>2, <1>3, PTL DEF Spec

LEMMA FreshInv ==
  ASSUME SessionInv
  PROVE  FreshWhenUsed
<1> SUFFICES ASSUME NEW c \in Calls, calls[c].at = "change"
             PROVE  now < calls[c].held.expires
  BY DEF FreshWhenUsed, At
<1>1. CoreInv
  BY InvIsCore
<1>2. now \in Nat /\ calls[c].due \in Nat /\ calls[c].held.expires \in Nat
  BY <1>1, CallTyped DEF Call, PasswordPlaces, TokensOf, Tokens
<1>3. now <= calls[c].due /\ calls[c].due < calls[c].held.expires
  BY DEF SessionInv, Timed, Untimed
<1> QED BY <1>2, <1>3

\* An access token a password change is about to send has not expired, for every
\* lifetime of the provider's tokens and every length of a request up to
\* refreshMargin.
THEOREM TokensFreshInUse == Spec => []FreshWhenUsed
<1>1. Init => SessionInv
  BY SessionInit
<1>2. SessionInv /\ [Next]_vars => SessionInv'
  BY SessionStep
<1>3. SessionInv => FreshWhenUsed
  BY FreshInv
<1> QED BY <1>1, <1>2, <1>3, PTL DEF Spec

\* The tokens of a session that ended with no password change of it under way
\* are gone for good: no request stores tokens for it again.
THEOREM LogoutIsFinal == Spec => []LogoutForgetsWhenIdle
<1>1. Init => SessionInv
  BY SessionInit
<1>2. SessionInv /\ [Next]_vars => SessionInv'
  BY SessionStep
<1>3. SessionInv => LogoutForgetsWhenIdle
  BY DEF SessionInv, Forgotten, LogoutForgetsWhenIdle
<1> QED BY <1>1, <1>2, <1>3, PTL DEF Spec

\* A request that finds no tokens it can use asks with reason.
LEMMA NoneFound ==
  ASSUME SessionInv, NEW c \in Calls, LookUpTokens(c), calls'[c].at = "idle"
  PROVE  Gone(SessionOf(calls[c])) /\ UNCHANGED <<now, store, grants>>
<1> DEFINE s == calls[c].ctx
           t == store[s].tokens
<1>1. SessionOf(calls[c]) = s /\ UNCHANGED <<now, store, grants>>
  BY DEF LookUpTokens, At, SessionOf, provider
<1>2. ~ Alive(store[s]) \/ (NeedsRefresh(t) /\ t.refresh = 0)
  <2> SUFFICES ASSUME Alive(store[s]), ~ (NeedsRefresh(t) /\ t.refresh = 0)
               PROVE  FALSE
    OBVIOUS
  <2>1. calls'[c].at \in {"refresh", "change"}
    BY DEF LookUpTokens, IdleCall
  <2> QED BY <2>1
<1> QED BY <1>1, <1>2 DEF Gone, AcceptsRefresh

\* The provider has not accepted the tokens that a request gives up on.
LEMMA GivesUp ==
  ASSUME SessionInv, NEW c \in Calls, Asks(c), ~ LookUpTokens(c), ~ ProviderFails(c)
  PROVE  /\ calls[c].at \in {"refresh", "change"}
         /\ UNCHANGED <<now, store, grants>>
         /\ ~ AcceptsRefresh(calls[c].held)
<1>1. CASE RefreshRefused(c)
  BY <1>1 DEF RefreshRefused, At, provider
<1>2. CASE RefreshFails(c)
  <2>1. ~ AcceptsRefresh(calls[c].held)
    BY <1>2 DEF ProviderFails
  <2> QED BY <1>2, <2>1 DEF RefreshFails, At
<1>3. CASE ChangeUnauthorized(c)
  <2>1. calls[c].at = "change" /\ UNCHANGED <<now, store, grants>>
    BY <1>3 DEF ChangeUnauthorized, At, provider
  <2>2. calls[c].refreshed \/ calls[c].held.refresh = 0
    <3>1. calls \in [Calls -> Call]
      BY CoreTyped DEF SessionInv
    <3>2. MayRefresh(calls[c]) => calls'[c].at = "refresh"
      BY <1>3, <3>1 DEF ChangeUnauthorized, GoTo, Call
    <3> QED BY <3>2 DEF Asks, MayRefresh
  <2>3. CASE calls[c].held.refresh = 0
    BY <2>1, <2>3 DEF AcceptsRefresh
  <2>4. CASE calls[c].refreshed
    <3>1. ~ AcceptsAccess(calls[c].held)
      BY <1>3, <2>4 DEF ProviderFails
    <3>2. now < calls[c].held.expires
      BY <2>1, FreshInv DEF FreshWhenUsed, At
    <3>3. grants[calls[c].held.flow] = 0
      BY <3>1, <3>2 DEF AcceptsAccess
    <3> QED BY <2>1, <3>3 DEF AcceptsRefresh
  <2> QED BY <2>2, <2>3, <2>4
<1> QED BY <1>1, <1>2, <1>3 DEF Asks

\* A request that answers 401 reauth_required has a reason: the stored tokens are
\* gone or can not be refreshed, or the provider failed it, or another password
\* change of the session overlapped and has replaced the refresh token it held.
THEOREM ReauthHasReason == Spec => ReauthMeansGone
<1>1. Init => SessionInv
  BY SessionInit
<1>2. SessionInv /\ [Next]_vars => SessionInv'
  BY SessionStep
<1>3. SessionInv /\ [Next]_vars =>
        [\A c \in Calls : \A s \in {SessionOf(calls[c])} :
          (Asks(c) /\ ~ Gone(s)') => (ProviderFails(c) \/ Replaced(c))]_vars
  <2> SUFFICES ASSUME SessionInv, NEW c \in Calls, NEW s \in {SessionOf(calls[c])}, Asks(c),
                      ~ ProviderFails(c), ~ Replaced(c)
               PROVE  Gone(s)'
    OBVIOUS
  <2>1. CASE LookUpTokens(c)
    <3>1. Gone(s) /\ UNCHANGED <<now, store, grants>>
      BY <2>1, NoneFound DEF Asks
    <3> QED BY <3>1 DEF Gone, Alive, AcceptsRefresh
  <2>2. CASE ~ LookUpTokens(c)
    <3>1. /\ calls[c].at \in {"refresh", "change"}
          /\ UNCHANGED <<now, store, grants>>
          /\ ~ AcceptsRefresh(calls[c].held)
      BY <2>2, GivesUp
    <3>2. s = calls[c].sid /\ s # 0
      BY <3>1, InvIsCore, CallTyped DEF SessionOf, PasswordPlaces
    <3>3. ASSUME Alive(store[s])
          PROVE  ~ AcceptsRefresh(store[s].tokens)
      <4>1. CASE ~ calls[c].overlapped
        BY <3>1, <3>2, <3>3, <4>1 DEF SessionInv, Aligned
      <4>2. CASE store[s].tokens.refresh = calls[c].held.refresh
        <5>1. store[s].tokens.flow = calls[c].held.flow
          BY <3>2, <3>3 DEF SessionInv, SameGrant, Alive
        <5> QED BY <3>1, <4>2, <5>1 DEF AcceptsRefresh
      <4> QED BY <3>2, <4>1, <4>2 DEF Replaced
    <3>4. Gone(s)
      BY <3>3 DEF Gone
    <3> QED BY <3>1, <3>4 DEF Gone, Alive, AcceptsRefresh
  <2> QED BY <2>1, <2>2
<1> QED BY <1>1, <1>2, <1>3, PTL DEF Spec, ReauthMeansGone

-----------------------------------------------------------------------------
(* The change itself.                                                      *)

\* A request that has changed the password only waits for the answer.
Done == \A c \in Calls : calls[c].changed => calls[c].at = "answer"

\* One call changes, and nothing is marked as changed before the answer.
LEMMA DoneCall ==
  ASSUME SessionInv, Done, NEW c \in Calls, StepOf(c)
  PROVE  Done'
<1>1. calls \in [Calls -> Call] /\ (calls[c].at # "answer" => ~ calls[c].changed)
  BY CoreTyped DEF SessionInv, Done
<1>2. IdleCall \in Call /\ ~ IdleCall.changed
  BY IdleTyped DEF IdleCall
<1> SUFFICES /\ calls'[c].changed => calls'[c].at = "answer"
             /\ \A d \in Calls : d # c => /\ calls'[d].changed = calls[d].changed
                                         /\ calls'[d].at = calls[d].at
  BY DEF Done
<1>3. CASE Ends(c) \/ LoseExchange(c) \/ SignIn(c)
  <2>1. calls' = [calls EXCEPT ![c] = IdleCall]
    BY <1>3 DEF Ends, LoseExchange, CallbackOver, SignIn, Answer
  <2> QED BY <1>1, <1>2, <2>1
<1>4. CASE (\E f \in Flow : CallbackStart(c, f)) \/ PasswordStart(c)
  <2>1. PICK r \in {[IdleCall EXCEPT !.at = "exchange", !.flow = f, !.due = now + CallTime] :
                      f \in Flow} \cup {[IdleCall EXCEPT !.at = "authorize", !.ctx = jar]} :
          calls' = [calls EXCEPT ![c] = r]
    BY <1>4 DEF CallbackStart, PasswordStart
  <2>2. ~ r.changed
    BY DEF IdleCall
  <2> QED BY <1>1, <2>1, <2>2
<1>5. CASE UserInfo(c) \/ StoreTokens(c) \/ (ChangeUnauthorized(c) /\ MayRefresh(calls[c]))
  <2>1. PICK p \in {"account", "change", "refresh"} : calls' = [calls EXCEPT ![c].at = p]
    BY <1>5 DEF UserInfo, StoreTokens, ChangeUnauthorized, GoTo
  <2>2. calls[c].at # "answer"
    BY <1>5 DEF UserInfo, StoreTokens, ChangeUnauthorized, At
  <2>3. calls'[c].changed = calls[c].changed
    BY <1>1, <2>1 DEF Call
  <2> QED BY <1>1, <2>1, <2>2, <2>3
<1>6. CASE Refresh(c)
  <2>1. PICK t : calls' = [calls EXCEPT ![c].at = "put", ![c].refreshed = TRUE, ![c].held = t]
    BY <1>6 DEF Refresh
  <2>2. calls'[c].changed = calls[c].changed
    BY <1>1, <2>1 DEF Call
  <2> QED BY <1>1, <1>6, <2>1, <2>2 DEF Refresh, At
<1>7. CASE Exchange(c)
  <2>1. PICK t : calls' = [calls EXCEPT ![c].at = "userinfo", ![c].held = t]
    BY <1>7 DEF Exchange
  <2>2. calls'[c].changed = calls[c].changed
    BY <1>1, <2>1 DEF Call
  <2> QED BY <1>1, <1>7, <2>1, <2>2 DEF Exchange, At
<1>8. CASE Change(c)
  BY <1>1, <1>8 DEF Change, Call
<1>9. CASE LookUpTokens(c)
  <2>1. CASE Answer(c)
    BY <1>1, <1>2, <2>1 DEF Answer
  <2>2. CASE ~ Answer(c)
    <3> DEFINE marked(d, b) == [calls[d] EXCEPT !.overlapped = b]
    <3>1. ~ calls'[c].changed
      BY <1>9, <2>2 DEF LookUpTokens, IdleCall
    <3>2. ASSUME NEW d \in Calls, d # c
          PROVE  calls'[d].changed = calls[d].changed /\ calls'[d].at = calls[d].at
      <4>1. PICK b : calls'[d] = marked(d, b)
        BY <1>9, <2>2, <3>2 DEF LookUpTokens
      <4> QED BY <1>1, <4>1 DEF Call
    <3> QED BY <3>1, <3>2
  <2> QED BY <2>1, <2>2
<1> QED BY <1>3, <1>4, <1>5, <1>6, <1>7, <1>8, <1>9 DEF StepOf, GoesOn

\* Once a request has changed the password it is over but for the answer: it
\* neither sends the change again nor refreshes tokens and asks the user to sign
\* in, whenever the answer gets lost.
THEOREM ChangedForGood == Spec => ChangeIsFinal
<1>1. Init => SessionInv /\ Done
  BY SessionInit DEF Init, Done, IdleCall
<1>2. SessionInv /\ Done /\ [Next]_vars => SessionInv' /\ Done'
  <2> SUFFICES ASSUME SessionInv, Done, [Next]_vars
               PROVE  Done'
    BY SessionStep
  <2>1. CASE calls' = calls
    BY <2>1 DEF Done
  <2>2. CASE Restart
    BY <2>2 DEF Restart, Done, IdleCall
  <2>3. CASE \E c \in Calls : StepOf(c)
    BY <2>3, DoneCall
  <2> QED BY <2>1, <2>2, <2>3, StepKinds DEF core, Authorize, Logout, Tick
<1>3. SessionInv /\ Done =>
        [\A c \in Calls : calls[c].changed =>
           ~ (Change(c) \/ ChangeRefused(c) \/ ChangeUnauthorized(c) \/ Asks(c))]_vars
  BY DEF Done, Change, ChangeRefused, ChangeUnauthorized, Asks, LookUpTokens, RefreshRefused,
         RefreshFails, At
<1> QED BY <1>1, <1>2, <1>3, PTL DEF Spec, ChangeIsFinal
=============================================================================
