--------------------------- MODULE MCApiInstances ---------------------------
(* Two instances of Api for TLC in one run: "rights", requests of every     *)
(* kind while nobody signs in and no time passes; "sessions", sign-ins and  *)
(* a few requests while sessions expire.                                    *)
EXTENDS MCApi

VARIABLE instance

Within ==
  IF instance = "rights"
  THEN /\ clock = 0 /\ role["root@a"] = "admin"
       /\ \A c \in Calls : calls[c] # Idle => calls[c].req \in RightsRequests
  ELSE /\ role["dora@a"] = "user"
       /\ \A c \in Calls : calls[c] # Idle =>
            /\ calls[c].session.user # "dora@a"
            /\ calls[c].req \in SessionRequests \cup SignInOp

InstanceInit == Init /\ instance \in {"rights", "sessions"}

InstanceNext == UNCHANGED instance /\ Next /\ Within'

InstanceSpec == InstanceInit /\ [][InstanceNext]_<<vars, instance>>

=============================================================================
