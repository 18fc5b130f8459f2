------------------------- MODULE MCSessionInstances ------------------------
(* Two instances of Session for TLC in one run: "browser", two sign-ins by  *)
(* any users, where a first refresh always rotates the token and no change  *)
(* is accepted; "session", one sign-in, for longer, at a provider that may  *)
(* rotate tokens or not and accepts changes.                                *)
EXTENDS MCSession

VARIABLE instance

\* Whoever has refreshed has the second refresh token of the grant.
AlwaysRotates == \A c \in Calls : calls[c].refreshed => calls[c].held.refresh = 2

Within ==
  IF instance = "browser"
  THEN /\ now <= 2 /\ AlwaysRotates /\ \A f \in Flow : grants[f] <= 2
       /\ \A c \in Calls : ~ calls[c].changed
  ELSE started <= 1

InstanceInit == Init /\ instance \in {"browser", "session"}

InstanceNext == UNCHANGED instance /\ Next /\ Within'

InstanceSpec == InstanceInit /\ [][InstanceNext]_<<vars, instance>>

=============================================================================
