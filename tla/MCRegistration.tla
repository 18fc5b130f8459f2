--------------------------- MODULE MCRegistration ---------------------------
(* Instances of Registration for TLC: an old and a new pod of a rollout,    *)
(* with different secrets, beside the client of another deployment.         *)
EXTENDS Registration

CONSTANTS old, new, ours, staging, secret0, secret1, secret2

MCPods == {old, new}
MCSecret == [p \in MCPods |-> IF p = old THEN secret1 ELSE secret2]
MCOtherIds == {staging}

\* Nothing yet, only the other deployment, or also a client from earlier times.
MCExisting == {<<>>, <<staging>>, <<staging, ours>>}
=============================================================================
