------------------------ MODULE MCDirectoryInstances -----------------------
(* Two instances of Directory for TLC in one run: "alone", requests of      *)
(* every kind, one at a time and none left to arrive late; "together",      *)
(* compatible requests that overlap, with a late write.                     *)
EXTENDS MCDirectory

VARIABLE instance

Within ==
  IF instance = "alone"
  THEN late = {} /\ \A c, d \in Calls : pc[c] # "idle" /\ pc[d] # "idle" => c = d
  ELSE \A c \in Calls : pc[c] # "idle" => req[c] \in CompatibleRequests

InstanceInit == Init /\ instance \in {"alone", "together"}

InstanceNext == UNCHANGED instance /\ Next /\ Within'

InstanceSpec == InstanceInit /\ [][InstanceNext]_<<vars, instance>>

=============================================================================
