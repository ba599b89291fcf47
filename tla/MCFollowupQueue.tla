--------------------------- MODULE MCFollowupQueue ---------------------------
(* Instances of FollowupQueue for TLC: the settings and origins of the runs.   *)
EXTENDS FollowupQueue

CONSTANTS Modes, Caps, Drops, Routes, Auths

MCSettings == {s \in [mode : Modes, cap : Caps, drop : Drops] :
                 s.mode = "followup" \/ s.drop = "summarize"}
MCOrigins == {o \in [route : Routes, auth : Auths] : o.route = 1 \/ o.auth = 1}

=============================================================================
