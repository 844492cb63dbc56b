---------------------------- MODULE SingleServer ----------------------------
(***************************************************************************)
(* What a restart manager promises of the processes of its server: one is  *)
(* launched only when there is none and the server is still wanted, so     *)
(* there is never a second, whatever crashes, closes, backoffs and stops   *)
(* do; and once the server is not wanted any more, none is launched again. *)
(***************************************************************************)
EXTENDS Naturals

CONSTANT Children

VARIABLES
    servers,  \* the processes there are
    wanted    \* nobody has called for an end

vars == <<servers, wanted>>

Init == servers = {} /\ wanted = TRUE

Launch(c) ==
    /\ wanted /\ servers = {}
    /\ servers' = {c}
    /\ UNCHANGED wanted

\* It crashes, fails to come up, or is closed.
Ends ==
    /\ servers # {}
    /\ servers' = {}
    /\ UNCHANGED wanted

Dismiss ==
    /\ wanted
    /\ wanted' = FALSE
    /\ UNCHANGED servers

Next == (\E c \in Children : Launch(c)) \/ Ends \/ Dismiss

Spec == Init /\ [][Next]_vars
=============================================================================
