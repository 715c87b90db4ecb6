------------------------------- MODULE SessionLog -------------------------------
(***************************************************************************)
(* What the table of session events promises its reader, the anomaly       *)
(* detector, which pairs each ssh_connected with the event that ends it:   *)
(* one session at a time, authenticated before it connects, and ended by   *)
(* exactly one event of its own container.                                 *)
(***************************************************************************)
EXTENDS Sequences

CONSTANT Containers

VARIABLES
    log,      (* the rows [event, container] in the order they are inserted *)
    session,  (* "idle", "authenticated" or "connected"                     *)
    of        (* the container the session is for                           *)

vars == <<log, session, of>>

Row(event, c) == [event |-> event, container |-> c]
None == "none"

Init == log = << >> /\ session = "idle" /\ of = None

Reject ==
    /\ session = "idle"
    /\ log' = Append(log, Row("auth_fail", None))
    /\ UNCHANGED <<session, of>>

Authenticate(c) ==
    /\ session = "idle"
    /\ log' = Append(log, Row("auth_ok", None))
    /\ \/ session' = "authenticated" /\ of' = c
       \/ UNCHANGED <<session, of>>

(* A session may end before anyone connected: its set-up failed.           *)
Abandon ==
    /\ session = "authenticated"
    /\ session' = "idle" /\ of' = None
    /\ UNCHANGED log

Connect ==
    /\ session = "authenticated"
    /\ log' = Append(log, Row("ssh_connected", of))
    /\ session' = "connected"
    /\ UNCHANGED of

End ==
    /\ \/ session = "connected" /\ \E event \in {"ssh_disconnected", "timeout"} :
             log' = Append(log, Row(event, of))
       \/ session = "authenticated" /\ log' = Append(log, Row("timeout", of))
    /\ session' = "idle" /\ of' = None

Next ==
    \/ Reject
    \/ \E c \in Containers : Authenticate(c)
    \/ Abandon
    \/ Connect
    \/ End

Spec == Init /\ [][Next]_vars
================================================================================
