------------------------------- MODULE Dialer -------------------------------
(***************************************************************************)
(* What a tun2connect Dialer promises a Forwarder for one call of DialTCP  *)
(* or DialUDP, whichever client makes the tunnel: a call that fails leaves *)
(* nothing open, one that returns has an accepted tunnel, and from then on *)
(* only the boundary or the caller ends it, unless the dial context had    *)
(* already ended when the call returned.                                   *)
(***************************************************************************)
CONSTANT Calls

VARIABLES
    call,       \* call[d]: "idle", "dialing", "failed", "returned"
    expired,    \* the calls whose context ended before they returned
    verdict,    \* verdict[d]: the boundary's answer as the client read it
    tunnel      \* tunnel[d]: "none", "open", "aborted" by the client,
                \* "dropped" by the boundary, "closed" by the caller

vars == <<call, expired, verdict, tunnel>>

Init ==
    /\ call = [d \in Calls |-> "idle"] /\ expired = {}
    /\ verdict = [d \in Calls |-> "none"] /\ tunnel = [d \in Calls |-> "none"]

Start(d) ==
    /\ call[d] = "idle"
    /\ call' = [call EXCEPT ![d] = "dialing"]
    /\ UNCHANGED <<expired, verdict, tunnel>>

Expire(d) ==
    /\ call[d] = "dialing"
    /\ expired' = expired \cup {d}
    /\ UNCHANGED <<call, verdict, tunnel>>

Open(d) ==
    /\ call[d] = "dialing" /\ tunnel[d] = "none"
    /\ tunnel' = [tunnel EXCEPT ![d] = "open"]
    /\ UNCHANGED <<call, expired, verdict>>

Accept(d) ==
    /\ call[d] = "dialing" /\ tunnel[d] = "open" /\ verdict[d] = "none"
    /\ verdict' = [verdict EXCEPT ![d] = "accepted"]
    /\ UNCHANGED <<call, expired, tunnel>>

\* The client gives the tunnel up.  An accepted one only for its context.
Abort(d) ==
    /\ tunnel[d] = "open"
    /\ d \in expired \/ (call[d] = "dialing" /\ verdict[d] # "accepted")
    /\ tunnel' = [tunnel EXCEPT ![d] = "aborted"]
    /\ UNCHANGED <<call, expired, verdict>>

Drop(d) ==
    /\ tunnel[d] = "open"
    /\ tunnel' = [tunnel EXCEPT ![d] = "dropped"]
    /\ UNCHANGED <<call, expired, verdict>>

Fail(d) ==
    /\ call[d] = "dialing" /\ tunnel[d] # "open" /\ verdict[d] = "none"
    /\ call' = [call EXCEPT ![d] = "failed"]
    /\ UNCHANGED <<expired, verdict, tunnel>>

\* Closing what is open and reporting the failure may be one step.
AbortAndFail(d) ==
    /\ call[d] = "dialing" /\ tunnel[d] = "open" /\ verdict[d] = "none"
    /\ tunnel' = [tunnel EXCEPT ![d] = "aborted"]
    /\ call' = [call EXCEPT ![d] = "failed"]
    /\ UNCHANGED <<expired, verdict>>

Return(d) ==
    /\ call[d] = "dialing" /\ verdict[d] = "accepted"
    /\ call' = [call EXCEPT ![d] = "returned"]
    /\ UNCHANGED <<expired, verdict, tunnel>>

Close(d) ==
    /\ call[d] = "returned" /\ tunnel[d] = "open"
    /\ tunnel' = [tunnel EXCEPT ![d] = "closed"]
    /\ UNCHANGED <<call, expired, verdict>>

\* The end of a shared session drops every tunnel on it at once.
DropSome(D) ==
    /\ \A d \in D : tunnel[d] = "open"
    /\ tunnel' = [d \in Calls |-> IF d \in D THEN "dropped" ELSE tunnel[d]]
    /\ UNCHANGED <<call, expired, verdict>>

Next ==
    \/ \E d \in Calls :
        \/ Start(d) \/ Expire(d) \/ Open(d) \/ Accept(d) \/ Abort(d) \/ Drop(d)
        \/ Fail(d) \/ AbortAndFail(d) \/ Return(d) \/ Close(d)
    \/ \E D \in SUBSET Calls : DropSome(D)

Spec == Init /\ [][Next]_vars
=============================================================================
