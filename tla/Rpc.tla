-------------------------------- MODULE Rpc --------------------------------
(***************************************************************************)
(* What a session promises to those who send requests: a request is        *)
(* answered at most once, with its own answer, never after it was          *)
(* cancelled, and, if the world lets it, some day.                         *)
(***************************************************************************)
CONSTANT Requests

VARIABLES
    calls,  \* of each request: is it asked, answered, cancelled
    given   \* <<request, the request whose answer it got>>

vars == <<calls, given>>

Init == calls = [r \in Requests |-> "none"] /\ given = {}

\* MTP::send.
Ask(r) ==
    /\ calls[r] = "none"
    /\ calls' = [calls EXCEPT ![r] = "waiting"]
    /\ UNCHANGED given

\* The callbacks of some requests are called, and are gone.
Answer(S) ==
    /\ \A r \in S : calls[r] = "waiting"
    /\ calls' = [r \in Requests |-> IF r \in S THEN "answered" ELSE calls[r]]
    /\ given' = given \cup {<<r, r>> : r \in S}

\* MTP::cancel.
Cancel(r) ==
    /\ calls[r] = "waiting"
    /\ calls' = [calls EXCEPT ![r] = "cancelled"]
    /\ UNCHANGED given

Next == \/ \E r \in Requests : Ask(r) \/ Cancel(r)
        \/ \E S \in SUBSET Requests : Answer(S)

\* Each step is one of the caller's three.
Safety == Init /\ [][Next]_vars

Settles == \A r \in Requests : calls[r] = "waiting" ~> calls[r] # "waiting"

Spec == Safety /\ Settles
=============================================================================
