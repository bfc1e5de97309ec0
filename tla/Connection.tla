----------------------------- MODULE Connection -----------------------------
(***************************************************************************)
(* What the rest of the app relies on when it uses LattixApi               *)
(* (client/js/api.js): the promise that ApiClient is shown to keep.        *)
(*                                                                         *)
(* "status" events tell whether the link to the relay is up: the app shows *)
(* the presence of contacts and resyncs on the strength of them.  Told that *)
(* the link is up, the app is told when it is lost, unless a new attempt   *)
(* has already taken its place, whose outcome it is told.                  *)
(* A call is answered only if the relay has carried it out, and a call     *)
(* that changes something is carried out at most once, whatever is lost    *)
(* and tried again.                                                        *)
(***************************************************************************)
EXTENDS Naturals

CONSTANTS
    Calls,     \* requests
    Reads      \* those that change nothing: GET

VARIABLES
    link,      \* to the relay: "down", "trying", "up"
    told,      \* the last "status" event: "none", "up", "down"
    leaving,   \* the user is signing out
    outcome,   \* of each call: "idle", "pending", "ok", "failed"
    effects    \* how often the relay carried each call out

promised == <<link, told, leaving, outcome, effects>>

Init == /\ link = "down" /\ told = "none" /\ leaving = FALSE
        /\ outcome = [c \in Calls |-> "idle"]
        /\ effects = [c \in Calls |-> 0]

Tries == /\ link' = "trying"
         /\ UNCHANGED <<told, leaving, outcome, effects>>

ComesUp == /\ link = "trying" /\ link' = "up" /\ told' = "up"
           /\ UNCHANGED <<leaving, outcome, effects>>

\* The link is lost, or an attempt to set it up has failed.
GoesDown == /\ link' = "down" /\ told' = "down"
            /\ UNCHANGED <<leaving, outcome, effects>>

Leaves == /\ leaving' = TRUE
          /\ UNCHANGED <<link, told, outcome, effects>>

\* Signing out closes the link without telling; so does a new attempt that has
\* first to ask what the relay can do.
IsClosed == /\ leaving \/ told # "up"
            /\ link' = "down"
            /\ UNCHANGED <<told, leaving, outcome, effects>>

Begins(c) == /\ outcome[c] = "idle"
             /\ outcome' = [outcome EXCEPT ![c] = "pending"]
             /\ UNCHANGED <<link, told, leaving, effects>>

TakesEffect(c) == /\ outcome[c] = "pending"
                  /\ c \in Reads \/ effects[c] = 0
                  /\ effects' = [effects EXCEPT ![c] = @ + 1]
                  /\ UNCHANGED <<link, told, leaving, outcome>>

Succeeds(c) == /\ outcome[c] = "pending" /\ effects[c] > 0
               /\ outcome' = [outcome EXCEPT ![c] = "ok"]
               /\ UNCHANGED <<link, told, leaving, effects>>

\* Calls that waited for the same re-login fail together.
Fail(C) == /\ \A c \in C : outcome[c] = "pending"
           /\ outcome' = [c \in Calls |-> IF c \in C THEN "failed" ELSE outcome[c]]
           /\ UNCHANGED <<link, told, leaving, effects>>

Next == \/ Tries \/ ComesUp \/ GoesDown \/ Leaves \/ IsClosed
        \/ \E c \in Calls : Begins(c) \/ TakesEffect(c) \/ Succeeds(c)
        \/ \E C \in SUBSET Calls : Fail(C)

Spec == Init /\ [][Next]_promised
=============================================================================
