----------------------------- MODULE MCSessions -----------------------------
(* Small instances of Sessions and Presence for TLC. The two share no       *)
(* variable, so a behaviour is about one of them; about Presence it is with *)
(* two tabs of one user, or with requests.                                  *)
EXTENDS Sessions, Presence, TLC

Interchangeable == Permutations(Threads) \cup Permutations(Deleters) \cup Permutations(Users)

\* The first connection is one user's, the others are of another one.
MCNameOf == (1 :> "a") @@ (2 :> "b") @@ (3 :> "b")

VARIABLE focus

MCInit == /\ Init /\ PresenceInit
          /\ focus \in {"sessions", "tabs", "requests"}
          /\ focus = "sessions" => contacts = {}

\* What takes no part
Aside == IF focus = "tabs" THEN Requests ELSE {3}

MCNext == /\ UNCHANGED focus
          /\ \/ focus = "sessions" /\ Next /\ UNCHANGED presenceVars
             \/ focus # "sessions" /\ PresenceNext /\ UNCHANGED vars
                /\ \A t \in Aside : doing'[t] = AtRest

MCSpec == MCInit /\ [][MCNext]_<<vars, presenceVars, focus>>
=============================================================================
