--------------------------- MODULE ConnectOutcome ---------------------------
(***************************************************************************)
(* What Manager.Connect and Manager.Close promise to the rest of the       *)
(* program, without attempts, discovery and time: one answer, which stays. *)
(* It is an error with nothing left open, or a session as it was asked     *)
(* for, which is open until it is closed.                                  *)
(***************************************************************************)

VARIABLES
  wanted,    \* the security configuration
  outcome,   \* "pending", "session", "error" or "closed"
  open,      \* a session is open
  session    \* its mode, policy, token and certificates

Init == outcome = "pending" /\ open = FALSE

Fails ==
  /\ outcome = "pending" /\ outcome' = "error"
  /\ UNCHANGED <<wanted, open, session>>

Succeeds ==
  /\ outcome = "pending" /\ outcome' = "session" /\ open' = TRUE
  /\ session'.mode = wanted.mode /\ session'.token = wanted.auth
  /\ UNCHANGED wanted

Closes ==
  /\ outcome = "session" /\ outcome' = "closed" /\ open' = FALSE
  /\ UNCHANGED <<wanted, session>>

Next == Fails \/ Succeeds \/ Closes

Spec == Init /\ [][Next]_<<wanted, outcome, open, session>>
=============================================================================
