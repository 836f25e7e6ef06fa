---------------------------- MODULE HttpExchange ----------------------------
(***************************************************************************)
(* What the rest of the agent may count on when it sends a request through *)
(* an HttpClient: the exchange is opened once, it is closed once, with one *)
(* of the Outcomes, and, with fairness, it is closed.                      *)
(***************************************************************************)
CONSTANTS
  Outcomes,     \* pairs of a response and an error code
  NoOutcome
VARIABLES phase, outcome

ExchangeInit == phase = "idle" /\ outcome = NoOutcome

Begin == /\ phase = "idle"
         /\ phase' = "open"
         /\ UNCHANGED outcome
Conclude == /\ phase = "open"
            /\ phase' = "closed"
            /\ outcome' \in Outcomes

ExchangeNext == Begin \/ Conclude
ExchangeSpec == ExchangeInit /\ [][ExchangeNext]_<<phase, outcome>>
ExchangeFairSpec == ExchangeSpec /\ WF_<<phase, outcome>>(Conclude)
=============================================================================
