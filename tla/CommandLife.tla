----------------------------- MODULE CommandLife ----------------------------
(***************************************************************************)
(* What the agents of a cluster promise about a command, whichever of them *)
(* serves its request, its polls, its answer and its timeout: it opens at  *)
(* most once, is pending or delivered while it is open, is never pending   *)
(* again once delivered, and once closed it is never opened again.  With   *)
(* fairness, an open command is closed.                                    *)
(*                                                                         *)
(* doc/architecture.md lists the values of status in the collection; the   *)
(* phases below are the ones the code in rest/command_handle.cc stores.    *)
(***************************************************************************)
CONSTANT Commands
VARIABLE phase

LifeInit == phase = [c \in Commands |-> "new"]

(* The request is saved; a poll may already have taken the command. *)
Open(c) == /\ phase[c] = "new"
           /\ \E s \in {"pending", "delivered"} : phase' = [phase EXCEPT ![c] = s]
Deliver(c) == /\ phase[c] = "pending"
              /\ phase' = [phase EXCEPT ![c] = "delivered"]
(* Answered, failed or expired; a request that could not be saved as well. *)
Close(c) == /\ phase[c] # "closed"
            /\ phase' = [phase EXCEPT ![c] = "closed"]

(* An agent dies in the middle of several requests. *)
Abandon(S) == /\ \A c \in S : phase[c] = "new"
              /\ phase' = [c \in Commands |-> IF c \in S THEN "closed" ELSE phase[c]]

LifeNext == \/ \E c \in Commands : Open(c) \/ Deliver(c) \/ Close(c)
            \/ \E S \in SUBSET Commands : Abandon(S)
LifeSpec == LifeInit /\ [][LifeNext]_phase
LifeFairSpec ==
  LifeSpec /\ \A c \in Commands : WF_phase(phase[c] # "new" /\ Close(c))
=============================================================================
