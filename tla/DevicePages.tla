---------------------------- MODULE DevicePages -----------------------------
(***************************************************************************)
(* GET devices of the IoT Agent Manager (services/admin_mgmt_service.cc,   *)
(* get_all_devices_json): one page of the devices of all agents, asked     *)
(* from one agent after the other with what is left of limit and offset.   *)
(*                                                                         *)
(* The devices of the agents that answer are numbered from 0 in the order  *)
(* in which the agents are asked.  A page is the set of numbers returned.  *)
(* An agent counts and finds in two queries; its devices are taken to be   *)
(* the same in both.                                                       *)
(***************************************************************************)
EXTENDS Integers

CONSTANTS
  NumAgents,      \* endpoints in SERVICE_MGMT for the service
  MaxDevices,     \* bound: devices at one agent
  LIMIT_DEFAULT, LIMIT_MAX,   \* rest/types.cc
  AskedLimits, AskedOffsets   \* values of the query parameters

ASSUME DevicePagesAssumption ==
  /\ NumAgents \in Nat /\ MaxDevices \in Nat
  /\ LIMIT_DEFAULT \in Nat /\ LIMIT_MAX \in Nat
  /\ AskedLimits \subseteq Int /\ AskedOffsets \subseteq Int

VARIABLES
  limit, offset,     \* of the request, as devices() has read them
  asked,             \* agents asked so far
  limitI, offsetI,   \* what is left for the next agent
  total,             \* total_count
  page, sent,        \* the devices returned so far, and how many
  skipped            \* history: an agent with devices was skipped altogether

pageVars == <<limit, offset, asked, limitI, offsetI, total, page, sent, skipped>>

(* devices(): -1 asks for the count alone, 0 for all devices. *)
ReadLimit(l) ==
  IF l < -1 THEN LIMIT_DEFAULT ELSE IF l > LIMIT_MAX THEN LIMIT_MAX ELSE l

ReadOffset(o) == IF o < 0 THEN 0 ELSE o

PageInit ==
  /\ limit \in {ReadLimit(l) : l \in AskedLimits}
  /\ offset \in {ReadOffset(o) : o \in AskedOffsets}
  /\ asked = 0
  /\ limitI = limit /\ offsetI = offset
  /\ total = 0
  /\ page = {} /\ sent = 0
  /\ skipped = "no"

(* What an agent with count devices returns (get_all_devices_json() of the *)
(* agents): the number of devices after the first o, at most l of them.    *)
Returned(count, l, o) ==
  LET rest == IF count > o THEN count - o ELSE 0
  IN  CASE l < 0 -> 0
        [] l = 0 -> rest
        [] OTHER -> IF l < rest THEN l ELSE rest

NextOffset(count, o) == IF o > count THEN o - count ELSE 0

NextLimitOfPage(count, l, o) ==
  LET given == IF o > 0 /\ o <= count THEN count - o ELSE count
  IN  IF l > 0 THEN l - given ELSE l

NextLimitCharged(count, l, o) ==
  IF l > 0 THEN (IF l > count THEN l - count ELSE -1) ELSE l

(* The limit that is left: count is reduced by the offset only when the    *)
(* offset ends at this agent.  Nothing left is -1, for 0 means no limit.   *)
NextLimit(count, l, o) ==
  LET given == IF o > 0 /\ o <= count THEN count - o ELSE count
  IN  IF l > 0 THEN (IF l > given THEN l - given ELSE -1) ELSE l

AgentAnswers(count) ==
  /\ asked < NumAgents
  /\ asked' = asked + 1
  /\ LET n == Returned(count, limitI, offsetI)
     IN  /\ page' = page \cup ((total + offsetI)..(total + offsetI + n - 1))
         /\ sent' = sent + n
  /\ total' = total + count
  /\ offsetI' = NextOffset(count, offsetI)
  /\ limitI' = NextLimit(count, limitI, offsetI)
  /\ skipped' = IF offsetI > count /\ count > 0 THEN "yes" ELSE skipped
  /\ UNCHANGED <<limit, offset>>

(* No answer, an error status or an exception: an entry of "errors". *)
AgentFails ==
  /\ asked < NumAgents
  /\ asked' = asked + 1
  /\ UNCHANGED <<limit, offset, limitI, offsetI, total, page, sent, skipped>>

PageNext == (\E count \in 0..MaxDevices : AgentAnswers(count)) \/ AgentFails

PageSpec == PageInit /\ [][PageNext]_pageVars

----------------------------------------------------------------------------
(* However the devices are spread over the agents and whichever agents     *)
(* fail, a page starts at the offset, has no gap and no device twice, and  *)
(* is never longer than the limit (get_all_devices_json()).                *)
PageIsPrefix ==
  /\ page = offset..(offset + sent - 1)
  /\ limit > 0 => sent <= limit
  /\ limit < 0 => sent = 0

(* Unless the offset skips all devices of an agent, the page is complete:  *)
(* it ends at the limit or with the last device.  (An agent that is        *)
(* skipped is charged to the limit as well, and the page is too short.)    *)
PageIsComplete ==
  asked = NumAgents /\ skipped = "no" /\ limit >= 0 =>
    sent = Returned(total, limit, offset)

(* The pages of several agents make up one page: nothing twice, nothing    *)
(* left out, no more than was asked for.                                   *)
PagesFit == PageIsPrefix /\ PageIsComplete
=============================================================================
