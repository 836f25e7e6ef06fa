----------------------------- MODULE HttpClient -----------------------------
(***************************************************************************)
(* iota::HttpClient (util/http_client.cc): one request over one TCP        *)
(* connection.  The completion handlers of the connection and the handler  *)
(* of the timer all go through one strand, so that each is one step, but   *)
(* they are queued in any order: closing the connection aborts only the    *)
(* operation that has not completed, and cancelling the timer does nothing *)
(* to a handler that is already queued.                                    *)
(*                                                                         *)
(* With Synch the client has an io_service of its own and send() runs the  *)
(* handlers, nested, on the calling thread until none is left; the callers *)
(* pass no callback and read the response and get_error() afterwards.      *)
(***************************************************************************)
EXTENDS HttpOutcome, Sequences, Naturals

CONSTANT
  NoOutcome   \* the exchange is not concluded

ASSUME NoOutcomeAssumption == NoOutcome \notin {"sync", "async"} \X Outcome

VARIABLES
  mode,       \* "sync": _synch_http_client, or "async"; never changes
  pc,         \* "new", "starting" (timer set, not connected), "running", "returned"
  endpoint,   \* [ip, port] the connection goes to: the server's or the proxy's
  via,        \* _proxy: "direct" or "proxy"
  op,         \* outstanding operation and its result, once it is queued
  timer,      \* _timer: "off", "running", "queued" (its handler is)
  conn,       \* _connection->is_open(): "closed" or "open"
  ec,         \* _ec
  response,   \* _response
  callback,   \* _callback: "null" or "set"
  told        \* what the callback was called with

vars == <<mode, pc, endpoint, via, op, timer, conn, ec, response, callback, told>>

Synch == mode = "sync"

Operation ==
  [kind: {"none", "connect", "proxy", "write", "read"},
   res: {"pending", "success", "failed", "aborted"}]
NoOp == [kind |-> "none", res |-> "pending"]
Issue(k) == [kind |-> k, res |-> "pending"]

TypeOK ==
  /\ mode \in {"sync", "async"}
  /\ pc \in {"new", "starting", "running", "returned"}
  /\ endpoint \in [ip: {"server", "proxy"}, port: {"server", "proxy"}]
  /\ via \in {"direct", "proxy"}
  /\ op \in Operation
  /\ timer \in {"off", "running", "queued"}
  /\ conn \in {"closed", "open"}
  /\ ec \in Error
  /\ response \in Response
  /\ callback \in {"null", "set"}
  /\ told \in Seq(Outcome)

Init ==
  /\ mode \in {"sync", "async"}
  /\ pc = "new"
  /\ endpoint = [ip |-> "server", port |-> "server"]
  /\ via = "direct"
  /\ op = NoOp
  /\ timer = "off"
  /\ conn = "closed"
  /\ ec = "success"
  /\ response = "null"
  /\ callback = "null"
  /\ told = <<>>

-----------------------------------------------------------------------------
(* Plausible mistakes, for the mutants: the callback is not reset, or it   *)
(* is called only if there is a response.                                  *)
TellAgain(r, e) == /\ told' = IF callback = "set" THEN Append(told, [resp |-> r, ec |-> e]) ELSE told
                   /\ UNCHANGED callback
TellIfResponse(r, e) ==
  /\ told' = IF callback = "set" /\ r # "null" THEN Append(told, [resp |-> r, ec |-> e]) ELSE told
  /\ callback' = "null"

(* stop(): the timer is destroyed, the connection closed; the operation    *)
(* that is still pending completes with operation_aborted.                 *)
StopTimer(t) == IF t = "running" THEN "off" ELSE t
Abort(o) == IF o.kind # "none" /\ o.res = "pending" THEN [o EXCEPT !.res = "aborted"] ELSE o

(* _callback(..., r, e); _callback = NULL; *)
Tell(r, e) == /\ told' = IF callback = "set" THEN Append(told, [resp |-> r, ec |-> e]) ELSE told
              /\ callback' = "null"

(* check_connection() after set_error(e): the client goes on with the      *)
(* operation next, or the exchange is over.  o, t: what is outstanding of  *)
(* operation and timer by now.                                             *)
CheckConnection(e, o, t, next) ==
  /\ ec' = e
  /\ IF e = "success" /\ conn = "open"
     THEN /\ op' = next
          /\ timer' = t
          /\ UNCHANGED <<conn, callback, told>>
     ELSE /\ Tell(response, e)
          /\ op' = Abort(o)
          /\ timer' = StopTimer(t)
          /\ conn' = "closed"

(* set_proxy(): a proxy whose name does not resolve has already replaced   *)
(* the port when the exception is swallowed.                               *)
SetProxy(p) ==
  \/ p = "none" /\ UNCHANGED <<endpoint, via>>
  \/ p = "resolved" /\ endpoint' = [ip |-> "proxy", port |-> "proxy"] /\ via' = "proxy"
  \/ p = "unknown" /\ endpoint' = [endpoint EXCEPT !.port = "proxy"] /\ UNCHANGED via

(* send() and async_send(), up to the start of the timer ... *)
Send(p) ==
  /\ pc = "new"
  /\ SetProxy(p)
  /\ pc' = "starting"
  /\ callback' = IF Synch THEN "null" ELSE "set"
  /\ timer' = "running"
  /\ UNCHANGED <<mode, op, conn, ec, response, told>>

(* ... and connect(), which opens the socket.  The threads of the          *)
(* io_service may run the handler of the timer in between.                 *)
Connect ==
  /\ pc = "starting"
  /\ pc' = "running"
  /\ op' = Issue("connect")
  /\ conn' = "open"
  /\ UNCHANGED <<mode, endpoint, via, timer, ec, response, callback, told>>

(* The pending operation completes and its handler is queued; the deadline *)
(* of the timer passes and its handler is queued.                          *)
Completes(r) ==
  /\ op.kind # "none" /\ op.res = "pending"
  /\ op' = [op EXCEPT !.res = r]
  /\ UNCHANGED <<mode, pc, endpoint, via, timer, conn, ec, response, callback, told>>

TimerExpires ==
  /\ timer = "running"
  /\ timer' = "queued"
  /\ UNCHANGED <<mode, pc, endpoint, via, op, conn, ec, response, callback, told>>

-----------------------------------------------------------------------------
(* The handlers.  Queued(k): the handler of operation k can run. *)
Queued(k) == op.kind = k /\ op.res # "pending"

ConnectHandle ==
  /\ Queued("connect")
  /\ CheckConnection(op.res, NoOp, timer, Issue(IF via = "proxy" THEN "proxy" ELSE "write"))
  /\ UNCHANGED <<mode, pc, endpoint, via, response>>

(* The answer of the proxy is whatever the read buffer holds, which is not *)
(* terminated: " 200 " is found or not.                                    *)
EndConnectProxy ==
  /\ Queued("proxy")
  /\ \E found \in BOOLEAN :
       CheckConnection(IF op.res = "success" /\ ~found THEN "host_unreachable" ELSE op.res,
                       NoOp, timer, Issue("write"))
  /\ UNCHANGED <<mode, pc, endpoint, via, response>>

ReadResponse ==
  /\ Queued("write")
  /\ CheckConnection(op.res, NoOp, timer, Issue("read"))
  /\ UNCHANGED <<mode, pc, endpoint, via, response>>

(* The reader hands over a response object in any case, incomplete when it *)
(* failed; the error goes to the callback and not to set_error().          *)
CheckResponse ==
  /\ Queued("read")
  /\ response' = IF op.res = "success" THEN "full" ELSE "part"
  /\ Tell(response', op.res)
  /\ op' = NoOp
  /\ timer' = StopTimer(timer)
  /\ conn' = "closed"
  /\ UNCHANGED <<mode, pc, endpoint, via, ec>>

TimeoutConnection ==
  /\ timer = "queued"
  /\ Synch => pc = "running"
  /\ CheckConnection("timed_out", op, "off", op)
  /\ UNCHANGED <<mode, pc, endpoint, via, response>>

(* send(): no handler is left to run. *)
Return ==
  /\ Synch
  /\ pc = "running"
  /\ op = NoOp /\ timer = "off"
  /\ pc' = "returned"
  /\ UNCHANGED <<mode, endpoint, via, op, timer, conn, ec, response, callback, told>>

Handler == ConnectHandle \/ EndConnectProxy \/ ReadResponse \/ CheckResponse

Next ==
  \/ \E p \in {"none", "resolved", "unknown"} : Send(p)
  \/ Connect
  \/ \E r \in {"success", "failed"} : Completes(r)
  \/ TimerExpires
  \/ ConnectHandle \/ EndConnectProxy \/ ReadResponse \/ CheckResponse
  \/ TimeoutConnection
  \/ Return

Spec == Init /\ [][Next]_vars

(* The calling thread and the io_service run; the timer expires.  The      *)
(* network owes nothing: an operation may never complete.                  *)
Fairness ==
  /\ WF_vars(Connect)
  /\ WF_vars(TimerExpires)
  /\ WF_vars(Handler)
  /\ WF_vars(TimeoutConnection)
  /\ WF_vars(Return)

FairSpec == Spec /\ Fairness

-----------------------------------------------------------------------------
Concluded == IF Synch THEN pc = "returned" ELSE told # <<>>

ExchangePhase == IF pc = "new" THEN "idle" ELSE IF Concluded THEN "closed" ELSE "open"
ExchangeOutcome ==
  IF ~Concluded THEN NoOutcome
  ELSE <<mode, IF Synch THEN [resp |-> response, ec |-> ec] ELSE told[Len(told)]>>

Exchange == INSTANCE HttpExchange
  WITH Outcomes <- ({"sync"} \X SyncOutcomes) \cup ({"async"} \X AsyncOutcomes),
       phase <- ExchangePhase, outcome <- ExchangeOutcome

(* The client implements an exchange: it is concluded once, whatever the   *)
(* order in which connection and timer call their handlers, and the        *)
(* callback hears of a success only together with a complete response.     *)
ExchangeSafe == Exchange!ExchangeSpec

(* ... and it is concluded, even if the network never answers.             *)
ExchangeLive == Exchange!ExchangeFairSpec
=============================================================================
