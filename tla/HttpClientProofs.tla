-------------------------- MODULE HttpClientProofs --------------------------
(***************************************************************************)
(* HttpClient implements HttpExchange, for both kinds of clients: whatever *)
(* the order in which the handlers of connection and timer are queued, the *)
(* exchange is concluded at most once, with one of the listed outcomes.    *)
(***************************************************************************)
EXTENDS HttpClient, TLAPS

(* Before connect() there is nothing to complete. *)
NotStarted ==
  /\ pc \in {"new", "starting"} => op = NoOp /\ response = "null"
  /\ pc = "new" => callback = "null" /\ told = <<>> /\ timer = "off"
  /\ pc = "returned" => op = NoOp /\ timer = "off"

(* The callback is set from async_send() until it is called. *)
ToldOnce ==
  /\ callback = "set" <=> ~Synch /\ pc # "new" /\ told = <<>>
  /\ told # <<>> => Len(told) = 1

(* While the callback is owed, nothing was closed or aborted; once the     *)
(* reader was started, only the timer changes the error code.              *)
Owed ==
  /\ callback = "set" => /\ response = "null"
                         /\ op.res # "aborted"
                         /\ op.kind # "none" => conn = "open"
  /\ op.kind = "none" => op = NoOp
  /\ response # "null" => op = NoOp /\ response \in {"part", "full"}
  /\ op.kind = "read" \/ response # "null" => ec \in {"success", "timed_out"}

ClientInv == TypeOK /\ NotStarted /\ ToldOnce /\ Owed

LEMMA InitClientInv == Init => ClientInv
<1>. SUFFICES ASSUME Init PROVE ClientInv
  OBVIOUS
<1>1. TypeOK
  BY DEF Init, TypeOK, NoOp, Operation, Error, Response
<1>2. NotStarted /\ Owed
  BY DEF Init, NotStarted, Owed, NoOp
<1>3. ToldOnce
  BY DEF Init, ToldOnce, Synch
<1>. QED BY <1>1, <1>2, <1>3 DEF ClientInv

(* What the two outcomes of Tell() do to the inductive invariant. *)
LEMMA TellKeeps ==
  ASSUME TypeOK, ToldOnce, NEW r \in Response, NEW e \in Error, Tell(r, e)
  PROVE  /\ told' \in Seq(Outcome)
         /\ callback' = "null"
         /\ told' # <<>> => Len(told') = 1
         /\ callback = "null" => told' = told
         /\ callback = "set" => told' = <<[resp |-> r, ec |-> e]>> /\ told' # <<>>
<1>1. [resp |-> r, ec |-> e] \in Outcome
  BY DEF Outcome
<1>2. CASE callback = "set"
  <2>1. told = <<>> /\ told' = Append(told, [resp |-> r, ec |-> e])
    BY <1>2 DEF Tell, ToldOnce
  <2>2. told' = <<[resp |-> r, ec |-> e]>>
    BY <2>1
  <2>3. Len(told') = 1 /\ told' \in Seq(Outcome) /\ told' # <<>>
    BY <1>1, <2>2
  <2>. QED BY <1>2, <2>2, <2>3 DEF Tell
<1>3. CASE callback = "null"
  BY <1>3 DEF Tell, ToldOnce, TypeOK
<1>4. callback \in {"null", "set"}
  BY DEF TypeOK
<1>. QED BY <1>2, <1>3, <1>4

LEMMA NextClientInv == ClientInv /\ [Next]_vars => ClientInv'
<1>. SUFFICES ASSUME ClientInv, [Next]_vars PROVE ClientInv'
  OBVIOUS
<1>. USE DEF ClientInv, Synch
<1>1. ASSUME NEW p \in {"none", "resolved", "unknown"}, Send(p) PROVE ClientInv'
  <2>1. endpoint' \in [ip: {"server", "proxy"}, port: {"server", "proxy"}] /\ via' \in {"direct", "proxy"}
    BY <1>1 DEF Send, SetProxy, TypeOK
  <2>2. TypeOK'
    BY <1>1, <2>1 DEF Send, TypeOK
  <2>3. NotStarted' /\ Owed'
    BY <1>1 DEF Send, NotStarted, Owed, NoOp
  <2>4. ToldOnce'
    BY <1>1 DEF Send, ToldOnce, NotStarted
  <2>. QED BY <2>2, <2>3, <2>4
<1>2. CASE Connect
  BY <1>2 DEF Connect, TypeOK, NotStarted, ToldOnce, Owed, NoOp, Issue, Operation
<1>3. ASSUME NEW r \in {"success", "failed"}, Completes(r) PROVE ClientInv'
  BY <1>3 DEF Completes, TypeOK, NotStarted, ToldOnce, Owed, NoOp, Operation
<1>4. CASE TimerExpires
  BY <1>4 DEF TimerExpires, TypeOK, NotStarted, ToldOnce, Owed
<1>5. ASSUME NEW e \in Error, NEW k \in {"proxy", "write", "read"},
             op.kind \in {"connect", "proxy", "write"}, op.res # "pending",
             op.res = "aborted" => e = "aborted",
             CheckConnection(e, NoOp, timer, Issue(k)),
             UNCHANGED <<mode, pc, endpoint, via, response>>
      PROVE  ClientInv'
  <2>1. pc = "running" /\ response = "null"
    BY <1>5 DEF NotStarted, TypeOK, NoOp, Owed
  <2>2. CASE e = "success" /\ conn = "open"
    BY <1>5, <2>1, <2>2
       DEF CheckConnection, TypeOK, NotStarted, ToldOnce, Owed, NoOp, Issue, Operation
  <2>3. CASE ~(e = "success" /\ conn = "open")
    <3>1. Tell(response, e) /\ op' = Abort(NoOp) /\ timer' = StopTimer(timer) /\ conn' = "closed" /\ ec' = e
      BY <1>5, <2>3 DEF CheckConnection
    <3>2. /\ told' \in Seq(Outcome) /\ callback' = "null"
          /\ told' # <<>> => Len(told') = 1
          /\ callback = "null" => told' = told
          /\ callback = "set" => told' = <<[resp |-> response, ec |-> e]>> /\ told' # <<>>
      BY <1>5, <3>1, TellKeeps DEF TypeOK
    <3>3. op' = NoOp /\ NoOp \in Operation /\ timer' \in {"off", "running", "queued"}
      BY <3>1 DEF Abort, NoOp, Operation, StopTimer, TypeOK
    <3>4. callback = "set" => told' # <<>>
      BY <3>2
    <3>5. TypeOK'
      BY <1>5, <3>1, <3>2, <3>3 DEF TypeOK
    <3>6. NotStarted'
      BY <1>5, <2>1, <3>3 DEF NotStarted
    <3>7. ToldOnce'
      <4>1. callback \in {"null", "set"} /\ pc' = "running"
        BY <1>5, <2>1 DEF TypeOK
      <4>2. ~Synch => told' # <<>>
        BY <2>1, <3>2, <3>4, <4>1 DEF ToldOnce
      <4>. QED BY <1>5, <3>2, <4>2 DEF ToldOnce
    <3>8. Owed'
      BY <1>5, <2>1, <3>2, <3>3 DEF Owed, NoOp
    <3>. QED BY <3>5, <3>6, <3>7, <3>8
  <2>. QED BY <2>2, <2>3
<1>6. CASE ConnectHandle
  <2>1. op.res \in Error /\ op.res # "pending"
    BY <1>6 DEF ConnectHandle, Queued, TypeOK, Operation, Error
  <2>. QED BY <1>5, <1>6, <2>1 DEF ConnectHandle, Queued
<1>7. CASE EndConnectProxy
  <2>1. op.res \in Error /\ op.res # "pending" /\ op.kind = "proxy"
    BY <1>7 DEF EndConnectProxy, Queued, TypeOK, Operation, Error
  <2>2. PICK found \in BOOLEAN :
          CheckConnection(IF op.res = "success" /\ ~found THEN "host_unreachable" ELSE op.res,
                          NoOp, timer, Issue("write"))
    BY <1>7 DEF EndConnectProxy
  <2>3. (IF op.res = "success" /\ ~found THEN "host_unreachable" ELSE op.res) \in Error
    BY <2>1 DEF Error
  <2>. QED BY <1>5, <1>7, <2>1, <2>2, <2>3 DEF EndConnectProxy
<1>8. CASE ReadResponse
  <2>1. op.res \in Error /\ op.res # "pending"
    BY <1>8 DEF ReadResponse, Queued, TypeOK, Operation, Error
  <2>. QED BY <1>5, <1>8, <2>1 DEF ReadResponse, Queued
<1>9. CASE CheckResponse
  <2>1. op.res \in Error /\ op.kind = "read" /\ pc = "running" /\ response' \in {"part", "full"}
    BY <1>9 DEF CheckResponse, Queued, TypeOK, Operation, Error, NotStarted, NoOp
  <2>2. /\ told' \in Seq(Outcome) /\ callback' = "null"
        /\ told' # <<>> => Len(told') = 1
        /\ callback = "null" => told' = told
        /\ callback = "set" => told' = <<[resp |-> response', ec |-> op.res]>> /\ told' # <<>>
    BY <1>9, <2>1, TellKeeps DEF CheckResponse, Response
  <2>3. callback = "set" => told' # <<>>
    BY <2>2
  <2>4. op' = NoOp /\ NoOp \in Operation /\ timer' \in {"off", "running", "queued"}
    BY <1>9 DEF CheckResponse, NoOp, Operation, StopTimer, TypeOK
  <2>5. TypeOK'
    BY <1>9, <2>1, <2>2, <2>4 DEF CheckResponse, TypeOK, Response
  <2>6. NotStarted'
    BY <1>9, <2>1, <2>4 DEF CheckResponse, NotStarted
  <2>8. ToldOnce'
    <3>1. callback \in {"null", "set"} /\ pc' = "running"
      BY <1>9, <2>1 DEF TypeOK, CheckResponse
    <3>2. ~Synch => told' # <<>>
      BY <2>1, <2>2, <2>3, <3>1 DEF ToldOnce
    <3>. QED BY <1>9, <2>2, <3>2 DEF ToldOnce, CheckResponse
  <2>7. Owed'
    BY <1>9, <2>1, <2>2, <2>4 DEF CheckResponse, Owed, NoOp
  <2>. QED BY <2>5, <2>6, <2>7, <2>8
<1>10. CASE TimeoutConnection
  <2>1. /\ Tell(response, "timed_out") /\ op' = Abort(op) /\ conn' = "closed"
        /\ timer' = "off" /\ ec' = "timed_out" /\ UNCHANGED <<mode, pc, endpoint, via, response>>
    BY <1>10 DEF TimeoutConnection, CheckConnection, StopTimer
  <2>2. /\ told' \in Seq(Outcome) /\ callback' = "null"
        /\ told' # <<>> => Len(told') = 1
        /\ callback = "null" => told' = told
        /\ callback = "set" => told' = <<[resp |-> response, ec |-> "timed_out"]>> /\ told' # <<>>
    BY <2>1, TellKeeps DEF TypeOK, Error
  <2>3. callback = "set" => told' # <<>>
    BY <2>2
  <2>4. op' \in Operation /\ op'.kind = op.kind /\ (op = NoOp => op' = NoOp)
    BY <2>1 DEF Abort, NoOp, Operation, TypeOK
  <2>5. TypeOK'
    BY <2>1, <2>2, <2>4 DEF TypeOK, Error
  <2>6. NotStarted'
    BY <1>10, <2>1, <2>4 DEF NotStarted, TimeoutConnection
  <2>7. ToldOnce'
    <3>1. callback \in {"null", "set"} /\ pc # "new"
      BY <1>10 DEF TypeOK, NotStarted, TimeoutConnection
    <3>2. ~Synch => told' # <<>>
      BY <2>2, <2>3, <3>1 DEF ToldOnce
    <3>. QED BY <2>1, <2>2, <3>2 DEF ToldOnce
  <2>8. Owed'
    BY <2>1, <2>2, <2>4 DEF Owed, NoOp
  <2>. QED BY <2>5, <2>6, <2>7, <2>8
<1>11. CASE Return
  BY <1>11 DEF Return, TypeOK, NotStarted, ToldOnce, Owed
<1>12. CASE UNCHANGED vars
  BY <1>12 DEF vars, TypeOK, NotStarted, ToldOnce, Owed
<1>. QED
  BY <1>1, <1>2, <1>3, <1>4, <1>6, <1>7, <1>8, <1>9, <1>10, <1>11, <1>12 DEF Next

(* The invariant holds of every exchange. *)
THEOREM ClientInvariant == Spec => []ClientInv
  BY InitClientInv, NextClientInv, PTL DEF Spec

-----------------------------------------------------------------------------
(* A client stays what it is. *)
LEMMA ModeStays == [Next]_vars => UNCHANGED mode
  BY DEF Next, vars, Send, Connect, Completes, TimerExpires, ConnectHandle, EndConnectProxy,
         ReadResponse, CheckResponse, TimeoutConnection, Return

(* A step either leaves the mapped state alone, opens the exchange or      *)
(* closes it.                                                              *)
LEMMA QuietStep ==
  ASSUME ClientInv, UNCHANGED <<mode, pc, told>>, Synch => pc # "returned"
  PROVE  UNCHANGED <<ExchangePhase, ExchangeOutcome>>
<1>1. UNCHANGED <<Concluded, Synch>>
  BY DEF Concluded, Synch
<1>2. Concluded => ~Synch
  BY DEF Concluded
<1>. QED BY <1>1, <1>2 DEF ExchangePhase, ExchangeOutcome

(* The callback is called, or nobody is waiting for it. *)
LEMMA TellStep ==
  ASSUME ClientInv, NEW r \in Response, NEW e \in Error, Tell(r, e),
         pc # "new", pc # "returned", UNCHANGED <<mode, pc>>,
         callback = "set" => [resp |-> r, ec |-> e] \in AsyncOutcomes
  PROVE  [Exchange!ExchangeNext]_<<ExchangePhase, ExchangeOutcome>>
<1>0. callback \in {"null", "set"}
  BY DEF ClientInv, TypeOK
<1>1. CASE callback = "null"
  <2>1. told' = told
    BY <1>1, TellKeeps DEF ClientInv
  <2>. QED BY <2>1, QuietStep
<1>2. CASE callback = "set"
  <2>1. ~Synch /\ ~Synch' /\ mode' = "async" /\ told = <<>>
    BY <1>2 DEF ClientInv, ToldOnce, Synch, TypeOK
  <2>2. told' = <<[resp |-> r, ec |-> e]>> /\ told' # <<>>
    BY <1>2, TellKeeps DEF ClientInv
  <2>3. ExchangePhase = "open" /\ ExchangePhase' = "closed"
    BY <2>1, <2>2 DEF ExchangePhase, Concluded, Synch
  <2>4. ExchangeOutcome' = <<"async", [resp |-> r, ec |-> e]>>
    BY <2>1, <2>2 DEF ExchangeOutcome, Concluded
  <2>. QED BY <1>2, <2>1, <2>3, <2>4 DEF Exchange!ExchangeNext, Exchange!Conclude
<1>. QED BY <1>0, <1>1, <1>2

LEMMA NextMaps ==
  ASSUME ClientInv, [Next]_vars
  PROVE  [Exchange!ExchangeNext]_<<ExchangePhase, ExchangeOutcome>>
<1>0. mode' = mode /\ (Synch' <=> Synch)
  BY ModeStays DEF Synch
<1>1. ASSUME NEW p \in {"none", "resolved", "unknown"}, Send(p)
      PROVE  Exchange!Begin
  <2>1. told = <<>> /\ told' = <<>> /\ pc = "new" /\ pc' = "starting"
    BY <1>1 DEF Send, ClientInv, NotStarted
  <2>2. ~Concluded /\ ~Concluded'
    BY <1>0, <2>1 DEF Concluded
  <2>. QED BY <2>1, <2>2 DEF Exchange!Begin, ExchangePhase, ExchangeOutcome
<1>2. CASE Connect
  <2>1. told' = told /\ Concluded' = Concluded /\ (~Concluded \/ ~Synch)
    BY <1>0, <1>2 DEF Connect, Concluded
  <2>2. pc = "starting" /\ pc' = "running"
    BY <1>2 DEF Connect
  <2>. QED BY <1>0, <2>1, <2>2 DEF ExchangePhase, ExchangeOutcome
<1>3. ASSUME NEW r \in {"success", "failed"}, Completes(r)
      PROVE  UNCHANGED <<ExchangePhase, ExchangeOutcome>>
  <2>1. pc # "returned"
    BY <1>3 DEF Completes, ClientInv, NotStarted, NoOp
  <2>. QED BY <1>0, <1>3, <2>1, QuietStep DEF Completes
<1>4. CASE TimerExpires
  <2>1. pc # "returned"
    BY <1>4 DEF TimerExpires, ClientInv, NotStarted
  <2>. QED BY <1>0, <1>4, <2>1, QuietStep DEF TimerExpires
<1>5. ASSUME NEW e \in Error, NEW o, NEW t, NEW next,
             pc # "new", pc # "returned", UNCHANGED pc,
             callback = "set" /\ ~(e = "success" /\ conn = "open")
               => [resp |-> response, ec |-> e] \in AsyncOutcomes,
             CheckConnection(e, o, t, next)
      PROVE  [Exchange!ExchangeNext]_<<ExchangePhase, ExchangeOutcome>>
  <2>1. CASE e = "success" /\ conn = "open"
    BY <1>0, <1>5, <2>1, QuietStep DEF CheckConnection
  <2>2. CASE ~(e = "success" /\ conn = "open")
    <3>1. Tell(response, e) /\ response \in Response
      BY <1>5, <2>2 DEF CheckConnection, ClientInv, TypeOK
    <3>. QED BY <1>0, <1>5, <2>2, <3>1, TellStep
  <2>. QED BY <2>1, <2>2
<1>6. ASSUME op.kind # "none", op.res # "pending"
      PROVE  /\ pc # "new" /\ pc # "returned" /\ op.res \in {"success", "failed", "aborted"}
             /\ callback = "set" => conn = "open" /\ response = "null" /\ op.res # "aborted"
  BY <1>6 DEF ClientInv, TypeOK, Operation, NotStarted, Owed, NoOp
<1>7. CASE ConnectHandle
  <2>1. op.kind # "none" /\ op.res # "pending" /\ UNCHANGED pc
    BY <1>7 DEF ConnectHandle, Queued
  <2>2. callback = "set" /\ ~(op.res = "success" /\ conn = "open")
          => [resp |-> response, ec |-> op.res] \in AsyncOutcomes
    BY <1>6, <2>1 DEF AsyncOutcomes
  <2>3. op.res \in Error
    BY <1>6, <2>1 DEF Error
  <2>. QED BY <1>5, <1>6, <1>7, <2>1, <2>2, <2>3 DEF ConnectHandle
<1>8. CASE EndConnectProxy
  <2>1. op.kind # "none" /\ op.res # "pending" /\ UNCHANGED pc
    BY <1>8 DEF EndConnectProxy, Queued
  <2>2. PICK found \in BOOLEAN :
          CheckConnection(IF op.res = "success" /\ ~found THEN "host_unreachable" ELSE op.res,
                          NoOp, timer, Issue("write"))
    BY <1>8 DEF EndConnectProxy
  <2>. DEFINE e == IF op.res = "success" /\ ~found THEN "host_unreachable" ELSE op.res
  <2>3. e \in Error
    BY <1>6, <2>1 DEF Error
  <2>4. callback = "set" /\ ~(e = "success" /\ conn = "open")
          => [resp |-> response, ec |-> e] \in AsyncOutcomes
    BY <1>6, <2>1 DEF AsyncOutcomes
  <2>. QED BY <1>5, <1>6, <2>1, <2>2, <2>3, <2>4
<1>9. CASE ReadResponse
  <2>1. op.kind # "none" /\ op.res # "pending" /\ UNCHANGED pc
    BY <1>9 DEF ReadResponse, Queued
  <2>2. callback = "set" /\ ~(op.res = "success" /\ conn = "open")
          => [resp |-> response, ec |-> op.res] \in AsyncOutcomes
    BY <1>6, <2>1 DEF AsyncOutcomes
  <2>3. op.res \in Error
    BY <1>6, <2>1 DEF Error
  <2>. QED BY <1>5, <1>6, <1>9, <2>1, <2>2, <2>3 DEF ReadResponse
<1>10. CASE CheckResponse
  <2>1. op.kind # "none" /\ op.res # "pending" /\ UNCHANGED pc
    BY <1>10 DEF CheckResponse, Queued
  <2>2. /\ Tell(response', op.res) /\ response' \in Response /\ op.res \in Error
        /\ response' = IF op.res = "success" THEN "full" ELSE "part"
    BY <1>6, <1>10, <2>1 DEF CheckResponse, Response, Error
  <2>3. callback = "set" => [resp |-> response', ec |-> op.res] \in AsyncOutcomes
    BY <1>6, <2>1, <2>2 DEF AsyncOutcomes
  <2>. QED BY <1>0, <1>6, <2>1, <2>2, <2>3, TellStep
<1>11. CASE TimeoutConnection
  <2>1. pc # "new" /\ pc # "returned" /\ UNCHANGED pc
    BY <1>11 DEF TimeoutConnection, ClientInv, NotStarted
  <2>2. callback = "set" => [resp |-> response, ec |-> "timed_out"] \in AsyncOutcomes
    BY DEF AsyncOutcomes, ClientInv, Owed
  <2>. QED BY <1>5, <1>11, <2>1, <2>2 DEF TimeoutConnection, Error
<1>12. CASE Return
  <2>1. Synch /\ pc = "running" /\ pc' = "returned" /\ UNCHANGED <<response, ec>>
    BY <1>12 DEF Return
  <2>2. [resp |-> response, ec |-> ec] \in SyncOutcomes
    BY DEF ClientInv, TypeOK, Owed, SyncOutcomes, Error, Response
  <2>3. ~Concluded /\ Concluded'
    BY <1>0, <2>1 DEF Concluded
  <2>4. ExchangePhase = "open" /\ ExchangePhase' = "closed"
    BY <2>1, <2>3 DEF ExchangePhase
  <2>5. ExchangeOutcome' = <<"sync", [resp |-> response, ec |-> ec]>>
    BY <1>0, <2>1, <2>3 DEF ExchangeOutcome, Synch
  <2>. QED BY <2>2, <2>4, <2>5 DEF Exchange!ExchangeNext, Exchange!Conclude
<1>13. CASE UNCHANGED vars
  BY <1>13 DEF vars, ExchangePhase, ExchangeOutcome, Concluded, Synch
<1>. QED
  BY <1>1, <1>2, <1>3, <1>4, <1>7, <1>8, <1>9, <1>10, <1>11, <1>12, <1>13
     DEF Next, Exchange!ExchangeNext

(* Every behaviour of a client, synchronous or not, is an exchange: the    *)
(* handlers of connection and timer conclude it at most once, with one of  *)
(* the listed outcomes, and never after that change what was reported.     *)
THEOREM ClientExchange == Spec => ExchangeSafe
<1>1. Init => Exchange!ExchangeInit
  BY DEF Init, Exchange!ExchangeInit, ExchangePhase, ExchangeOutcome, Concluded, Synch
<1>2. ClientInv /\ [Next]_vars => [Exchange!ExchangeNext]_<<ExchangePhase, ExchangeOutcome>>
  BY NextMaps
<1>. QED BY <1>1, <1>2, ClientInvariant, PTL DEF Spec, ExchangeSafe, Exchange!ExchangeSpec

=============================================================================
