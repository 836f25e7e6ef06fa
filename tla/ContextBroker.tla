---------------------------- MODULE ContextBroker ---------------------------
(***************************************************************************)
(* iota::ContextBrokerCommunicator (rest/iot_cb_comm.cc): sends to the     *)
(* Context Broker, each with a communicator of its own.  A service that    *)
(* has a trust token first exchanges it, through iota::OAuth               *)
(* (util/oauth_comm.cc), for an access token of the identity manager; a    *)
(* 401 of the Context Broker is retried once.  All sends share the table   *)
(* of active alarms (util/alarm.cc).                                       *)
(*                                                                         *)
(* A request is an exchange of HttpExchange.  Its conclusion and the       *)
(* handler that processes it are two steps: handlers of several sends run  *)
(* on several threads, in any order.                                       *)
(***************************************************************************)
EXTENDS HttpOutcome, Naturals, Sequences

CONSTANTS
  Sends, Urls,
  Url,          \* [Sends -> Urls]
  Kind,         \* [Sends -> {"sync", "async"}]
  ServiceToken, \* [Sends -> {"none", "trust"}]: additional_info's token
  TrustUrl      \* oauth.on_behalf_trust_url: "none" or "set"

ASSUME SendsAssumption ==
  /\ Url \in [Sends -> Urls]
  /\ Kind \in [Sends -> {"sync", "async"}]
  /\ ServiceToken \in [Sends -> {"none", "trust"}]
  /\ TrustUrl \in {"none", "set"}

Token == {"none", "trust", "access"}
Code == {"ok", "unauthorized", "bad_gateway"}

VARIABLES
  pc,
  token,     \* token in additional_info
  tries,     \* number_of_tries
  asked,     \* trust ids presented to the identity manager
  requests,  \* tokens of the requests sent to the Context Broker
  answer,    \* outcome of the latest request, with its status code
  told,      \* what the caller got: callbacks, or the end of send()
  alarms     \* URLs with an active ALARM_CODE_NO_CB

vars == <<pc, token, tries, asked, requests, answer, told, alarms>>

NoAnswer == [resp |-> "null", ec |-> "success", code |-> "ok"]
Answer == [resp: Response, ec: Error, code: Code]

TypeOK ==
  /\ pc \in [Sends -> {"idle", "renew", "request", "sent", "answered", "done"}]
  /\ token \in [Sends -> Token]
  /\ tries \in [Sends -> 0..1]
  /\ asked \in [Sends -> Seq(Token)]
  /\ requests \in [Sends -> Seq(Token)]
  /\ answer \in [Sends -> Answer]
  /\ told \in [Sends -> Seq(Code \cup {"error", "empty"})]
  /\ alarms \subseteq Urls

Init ==
  /\ pc = [s \in Sends |-> "idle"]
  /\ token = ServiceToken
  /\ tries = [s \in Sends |-> 0]
  /\ asked = [s \in Sends |-> <<>>]
  /\ requests = [s \in Sends |-> <<>>]
  /\ answer = [s \in Sends |-> NoAnswer]
  /\ told = [s \in Sends |-> <<>>]
  /\ alarms = {}

-----------------------------------------------------------------------------
RaiseNot(s) == UNCHANGED alarms

(* Alarm::error() and Alarm::info(). *)
Raise(s) == alarms' = alarms \cup {Url[s]}
End(s) == alarms' = alarms \ {Url[s]}

Inform(s, m) == told' = [told EXCEPT ![s] = Append(@, m)]

(* The attempt goes to the identity manager first, or not. *)
Attempt(s) == IF token[s] # "none" /\ TrustUrl = "set" THEN "renew" ELSE "request"

(* async_send() and send() are called. *)
Begin(s) ==
  /\ pc[s] = "idle"
  /\ pc' = [pc EXCEPT ![s] = Attempt(s)]
  /\ UNCHANGED <<token, tries, asked, requests, answer, told, alarms>>

(* Plausible mistakes, for the mutants. *)
GetTokenIfGranted(s) ==
  /\ pc[s] = "renew"
  /\ asked' = [asked EXCEPT ![s] = Append(@, token[s])]
  /\ \E t \in {"access", token[s]} : token' = [token EXCEPT ![s] = t]
  /\ pc' = [pc EXCEPT ![s] = "request"]
  /\ UNCHANGED <<tries, requests, answer, told, alarms>>
RetryUncounted(s) == pc' = [pc EXCEPT ![s] = Attempt(s)] /\ UNCHANGED tries
RetryDropped(s) == pc' = [pc EXCEPT ![s] = "idle"] /\ tries' = [tries EXCEPT ![s] = 1]

(* set_trust_token(), set_identity(), get_token(): an OAuth object has no  *)
(* token yet, so that it always asks.  The answer is judged by response    *)
(* and status alone, whatever the error code; without a token the request  *)
(* goes on without one.                                                    *)
GetToken(s) ==
  /\ pc[s] = "renew"
  /\ asked' = [asked EXCEPT ![s] = Append(@, token[s])]
  /\ \E t \in {"access", "none"} : token' = [token EXCEPT ![s] = t]
  /\ pc' = [pc EXCEPT ![s] = "request"]
  /\ UNCHANGED <<tries, requests, answer, told, alarms>>

(* create_request() and the start of the HttpClient. *)
SendRequest(s) ==
  /\ pc[s] = "request"
  /\ requests' = [requests EXCEPT ![s] = Append(@, token[s])]
  /\ pc' = [pc EXCEPT ![s] = "sent"]
  /\ UNCHANGED <<token, tries, asked, answer, told, alarms>>

(* The constructor of an HttpClient throws when the host, of the identity  *)
(* manager or of the Context Broker, does not resolve: the catch block.    *)
(* send() returns an empty string, the callback of async_send() is         *)
(* forgotten.                                                              *)
Unresolved(s) ==
  /\ pc[s] \in {"renew", "request"}
  /\ Raise(s)
  /\ IF Kind[s] = "sync" THEN Inform(s, "empty") ELSE UNCHANGED told
  /\ pc' = [pc EXCEPT ![s] = "done"]
  /\ UNCHANGED <<token, tries, asked, requests, answer>>

(* The exchange concludes, as HttpClient promises: the Context Broker did  *)
(* answer, or a proxy said that it cannot be reached, or neither.          *)
Concludes(s, o, c) ==
  /\ pc[s] = "sent"
  /\ o \in IF Kind[s] = "sync" THEN SyncOutcomes ELSE AsyncOutcomes
  /\ o.resp = "null" => c = "ok"
  /\ answer' = [answer EXCEPT ![s] = [resp |-> o.resp, ec |-> o.ec, code |-> c]]
  /\ pc' = [pc EXCEPT ![s] = "answered"]
  /\ UNCHANGED <<token, tries, asked, requests, told, alarms>>

-----------------------------------------------------------------------------
Good(a) == a.ec = "success" /\ a.resp # "null"

Retry(s) == /\ tries' = [tries EXCEPT ![s] = 1]
            /\ pc' = [pc EXCEPT ![s] = Attempt(s)]

(* receive_event(): the callback of the asynchronous client. *)
ReceiveEvent(s) ==
  /\ Kind[s] = "async"
  /\ pc[s] = "answered"
  /\ LET a == answer[s] IN
     \/ /\ Good(a) /\ a.code = "unauthorized" /\ tries[s] < 1
        /\ Retry(s)
        /\ UNCHANGED <<told, alarms>>
     \/ /\ Good(a) /\ a.code = "bad_gateway"
        /\ Raise(s)
        /\ pc' = [pc EXCEPT ![s] = "done"]
        /\ UNCHANGED <<tries, told>>
     \/ /\ Good(a) /\ a.code # "bad_gateway" /\ ~(a.code = "unauthorized" /\ tries[s] < 1)
        /\ End(s)
        /\ Inform(s, a.code)
        /\ pc' = [pc EXCEPT ![s] = "done"]
        /\ UNCHANGED tries
     \/ /\ ~Good(a)
        /\ Inform(s, "error")
        /\ Raise(s)
        /\ pc' = [pc EXCEPT ![s] = "done"]
        /\ UNCHANGED tries
  /\ UNCHANGED <<token, asked, requests, answer>>

(* process_response() and the rest of send(), whose retry does not depend  *)
(* on the error code.                                                      *)
ProcessResponse(s) ==
  /\ Kind[s] = "sync"
  /\ pc[s] = "answered"
  /\ LET a == answer[s]
         again == /\ a.resp # "null" /\ a.code = "unauthorized" /\ tries[s] < 1
                  /\ ServiceToken[s] # "none" /\ TrustUrl = "set"
     IN  /\ IF Good(a) THEN End(s) ELSE Raise(s)
         /\ \/ again /\ Retry(s) /\ UNCHANGED told
            \/ /\ ~again
               /\ Inform(s, IF Good(a) THEN a.code ELSE "empty")
               /\ pc' = [pc EXCEPT ![s] = "done"]
               /\ UNCHANGED tries
  /\ UNCHANGED <<token, asked, requests, answer>>

Next ==
  \E s \in Sends :
    \/ Begin(s) \/ GetToken(s) \/ SendRequest(s) \/ Unresolved(s)
    \/ \E o \in Outcome, c \in Code : Concludes(s, o, c)
    \/ ReceiveEvent(s) \/ ProcessResponse(s)

Spec == Init /\ [][Next]_vars

(* Threads run, and an HttpClient concludes its exchange (ExchangeLive);   *)
(* whether a send is begun at all is up to the devices and users.          *)
Fairness ==
  \A s \in Sends : WF_vars(GetToken(s) \/ SendRequest(s) \/ Unresolved(s)
    \/ (\E o \in Outcome, c \in Code : Concludes(s, o, c))
    \/ ReceiveEvent(s) \/ ProcessResponse(s))

FairSpec == Spec /\ Fairness

-----------------------------------------------------------------------------
(* The trust token of a service is a credential for the identity manager:  *)
(* where one is configured, no request carries it to the Context Broker,   *)
(* not even if no access token was granted and on no retry.                *)
TrustPrivate ==
  TrustUrl = "set" => \A s \in Sends : \A i \in 1..Len(requests[s]) : requests[s][i] # "trust"

(* A send makes at most two requests, and the second only in answer to a   *)
(* 401 and before its caller was told anything.                            *)
RetryDiscipline ==
  [][\A s \in Sends :
       requests'[s] # requests[s] =>
         \/ requests[s] = <<>>
         \/ Len(requests[s]) = 1 /\ answer[s].code = "unauthorized" /\ told[s] = <<>>]_vars

(* The caller of a send is told once, by the last step of the send, unless *)
(* an alarm is active that says why not.                                   *)
CallerTold ==
  [][\A s \in Sends :
       /\ told'[s] # told[s] => told[s] = <<>> /\ pc'[s] = "done"
       /\ pc'[s] = "done" /\ pc[s] # "done" => told'[s] # <<>> \/ Url[s] \in alarms'
       /\ pc[s] = "done" => pc'[s] = "done"]_vars

(* Every send that is begun ends. *)
SendsEnd == \A s \in Sends : pc[s] # "idle" ~> pc[s] = "done"

=============================================================================
