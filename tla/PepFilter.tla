----------------------------- MODULE PepFilter ------------------------------
(***************************************************************************)
(* The filters a REST request passes before its handler                    *)
(* (rest/rest_handle.cc, rest/http_filter.h): OAuthFilter, the policy      *)
(* enforcement point (rest/oauth_filter.cc with the asynchronous side of   *)
(* util/oauth_comm.cc and util/access_control.cc), and MediaFilter         *)
(* (rest/media_filter.cc).                                                 *)
(*                                                                         *)
(* The filter objects are shared by all requests; each keeps a table of    *)
(* what to do with the verdict about a request, by the id of the request   *)
(* (HEADER_TRACE_MESSAGES, a new uuid).  Every step below is one handler   *)
(* posted to an io_service or one answer of an HttpClient, whose exchanges *)
(* conclude as in HttpExchange; what the services answer is their choice.  *)
(***************************************************************************)
EXTENDS Naturals, Sequences

CONSTANTS
  Requests,
  Filters,   \* _pre_filters: sequence over {"oauth", "media"}
  Shapes     \* the shapes of requests that arrive

Shape == [uri: {"about", "other"},          \* about and protocols are exempt
          headers: {"complete", "missing"}, \* service, token
          path: {"root", "sub"},            \* service path "/" or a subservice
          verb: {"known", "unknown"}]       \* has an action or not

ASSUME PepAssumption ==
  /\ Filters \in Seq({"oauth", "media"})
  /\ Shapes \subseteq Shape

Status == {"none", "ok", "unauthorized", "forbidden", "bad_media"}
Scope == {"service", "subservice", "elsewhere"}   \* of a role assignment
RolesAnswer ==   \* nothing or a JSON document with the scopes of role assignments
  {{}} \cup {{"json"} \cup scopes : scopes \in SUBSET Scope}
Exchanging == {"token", "user", "projects", "roles", "access"}

VARIABLES
  pc,          \* "new", "posted", an exchange, "verdict", "handled", "refused", "lost"
  req,         \* shape of the request
  filter,      \* num_filter of the filter that works on it
  callbacks,   \* by filter: the requests whose verdict is awaited
  status,      \* status the posted call_to_callback carries
  user,        \* _user_id: "" or "user"
  subservice,  \* _subservice_id: "" or "id"
  roles,       \* _user_roles: nothing or an answer with role assignments
  facts,       \* what the filters and services have established
  alarm        \* ALARM_CODE_BAD_CONFIGURATION of the identity manager: "off" or "on"

vars == <<pc, req, filter, callbacks, status, user, subservice, roles, facts, alarm>>
oauthVars == <<user, subservice, roles>>

Fact == {"valid", "permit", "media"}

TypeOK ==
  /\ pc \in [Requests -> {"new", "posted", "verdict", "handled", "refused", "lost"} \cup Exchanging]
  /\ req \in [Requests -> Shape]
  /\ filter \in [Requests -> Nat]
  /\ \A q \in Requests : pc[q] # "new" /\ Filters # <<>> => filter[q] \in DOMAIN Filters
  /\ callbacks \in [DOMAIN Filters -> SUBSET Requests]
  /\ status \in [Requests -> Status]
  /\ user \in [Requests -> {"", "user"}]
  /\ subservice \in [Requests -> {"", "id"}]
  /\ roles \in [Requests -> RolesAnswer]
  /\ facts \in [Requests -> SUBSET Fact]
  /\ alarm \in {"off", "on"}

Init ==
  /\ pc = [q \in Requests |-> "new"]
  /\ req \in [Requests -> Shapes]
  /\ filter = [q \in Requests |-> 0]
  /\ callbacks = [n \in DOMAIN Filters |-> {}]
  /\ status = [q \in Requests |-> "none"]
  /\ user = [q \in Requests |-> ""]
  /\ subservice = [q \in Requests |-> ""]
  /\ roles = [q \in Requests |-> {}]
  /\ facts = [q \in Requests |-> {}]
  /\ alarm = "off"

-----------------------------------------------------------------------------
(* execute_filters(): set_async_filter() enters what to do with the        *)
(* verdict (the next filter or, of the last one, the end of the filters)   *)
(* and the work of the filter is posted.                                   *)
ExecuteFilter(q, n, table) ==
  /\ filter' = [filter EXCEPT ![q] = n]
  /\ callbacks' = [table EXCEPT ![n] = @ \cup {q}]
  /\ pc' = [pc EXCEPT ![q] = "posted"]

(* operator(): the request arrives. *)
Arrives(q) ==
  /\ pc[q] = "new"
  /\ IF Filters # <<>> THEN ExecuteFilter(q, 1, callbacks)
     ELSE pc' = [pc EXCEPT ![q] = "handled"] /\ UNCHANGED <<filter, callbacks>>
  /\ UNCHANGED <<req, status, oauthVars, facts, alarm>>

(* call_to_callback is posted with a status. *)
Verdict(q, s) == /\ status' = [status EXCEPT ![q] = s]
                 /\ pc' = [pc EXCEPT ![q] = "verdict"]

(* MediaFilter::handle_request(): headers, forbidden characters, media     *)
(* types.                                                                  *)
MediaRequest(q, good) ==
  /\ pc[q] = "posted" /\ Filters[filter[q]] = "media"
  /\ Verdict(q, IF good THEN "ok" ELSE "bad_media")
  /\ facts' = [facts EXCEPT ![q] = IF good THEN @ \cup {"media"} ELSE @]
  /\ UNCHANGED <<req, filter, callbacks, oauthVars, alarm>>

(* OAuthFilter::handle_request(): a token for the PEP is asked for, unless *)
(* the request is exempt or lacks a header.                                *)
OAuthRequest(q) ==
  /\ pc[q] = "posted" /\ Filters[filter[q]] = "oauth"
  /\ \/ req[q].uri = "about" /\ Verdict(q, "ok")
     \/ req[q].uri # "about" /\ req[q].headers = "missing" /\ Verdict(q, "unauthorized")
     \/ /\ req[q].uri # "about" /\ req[q].headers = "complete"
        /\ pc' = [pc EXCEPT ![q] = "token"] /\ UNCHANGED status
  /\ UNCHANGED <<req, filter, callbacks, oauthVars, facts, alarm>>

-----------------------------------------------------------------------------
(* OAuthFilter::authorize(): the roles that count for the request, and the *)
(* question to access control.  A role without a project has the empty     *)
(* project id.                                                             *)
SubserviceRoles(path, sub, rs) ==
  IF path = "root" THEN rs \cap {"service"}
  ELSE IF sub # "" THEN rs \cap {"subservice"} ELSE rs \cap {"service"}

Authorize(q) ==
  IF user'[q] = "" \/ roles'[q] = {} \/ req[q].verb = "unknown"
  THEN Verdict(q, "unauthorized")
  ELSE pc' = [pc EXCEPT ![q] = "access"] /\ UNCHANGED status

(* Plausible mistakes, for the mutants. *)
GetUserAnyDomain(q, got, sameDomain) ==
  /\ pc[q] = "user"
  /\ user' = [user EXCEPT ![q] = IF got THEN "user" ELSE ""]
  /\ facts' = [facts EXCEPT ![q] = IF got /\ sameDomain THEN @ \cup {"valid"} ELSE @]
  /\ UNCHANGED <<roles, subservice>>
  /\ IF user'[q] = "" THEN Authorize(q) ELSE pc' = [pc EXCEPT ![q] = "projects"] /\ UNCHANGED status
  /\ UNCHANGED <<req, filter, callbacks, alarm>>
TakeNot(q, n) == callbacks
TakeAll(q, n) == [callbacks EXCEPT ![n] = {}]

(* receive_event_renew_token() *)
RenewToken(q, granted) ==
  /\ pc[q] = "token"
  /\ UNCHANGED <<oauthVars, facts>>
  /\ alarm' = IF granted THEN alarm ELSE "on"
  /\ IF granted THEN pc' = [pc EXCEPT ![q] = "user"] /\ UNCHANGED status ELSE Authorize(q)
  /\ UNCHANGED <<req, filter, callbacks>>

(* receive_event_get_user(): a user of the service the request is for. *)
GetUser(q, got, sameDomain) ==
  /\ pc[q] = "user"
  /\ user' = [user EXCEPT ![q] = IF got /\ sameDomain THEN "user" ELSE ""]
  /\ facts' = [facts EXCEPT ![q] = IF got /\ sameDomain THEN @ \cup {"valid"} ELSE @]
  /\ UNCHANGED <<roles, subservice>>
  /\ IF user'[q] = "" THEN Authorize(q) ELSE pc' = [pc EXCEPT ![q] = "projects"] /\ UNCHANGED status
  /\ UNCHANGED <<req, filter, callbacks, alarm>>

(* receive_event_get_subservice(): code is the status of the response,     *)
(* bad_request if there is none, and projects what its list says of the    *)
(* subservice.                                                             *)
GetSubservice(q, code, projects) ==
  /\ pc[q] = "projects"
  /\ subservice' = [subservice EXCEPT ![q] =
       IF code = "ok" /\ req[q].path = "sub" /\ projects = "listed" THEN "id" ELSE ""]
  /\ UNCHANGED <<user, roles, facts>>
  /\ IF code = "bad_request" \/ (code = "ok" /\ req[q].path = "sub" /\ projects = "others")
     THEN Authorize(q)
     ELSE pc' = [pc EXCEPT ![q] = "roles"] /\ UNCHANGED status
  /\ UNCHANGED <<req, filter, callbacks, alarm>>

(* receive_event_get_user_roles(), whatever the status of the response. *)
GetUserRoles(q, rs) ==
  /\ pc[q] = "roles"
  /\ roles' = [roles EXCEPT ![q] = rs]
  /\ UNCHANGED <<user, subservice, facts>>
  /\ Authorize(q)
  /\ UNCHANGED <<req, filter, callbacks, alarm>>

(* AccessControl::receive_event() and OAuthFilter::access_control() *)
AccessControl(q, code, permit) ==
  /\ pc[q] = "access"
  /\ LET authorized == code = "ok" /\ permit
     IN  /\ Verdict(q, IF authorized THEN "ok" ELSE "forbidden")
         /\ facts' = [facts EXCEPT ![q] = IF authorized THEN @ \cup {"permit"} ELSE @]
  /\ UNCHANGED <<req, filter, callbacks, oauthVars, alarm>>

(* The host of the next exchange does not resolve: the exception leaves    *)
(* the handler, and nobody answers the request.                            *)
Unresolved(q) ==
  /\ pc[q] \in Exchanging
  /\ pc' = [pc EXCEPT ![q] = "lost"]
  /\ UNCHANGED <<req, filter, callbacks, status, oauthVars, facts, alarm>>

-----------------------------------------------------------------------------
(* call_to_callback(): the entry of the request is taken out of the table  *)
(* of the filter.                                                          *)
Take(q, n) == [callbacks EXCEPT ![n] = @ \ {q}]

(* ... and the function called: execute_filters() for the next filter or   *)
(* handle_end_filters(), which answers with an error or lets the request   *)
(* through to handle_request().  Without an entry the function object is   *)
(* empty and the call throws.                                              *)
CallToCallback(q) ==
  LET n == filter[q]
      found == q \in callbacks[n]
      further == found /\ status[q] = "ok" /\ n # Len(Filters)
  IN  /\ pc[q] = "verdict"
      /\ \/ further /\ ExecuteFilter(q, n + 1, Take(q, n))
         \/ /\ ~further
            /\ callbacks' = Take(q, n)
            /\ pc' = [pc EXCEPT ![q] = IF ~found THEN "lost"
                                      ELSE IF status[q] = "ok" THEN "handled" ELSE "refused"]
            /\ UNCHANGED filter
      /\ UNCHANGED <<req, status, oauthVars, facts, alarm>>

Step(q) ==
  \/ OAuthRequest(q) \/ CallToCallback(q) \/ Unresolved(q)
  \/ \E b \in BOOLEAN : MediaRequest(q, b) \/ RenewToken(q, b)
  \/ \E got, same \in BOOLEAN : GetUser(q, got, same)
  \/ \E code \in {"ok", "bad_request", "other"}, projects \in {"listed", "others", "empty"} :
       GetSubservice(q, code, projects)
  \/ \E rs \in RolesAnswer : GetUserRoles(q, rs)
  \/ \E code \in {"ok", "other"}, permit \in BOOLEAN : AccessControl(q, code, permit)

Next == \E q \in Requests : Arrives(q) \/ Step(q)

Spec == Init /\ [][Next]_vars

(* The threads run what is posted, and exchanges conclude (ExchangeLive).  *)
FairSpec == Spec /\ \A q \in Requests : WF_vars(Step(q))

-----------------------------------------------------------------------------
(* A request reaches its handler only after every filter let it pass: with *)
(* the PEP, for an identity manager that knows the user in the service of  *)
(* the request and an access control that permits it; early ends of the    *)
(* chain of exchanges are refusals.                                        *)
Passed(q, n) ==
  \/ Filters[n] = "media" /\ "media" \in facts[q]
  \/ Filters[n] = "oauth" /\ (req[q].uri = "about" \/ {"valid", "permit"} \subseteq facts[q])
Admitted ==
  \A q \in Requests : pc[q] = "handled" => \A n \in DOMAIN Filters : Passed(q, n)

(* The tables of the filters hold exactly the requests that are still to   *)
(* be answered: no verdict finds its entry gone, and no answer leaves one. *)
EntriesMatch ==
  \A q \in Requests : \A n \in DOMAIN Filters :
    q \in callbacks[n] <=> filter[q] = n /\ pc[q] \notin {"new", "handled", "refused"}

(* A request is answered, once: it is handled or refused and stays so.  It *)
(* is lost only where a host does not resolve.                             *)
Answered ==
  /\ \A q \in Requests : pc[q] # "new" ~> pc[q] \in {"handled", "refused", "lost"}
  /\ [][\A q \in Requests : /\ pc[q] \in {"handled", "refused"} => pc'[q] = pc[q]
                            /\ pc'[q] = "lost" => pc[q] # "verdict"]_vars

=============================================================================
