--------------------------- MODULE PepFilterProofs --------------------------
(***************************************************************************)
(* For any number of concurrent requests and any sequence of filters: no   *)
(* request reaches its handler past a filter that did not let it through,  *)
(* and the tables of the filters stay in step with the requests.           *)
(***************************************************************************)
EXTENDS PepFilter, TLAPS

Open == {"posted", "verdict", "lost"} \cup Exchanging

(* Who is at filter n has passed the filters before it, and a verdict "ok" *)
(* means that it has passed n as well.                                     *)
Progress == \A q \in Requests :
  /\ pc[q] \in Open => \A n \in DOMAIN Filters : n < filter[q] => Passed(q, n)
  /\ pc[q] = "verdict" /\ status[q] = "ok" => Passed(q, filter[q])

(* Who is in the middle of the exchanges is at the PEP, and a user id was  *)
(* vouched for.                                                            *)
AtPep == \A q \in Requests :
  /\ pc[q] \in Exchanging => Filters[filter[q]] = "oauth"
  /\ pc[q] \in Open => Filters # <<>>
  /\ user[q] = "user" => "valid" \in facts[q]
  /\ pc[q] = "access" => user[q] = "user"

PepInv == TypeOK /\ Admitted /\ EntriesMatch /\ Progress /\ AtPep

LEMMA InitPepInv == Init => PepInv
<1>. SUFFICES ASSUME Init PROVE PepInv
  OBVIOUS
<1>1. TypeOK
  <2>1. {} \in RolesAnswer
    BY DEF RolesAnswer
  <2>. QED BY <2>1, PepAssumption DEF Init, TypeOK, Status
<1>2. Admitted /\ EntriesMatch /\ Progress /\ AtPep
  BY DEF Init, Admitted, EntriesMatch, Progress, AtPep, Open, Exchanging
<1>. QED BY <1>1, <1>2 DEF PepInv

(* The steps of one request at one filter: the request q goes from one     *)
(* open place to another, its facts can only grow, and the verdict "ok" is *)
(* only given if the filter was passed.                                    *)
Local(q, p) ==
  /\ pc[q] \in Open /\ p \in Open
  /\ pc' = [pc EXCEPT ![q] = p]
  /\ UNCHANGED <<req, filter, callbacks>>
  /\ \A x \in Requests : facts[x] \subseteq facts'[x]

LEMMA PassedKept ==
  ASSUME NEW q \in Requests, NEW n, Passed(q, n), UNCHANGED req, facts[q] \subseteq facts'[q]
  PROVE  Passed(q, n)'
  BY DEF Passed

LEMMA LocalKeeps ==
  ASSUME PepInv, TypeOK', NEW q \in Requests, NEW p, Local(q, p),
         \A x \in Requests \ {q} : UNCHANGED <<status[x], user[x], facts[x]>>,
         p = "verdict" /\ status'[q] = "ok" => Passed(q, filter[q])',
         p \in Exchanging => Filters[filter[q]] = "oauth",
         user'[q] = "user" => "valid" \in facts'[q],
         p = "access" => user'[q] = "user"
  PROVE  PepInv'
<1>1. /\ pc'[q] = p /\ pc[q] \in Open /\ p \in Open
      /\ \A x \in Requests \ {q} : pc'[x] = pc[x]
  BY DEF Local, PepInv, TypeOK
<1>2. p \notin {"new", "handled", "refused"} /\ pc[q] \notin {"new", "handled", "refused"}
  BY <1>1 DEF Open, Exchanging
<1>3. Admitted'
  <2>. SUFFICES ASSUME NEW x \in Requests, pc'[x] = "handled", NEW n \in DOMAIN Filters
                PROVE  Passed(x, n)'
    BY DEF Admitted
  <2>1. x # q /\ pc[x] = "handled"
    BY <1>1, <1>2
  <2>. QED BY <2>1, PassedKept DEF PepInv, Admitted, Local
<1>4. EntriesMatch'
  <2>. SUFFICES ASSUME NEW x \in Requests, NEW n \in DOMAIN Filters
                PROVE  x \in callbacks'[n] <=> filter'[x] = n /\ pc'[x] \notin {"new", "handled", "refused"}
    BY DEF EntriesMatch
  <2>1. x \in callbacks[n] <=> filter[x] = n /\ pc[x] \notin {"new", "handled", "refused"}
    BY DEF PepInv, EntriesMatch
  <2>2. callbacks' = callbacks /\ filter' = filter
    BY DEF Local
  <2>. QED BY <1>1, <1>2, <2>1, <2>2
<1>5. Progress'
  <2>. SUFFICES ASSUME NEW x \in Requests
                PROVE  /\ pc'[x] \in Open => \A n \in DOMAIN Filters : n < filter'[x] => Passed(x, n)'
                       /\ pc'[x] = "verdict" /\ status'[x] = "ok" => Passed(x, filter[x])'
    BY DEF Progress
  <2>1. pc'[x] \in Open => pc[x] \in Open
    BY <1>1
  <2>2. ASSUME pc'[x] \in Open, NEW n \in DOMAIN Filters, n < filter'[x] PROVE Passed(x, n)'
    <3>1. n < filter[x] /\ UNCHANGED req /\ facts[x] \subseteq facts'[x]
      BY <2>2 DEF Local
    <3>2. Passed(x, n)
      BY <2>1, <2>2, <3>1 DEF PepInv, Progress
    <3>. QED BY <3>1, <3>2, PassedKept
  <2>3. ASSUME pc'[x] = "verdict", status'[x] = "ok" PROVE Passed(x, filter[x])'
    <3>1. CASE x = q
      BY <1>1, <2>3, <3>1
    <3>2. CASE x # q
      <4>1. Passed(x, filter[x]) /\ UNCHANGED req /\ facts[x] \subseteq facts'[x]
        BY <1>1, <2>3, <3>2 DEF PepInv, Progress, Local
      <4>2. UNCHANGED filter
        BY DEF Local
      <4>. QED BY <4>1, <4>2 DEF Passed
    <3>. QED BY <3>1, <3>2
  <2>. QED BY <2>2, <2>3
<1>6. AtPep'
  <2>. SUFFICES ASSUME NEW x \in Requests
                PROVE  /\ pc'[x] \in Exchanging => Filters[filter'[x]] = "oauth"
                       /\ pc'[x] \in Open => Filters # <<>>
                       /\ user'[x] = "user" => "valid" \in facts'[x]
                       /\ pc'[x] = "access" => user'[x] = "user"
    BY DEF AtPep
  <2>1. UNCHANGED filter
    BY DEF Local
  <2>2. CASE x = q
    BY <1>1, <2>1, <2>2 DEF PepInv, AtPep
  <2>3. CASE x # q
    BY <1>1, <2>1, <2>3 DEF PepInv, AtPep
  <2>. QED BY <2>2, <2>3
<1>. QED BY <1>3, <1>4, <1>5, <1>6 DEF PepInv

(* Authorize() refuses or, with a user, asks access control. *)
LEMMA AuthorizeStep ==
  ASSUME PepInv, NEW q \in Requests, Authorize(q), user' \in [Requests -> {"", "user"}]
  PROVE  \E p \in {"verdict", "access"} :
           /\ pc' = [pc EXCEPT ![q] = p]
           /\ p = "verdict" => status' = [status EXCEPT ![q] = "unauthorized"]
           /\ p = "access" => status' = status /\ user'[q] = "user"
  BY DEF Authorize, Verdict

LEMMA StepKeeps == ASSUME PepInv, NEW q \in Requests, Step(q) PROVE PepInv'
<1>. DEFINE Quiet == \A x \in Requests \ {q} : UNCHANGED <<status[x], user[x], facts[x]>>
<1>0. /\ TypeOK
      /\ pc[q] \in Open => filter[q] \in DOMAIN Filters
      /\ Exchanging \subseteq Open /\ "posted" \in Open /\ "verdict" \in Open /\ "lost" \in Open
  BY DEF PepInv, TypeOK, AtPep, Open, Exchanging
<1>1. ASSUME NEW b \in BOOLEAN, MediaRequest(q, b) PROVE PepInv'
  <2>0. /\ pc[q] = "posted" /\ pc' = [pc EXCEPT ![q] = "verdict"]
        /\ status' = [status EXCEPT ![q] = IF b THEN "ok" ELSE "bad_media"]
        /\ facts' = [facts EXCEPT ![q] = IF b THEN @ \cup {"media"} ELSE @]
        /\ UNCHANGED <<req, filter, callbacks, user, subservice, roles, alarm>>
    BY <1>1 DEF MediaRequest, Verdict, oauthVars
  <2>4. /\ status' \in [Requests -> Status] /\ facts' \in [Requests -> SUBSET Fact]
        /\ \A x \in Requests : facts[x] \subseteq facts'[x]
        /\ Quiet
    <3>1. /\ status \in [Requests -> Status] /\ facts \in [Requests -> SUBSET Fact]
          /\ {"ok", "bad_media"} \subseteq Status /\ "media" \in Fact
      BY <1>0 DEF TypeOK, Status, Fact
    <3>2. status' \in [Requests -> Status] /\ \A x \in Requests \ {q} : status'[x] = status[x]
      BY <2>0, <3>1
    <3>3. CASE b
      BY <2>0, <3>1, <3>2, <3>3
    <3>4. CASE ~b
      <4>1. facts' = facts
        BY <2>0, <3>1, <3>4
      <4>. QED BY <2>0, <3>1, <3>2, <4>1
    <3>. QED BY <3>3, <3>4
  <2>5. TypeOK'
    <3>1. /\ pc' \in [Requests -> {"new", "posted", "verdict", "handled", "refused", "lost"} \cup Exchanging]
          /\ \A x \in Requests : pc'[x] # "new" => pc[x] # "new"
      BY <1>0, <2>0 DEF TypeOK
    <3>2. UNCHANGED <<req, filter, callbacks, user, subservice, roles, alarm>>
      BY <2>0
    <3>3. status' \in [Requests -> Status] /\ facts' \in [Requests -> SUBSET Fact]
      BY <2>4
    <3>. QED BY <1>0, <3>1, <3>2, <3>3 DEF TypeOK
  <2>1. TypeOK' /\ Local(q, "verdict") /\ Quiet
    BY <1>0, <2>0, <2>4, <2>5 DEF Local
  <2>2. status'[q] = "ok" => Passed(q, filter[q])'
    BY <1>0, <1>1 DEF MediaRequest, Verdict, TypeOK, Passed
  <2>3. user'[q] = "user" => "valid" \in facts'[q]
    BY <1>0, <1>1 DEF MediaRequest, PepInv, AtPep, TypeOK, oauthVars
  <2>. QED BY <2>1, <2>2, <2>3, LocalKeeps DEF Exchanging
<1>2. CASE OAuthRequest(q)
  <2>1. PICK p \in {"verdict", "token"} :
          /\ pc' = [pc EXCEPT ![q] = p]
          /\ p = "verdict" => \/ req[q].uri = "about" /\ status' = [status EXCEPT ![q] = "ok"]
                              \/ status' = [status EXCEPT ![q] = "unauthorized"]
          /\ p = "token" => status' = status
    BY <1>2 DEF OAuthRequest, Verdict
  <2>2. Filters[filter[q]] = "oauth" /\ pc[q] = "posted"
        /\ UNCHANGED <<req, filter, callbacks, user, subservice, roles, facts, alarm>>
    BY <1>2 DEF OAuthRequest, oauthVars
  <2>3. TypeOK' /\ Local(q, p) /\ Quiet
    BY <1>0, <2>1, <2>2 DEF TypeOK, Status, Local, Open, Exchanging
  <2>4. p = "verdict" /\ status'[q] = "ok" => Passed(q, filter[q])'
    BY <1>0, <2>1, <2>2 DEF TypeOK, Passed
  <2>5. user'[q] = "user" => "valid" \in facts'[q]
    BY <2>2 DEF PepInv, AtPep
  <2>. QED BY <2>1, <2>2, <2>3, <2>4, <2>5, LocalKeeps
<1>3. CASE Unresolved(q)
  <2>1. TypeOK' /\ Local(q, "lost") /\ Quiet
    BY <1>0, <1>3 DEF Unresolved, TypeOK, Local, oauthVars
  <2>2. user'[q] = "user" => "valid" \in facts'[q]
    BY <1>3 DEF Unresolved, PepInv, AtPep, oauthVars
  <2>. QED BY <2>1, <2>2, LocalKeeps DEF Exchanging
(* The exchanges of the PEP, from what they have in common. *)
<1>4. ASSUME NEW p, p \in {"verdict"} \cup Exchanging, pc[q] \in Exchanging,
             pc' = [pc EXCEPT ![q] = p],
             \/ p # "verdict" /\ status' = status
             \/ \E s \in {"unauthorized", "forbidden"} : status' = [status EXCEPT ![q] = s]
             \/ status' = [status EXCEPT ![q] = "ok"] /\ {"valid", "permit"} \subseteq facts'[q],
             user' \in [Requests -> {"", "user"}], subservice' \in [Requests -> {"", "id"}],
             roles' \in [Requests -> RolesAnswer],
             facts' \in [Requests -> SUBSET Fact],
             \A x \in Requests : facts[x] \subseteq facts'[x],
             \A x \in Requests \ {q} : UNCHANGED <<user[x], facts[x]>>,
             alarm' \in {"off", "on"},
             UNCHANGED <<req, filter, callbacks>>,
             user'[q] = "user" => "valid" \in facts'[q],
             p = "access" => user'[q] = "user"
      PROVE  PepInv'
  <2>1. Filters[filter[q]] = "oauth"
    BY <1>4 DEF PepInv, AtPep
  <2>2. status' \in [Requests -> Status] /\ \A x \in Requests \ {q} : status'[x] = status[x]
    <3>1. status \in [Requests -> Status]
      BY <1>0 DEF TypeOK
    <3>2. CASE status' = status
      BY <3>1, <3>2
    <3>3. CASE \E s \in {"unauthorized", "forbidden", "ok"} : status' = [status EXCEPT ![q] = s]
      BY <3>1, <3>3 DEF Status
    <3>. QED BY <1>4, <3>2, <3>3
  <2>3. TypeOK'
    BY <1>0, <1>4, <2>2 DEF TypeOK, Exchanging
  <2>4. Local(q, p) /\ Quiet
    BY <1>0, <1>4, <2>2 DEF Local
  <2>5. p = "verdict" /\ status'[q] = "ok" => Passed(q, filter[q])'
    BY <1>0, <1>4, <2>1 DEF TypeOK, Passed
  <2>. QED BY <1>4, <2>1, <2>3, <2>4, <2>5, LocalKeeps
<1>5. ASSUME NEW b \in BOOLEAN, RenewToken(q, b) PROVE PepInv'
  <2>1. UNCHANGED <<user, subservice, roles, facts, req, filter, callbacks>> /\ pc[q] = "token"
        /\ alarm' \in {"off", "on"}
    BY <1>0, <1>5 DEF RenewToken, oauthVars, TypeOK
  <2>2. user'[q] = "user" => "valid" \in facts'[q]
    BY <2>1 DEF PepInv, AtPep
  <2>3. CASE b
    <3>1. pc' = [pc EXCEPT ![q] = "user"] /\ status' = status
      BY <1>5, <2>3 DEF RenewToken
    <3>. QED BY <1>0, <1>4, <2>1, <2>2, <3>1 DEF Exchanging, TypeOK
  <2>4. CASE ~b
    <3>1. PICK p \in {"verdict", "access"} :
           /\ pc' = [pc EXCEPT ![q] = p]
           /\ p = "verdict" => status' = [status EXCEPT ![q] = "unauthorized"]
           /\ p = "access" => status' = status /\ user'[q] = "user"
      BY <1>0, <1>5, <2>1, <2>4, AuthorizeStep DEF RenewToken, TypeOK
    <3>. QED BY <1>0, <1>4, <2>1, <2>2, <3>1 DEF Exchanging, TypeOK
  <2>. QED BY <2>3, <2>4
<1>6. ASSUME NEW got \in BOOLEAN, NEW same \in BOOLEAN, GetUser(q, got, same) PROVE PepInv'
  <2>1. /\ UNCHANGED <<subservice, roles, req, filter, callbacks, alarm>> /\ pc[q] = "user"
        /\ user' = [user EXCEPT ![q] = IF got /\ same THEN "user" ELSE ""]
        /\ facts' = [facts EXCEPT ![q] = IF got /\ same THEN @ \cup {"valid"} ELSE @]
    BY <1>6 DEF GetUser
  <2>2. /\ user' \in [Requests -> {"", "user"}] /\ facts' \in [Requests -> SUBSET Fact]
        /\ user'[q] = "user" => "valid" \in facts'[q]
        /\ \A x \in Requests : facts[x] \subseteq facts'[x]
        /\ \A x \in Requests \ {q} : UNCHANGED <<user[x], facts[x]>>
    BY <1>0, <2>1 DEF TypeOK, Fact
  <2>3. CASE user'[q] # ""
    <3>1. pc' = [pc EXCEPT ![q] = "projects"] /\ status' = status
      BY <1>6, <2>3 DEF GetUser
    <3>. QED BY <1>0, <1>4, <2>1, <2>2, <3>1 DEF Exchanging, TypeOK
  <2>4. CASE user'[q] = ""
    <3>1. PICK p \in {"verdict", "access"} :
           /\ pc' = [pc EXCEPT ![q] = p]
           /\ p = "verdict" => status' = [status EXCEPT ![q] = "unauthorized"]
           /\ p = "access" => status' = status /\ user'[q] = "user"
      BY <1>6, <2>2, <2>4, AuthorizeStep DEF GetUser
    <3>. QED BY <1>0, <1>4, <2>1, <2>2, <3>1 DEF Exchanging, TypeOK
  <2>. QED BY <2>3, <2>4
<1>7. ASSUME NEW code \in {"ok", "bad_request", "other"}, NEW projects \in {"listed", "others", "empty"},
             GetSubservice(q, code, projects)
      PROVE  PepInv'
  <2>1. /\ UNCHANGED <<user, roles, facts, req, filter, callbacks, alarm>> /\ pc[q] = "projects"
        /\ subservice' \in [Requests -> {"", "id"}]
    BY <1>0, <1>7 DEF GetSubservice, TypeOK
  <2>2. user'[q] = "user" => "valid" \in facts'[q]
    BY <2>1 DEF PepInv, AtPep
  <2>3. CASE pc' = [pc EXCEPT ![q] = "roles"] /\ UNCHANGED status
    BY <1>0, <1>4, <2>1, <2>2, <2>3 DEF Exchanging, TypeOK
  <2>4. CASE Authorize(q)
    <3>1. PICK p \in {"verdict", "access"} :
           /\ pc' = [pc EXCEPT ![q] = p]
           /\ p = "verdict" => status' = [status EXCEPT ![q] = "unauthorized"]
           /\ p = "access" => status' = status /\ user'[q] = "user"
      BY <1>0, <2>1, <2>4, AuthorizeStep DEF TypeOK
    <3>. QED BY <1>0, <1>4, <2>1, <2>2, <3>1 DEF Exchanging, TypeOK
  <2>. QED BY <1>7, <2>3, <2>4 DEF GetSubservice
<1>8. ASSUME NEW rs \in RolesAnswer, GetUserRoles(q, rs) PROVE PepInv'
  <2>1. /\ UNCHANGED <<user, subservice, facts, req, filter, callbacks, alarm>> /\ pc[q] = "roles"
        /\ roles' \in [Requests -> RolesAnswer]
    BY <1>0, <1>8 DEF GetUserRoles, TypeOK
  <2>2. user'[q] = "user" => "valid" \in facts'[q]
    BY <2>1 DEF PepInv, AtPep
  <2>3. PICK p \in {"verdict", "access"} :
          /\ pc' = [pc EXCEPT ![q] = p]
          /\ p = "verdict" => status' = [status EXCEPT ![q] = "unauthorized"]
          /\ p = "access" => status' = status /\ user'[q] = "user"
    BY <1>0, <1>8, <2>1, AuthorizeStep DEF GetUserRoles, TypeOK
  <2>. QED BY <1>0, <1>4, <2>1, <2>2, <2>3 DEF Exchanging, TypeOK
<1>9. ASSUME NEW code \in {"ok", "other"}, NEW permit \in BOOLEAN, AccessControl(q, code, permit)
      PROVE  PepInv'
  <2>1. /\ UNCHANGED <<user, subservice, roles, req, filter, callbacks, alarm>>
        /\ pc[q] = "access" /\ pc' = [pc EXCEPT ![q] = "verdict"]
        /\ \/ status' = [status EXCEPT ![q] = "ok"] /\ facts' = [facts EXCEPT ![q] = @ \cup {"permit"}]
           \/ status' = [status EXCEPT ![q] = "forbidden"] /\ facts' = facts
    BY <1>0, <1>9 DEF AccessControl, Verdict, oauthVars, TypeOK
  <2>2. /\ facts' \in [Requests -> SUBSET Fact]
        /\ \A x \in Requests : facts[x] \subseteq facts'[x]
        /\ \A x \in Requests \ {q} : UNCHANGED <<user[x], facts[x]>>
    <3>1. CASE facts' = facts
      BY <1>0, <2>1, <3>1 DEF TypeOK
    <3>2. CASE facts' = [facts EXCEPT ![q] = @ \cup {"permit"}]
      BY <1>0, <2>1, <3>2 DEF TypeOK, Fact
    <3>. QED BY <2>1, <3>1, <3>2
  <2>3. "valid" \in facts[q]
    BY <2>1 DEF PepInv, AtPep
  <2>4. \/ status' = [status EXCEPT ![q] = "ok"] /\ {"valid", "permit"} \subseteq facts'[q]
        \/ status' = [status EXCEPT ![q] = "forbidden"]
    <3>1. CASE facts' = [facts EXCEPT ![q] = @ \cup {"permit"}]
      <4>1. facts'[q] = facts[q] \cup {"permit"}
        BY <1>0, <3>1 DEF TypeOK
      <4>. QED BY <2>1, <2>3, <4>1
    <3>. QED BY <2>1, <3>1
  <2>. QED BY <1>0, <1>4, <2>1, <2>2, <2>3, <2>4 DEF Exchanging, TypeOK
<1>10. CASE CallToCallback(q)
  <2>. DEFINE n == filter[q]
  <2>1. pc[q] = "verdict" /\ n \in DOMAIN Filters /\ n \in 1..Len(Filters) /\ q \in callbacks[n]
    BY <1>0, <1>10, PepAssumption DEF CallToCallback, PepInv, EntriesMatch, AtPep
  <2>2. UNCHANGED <<req, status, user, subservice, roles, facts, alarm>>
    BY <1>10 DEF CallToCallback, oauthVars
  <2>3. \A x, m : Passed(x, m)' <=> Passed(x, m)
    BY <2>2 DEF Passed
  <2>4. ASSUME status[q] = "ok", n # Len(Filters), ExecuteFilter(q, n + 1, Take(q, n))
        PROVE  PepInv'
    <3>1. /\ n + 1 \in DOMAIN Filters /\ n + 1 \in Nat
          /\ filter' = [filter EXCEPT ![q] = n + 1]
          /\ pc' = [pc EXCEPT ![q] = "posted"]
          /\ callbacks' = [[callbacks EXCEPT ![n] = @ \ {q}] EXCEPT ![n + 1] = @ \cup {q}]
      BY <2>1, <2>4, PepAssumption DEF ExecuteFilter, Take
    <3>2. TypeOK'
      BY <1>0, <2>1, <2>2, <3>1 DEF TypeOK
    <3>3. EntriesMatch'
      <4>. SUFFICES ASSUME NEW x \in Requests, NEW m \in DOMAIN Filters
                    PROVE  x \in callbacks'[m] <=> filter'[x] = m /\ pc'[x] \notin {"new", "handled", "refused"}
        BY DEF EntriesMatch
      <4>1. x \in callbacks[m] <=> filter[x] = m /\ pc[x] \notin {"new", "handled", "refused"}
        BY DEF PepInv, EntriesMatch
      <4>2. callbacks'[m] = IF m = n + 1 THEN callbacks[m] \cup {q}
                            ELSE IF m = n THEN callbacks[m] \ {q} ELSE callbacks[m]
        BY <1>0, <2>1, <3>1 DEF TypeOK
      <4>3. CASE x # q
        <5>1. filter'[x] = filter[x] /\ pc'[x] = pc[x]
          BY <1>0, <3>1, <4>3 DEF TypeOK
        <5>. QED BY <4>1, <4>2, <4>3, <5>1
      <4>4. CASE x = q
        <5>1. filter'[x] = n + 1 /\ pc'[x] = "posted" /\ pc[x] = "verdict" /\ filter[x] = n
          BY <1>0, <2>1, <3>1, <4>4 DEF TypeOK
        <5>. QED BY <4>1, <4>2, <4>4, <5>1
      <4>. QED BY <4>3, <4>4
    <3>4. Admitted'
      BY <1>0, <2>1, <2>3, <3>1 DEF Admitted, TypeOK, PepInv
    <3>5. Progress'
      <4>. SUFFICES ASSUME NEW x \in Requests
                    PROVE  /\ pc'[x] \in Open => \A m \in DOMAIN Filters : m < filter'[x] => Passed(x, m)
                           /\ pc'[x] = "verdict" /\ status'[x] = "ok" => Passed(x, filter'[x])
        BY <2>3 DEF Progress
      <4>1. CASE x # q
        BY <1>0, <2>2, <3>1, <4>1 DEF Progress, TypeOK, PepInv
      <4>2. CASE x = q
        <5>1. pc'[x] = "posted" /\ filter'[x] = n + 1
          BY <1>0, <3>1, <4>2 DEF TypeOK
        <5>2. ASSUME NEW m \in DOMAIN Filters, m < n + 1 PROVE Passed(q, m)
          <6>1. m \in 1..Len(Filters)
            BY PepAssumption
          <6>2. m < n \/ m = n
            BY <2>1, <5>2, <6>1
          <6>. QED BY <1>0, <2>1, <2>4, <6>2 DEF Progress, PepInv
        <5>. QED BY <4>2, <5>1, <5>2
      <4>. QED BY <4>1, <4>2
    <3>6. AtPep'
      BY <1>0, <2>1, <2>2, <3>1 DEF AtPep, TypeOK, PepInv, Open, Exchanging
    <3>. QED BY <3>2, <3>3, <3>4, <3>5, <3>6 DEF PepInv
  <2>5. ASSUME NEW p \in {"handled", "refused"}, p = "handled" => status[q] = "ok" /\ n = Len(Filters),
               callbacks' = Take(q, n), pc' = [pc EXCEPT ![q] = p], UNCHANGED filter
        PROVE  PepInv'
    <3>1. callbacks' = [callbacks EXCEPT ![n] = @ \ {q}]
      BY <2>5 DEF Take
    <3>2. TypeOK'
      <4>1. callbacks' \in [DOMAIN Filters -> SUBSET Requests]
        BY <1>0, <2>1, <3>1 DEF TypeOK
      <4>2. /\ pc' \in [Requests -> {"new", "posted", "verdict", "handled", "refused", "lost"} \cup Exchanging]
            /\ \A x \in Requests : pc'[x] # "new" => pc[x] # "new"
        BY <1>0, <2>1, <2>5 DEF TypeOK
      <4>. QED BY <1>0, <2>2, <2>5, <4>1, <4>2 DEF TypeOK
    <3>3. EntriesMatch'
      <4>. SUFFICES ASSUME NEW x \in Requests, NEW m \in DOMAIN Filters
                    PROVE  x \in callbacks'[m] <=> filter[x] = m /\ pc'[x] \notin {"new", "handled", "refused"}
        BY <2>5 DEF EntriesMatch
      <4>1. x \in callbacks[m] <=> filter[x] = m /\ pc[x] \notin {"new", "handled", "refused"}
        BY DEF PepInv, EntriesMatch
      <4>2. callbacks'[m] = IF m = n THEN callbacks[m] \ {q} ELSE callbacks[m]
        BY <1>0, <2>1, <3>1 DEF TypeOK
      <4>3. CASE x # q
        <5>1. pc'[x] = pc[x]
          BY <1>0, <2>5, <4>3 DEF TypeOK
        <5>. QED BY <4>1, <4>2, <4>3, <5>1
      <4>4. CASE x = q
        <5>1. pc'[x] = p
          BY <1>0, <2>5, <4>4 DEF TypeOK
        <5>. QED BY <2>5, <4>1, <4>2, <4>4, <5>1
      <4>. QED BY <4>3, <4>4
    <3>4. Admitted'
      <4>. SUFFICES ASSUME NEW x \in Requests, pc'[x] = "handled", NEW m \in DOMAIN Filters
                    PROVE  Passed(x, m)
        BY <2>3 DEF Admitted
      <4>1. CASE x # q
        BY <1>0, <2>5, <4>1 DEF Admitted, TypeOK, PepInv
      <4>2. CASE x = q
        <5>1. status[q] = "ok" /\ n = Len(Filters)
          BY <1>0, <2>5, <4>2 DEF TypeOK
        <5>2. m \in 1..Len(Filters)
          BY PepAssumption
        <5>3. m < n \/ m = n
          BY <2>1, <5>1, <5>2
        <5>. QED BY <1>0, <2>1, <4>2, <5>1, <5>3 DEF Progress, PepInv
      <4>. QED BY <4>1, <4>2
    <3>5. Progress'
      BY <1>0, <2>1, <2>2, <2>3, <2>5 DEF Progress, TypeOK, PepInv, Open, Exchanging
    <3>6. AtPep'
      BY <1>0, <2>1, <2>2, <2>5 DEF AtPep, TypeOK, PepInv, Open, Exchanging
    <3>. QED BY <3>2, <3>3, <3>4, <3>5, <3>6 DEF PepInv
  <2>6. CASE status[q] = "ok" /\ n # Len(Filters)
    BY <1>10, <2>1, <2>4, <2>6 DEF CallToCallback
  <2>7. CASE ~(status[q] = "ok" /\ n # Len(Filters))
    <3>1. /\ callbacks' = Take(q, n) /\ UNCHANGED filter
          /\ pc' = [pc EXCEPT ![q] = IF status[q] = "ok" THEN "handled" ELSE "refused"]
      BY <1>10, <2>1, <2>7 DEF CallToCallback
    <3>2. CASE status[q] = "ok"
      BY <2>5, <2>7, <3>1, <3>2
    <3>3. CASE status[q] # "ok"
      BY <2>5, <3>1, <3>3
    <3>. QED BY <3>2, <3>3
  <2>. QED BY <2>6, <2>7
<1>. QED BY <1>1, <1>2, <1>3, <1>5, <1>6, <1>7, <1>8, <1>9, <1>10 DEF Step

LEMMA ArrivesKeeps == ASSUME PepInv, NEW q \in Requests, Arrives(q) PROVE PepInv'
<1>1. /\ pc[q] = "new" /\ TypeOK
      /\ UNCHANGED <<req, status, user, subservice, roles, facts, alarm>>
  BY DEF Arrives, PepInv, oauthVars
<1>2. \A x, m : Passed(x, m)' <=> Passed(x, m)
  BY <1>1 DEF Passed
<1>3. CASE Filters # <<>>
  <2>1. /\ 1 \in DOMAIN Filters /\ \A m \in DOMAIN Filters : ~(m < 1)
        /\ filter' = [filter EXCEPT ![q] = 1]
        /\ pc' = [pc EXCEPT ![q] = "posted"]
        /\ callbacks' = [callbacks EXCEPT ![1] = @ \cup {q}]
    BY <1>3, PepAssumption DEF Arrives, ExecuteFilter
  <2>2. TypeOK'
    BY <1>1, <2>1 DEF TypeOK
  <2>3. EntriesMatch'
    <3>. SUFFICES ASSUME NEW x \in Requests, NEW m \in DOMAIN Filters
                  PROVE  x \in callbacks'[m] <=> filter'[x] = m /\ pc'[x] \notin {"new", "handled", "refused"}
      BY DEF EntriesMatch
    <3>1. x \in callbacks[m] <=> filter[x] = m /\ pc[x] \notin {"new", "handled", "refused"}
      BY DEF PepInv, EntriesMatch
    <3>2. callbacks'[m] = IF m = 1 THEN callbacks[m] \cup {q} ELSE callbacks[m]
      BY <1>1, <2>1 DEF TypeOK
    <3>3. CASE x # q
      <4>1. filter'[x] = filter[x] /\ pc'[x] = pc[x]
        BY <1>1, <2>1, <3>3 DEF TypeOK
      <4>. QED BY <3>1, <3>2, <3>3, <4>1
    <3>4. CASE x = q
      <4>1. filter'[x] = 1 /\ pc'[x] = "posted"
        BY <1>1, <2>1, <3>4 DEF TypeOK
      <4>. QED BY <1>1, <3>1, <3>2, <3>4, <4>1
    <3>. QED BY <3>3, <3>4
  <2>4. Admitted'
    BY <1>1, <1>2, <2>1 DEF Admitted, TypeOK, PepInv
  <2>5. Progress'
    BY <1>1, <1>2, <2>1 DEF Progress, TypeOK, PepInv, Open, Exchanging
  <2>6. AtPep'
    BY <1>1, <1>3, <2>1 DEF AtPep, TypeOK, PepInv, Open, Exchanging
  <2>. QED BY <2>2, <2>3, <2>4, <2>5, <2>6 DEF PepInv
<1>4. CASE Filters = <<>>
  <2>1. DOMAIN Filters = {} /\ pc' = [pc EXCEPT ![q] = "handled"] /\ UNCHANGED <<filter, callbacks>>
    BY <1>4 DEF Arrives
  <2>2. TypeOK' /\ EntriesMatch' /\ Admitted'
    BY <1>1, <1>4, <2>1 DEF TypeOK, EntriesMatch, Admitted
  <2>3. Progress'
    BY <1>1, <1>2, <2>1 DEF Progress, TypeOK, PepInv, Open, Exchanging
  <2>4. AtPep'
    BY <1>1, <2>1 DEF AtPep, TypeOK, PepInv, Open, Exchanging
  <2>. QED BY <2>2, <2>3, <2>4 DEF PepInv
<1>. QED BY <1>3, <1>4

LEMMA PepInvariant == Spec => []PepInv
<1>1. ASSUME PepInv, UNCHANGED vars PROVE PepInv'
  <2>1. UNCHANGED <<pc, req, filter, callbacks, status, user, subservice, roles, facts, alarm>>
    BY <1>1 DEF vars
  <2>2. \A x, m : Passed(x, m)' <=> Passed(x, m)
    BY <2>1 DEF Passed
  <2>3. TypeOK'
    BY <1>1, <2>1 DEF PepInv, TypeOK
  <2>4. Admitted' /\ EntriesMatch'
    BY <1>1, <2>1, <2>2 DEF PepInv, Admitted, EntriesMatch
  <2>5. Progress'
    <3>. SUFFICES ASSUME NEW x \in Requests
                  PROVE  /\ pc[x] \in Open => \A n \in DOMAIN Filters : n < filter[x] => Passed(x, n)
                         /\ pc[x] = "verdict" /\ status[x] = "ok" => Passed(x, filter[x])
      BY <2>1, <2>2 DEF Progress
    <3>. QED BY <1>1 DEF PepInv, Progress
  <2>6. AtPep'
    BY <1>1, <2>1 DEF PepInv, AtPep
  <2>. QED BY <2>3, <2>4, <2>5, <2>6 DEF PepInv
<1>2. PepInv /\ [Next]_vars => PepInv'
  BY <1>1, ArrivesKeeps, StepKeeps DEF Next
<1>. QED BY <1>2, InitPepInv, PTL DEF Spec

(* However the requests interleave and whatever the services answer, the   *)
(* handler sees only requests that every filter let through.               *)
THEOREM OnlyAdmitted == Spec => []Admitted
  BY PepInvariant, PTL DEF PepInv

(* The table of a filter never loses an awaited verdict to another request *)
(* and keeps no entry of an answered one.                                  *)
THEOREM TablesMatch == Spec => []EntriesMatch
  BY PepInvariant, PTL DEF PepInv
=============================================================================
