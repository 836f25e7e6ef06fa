--------------------------- MODULE NorthboundProofs ---------------------------
(***************************************************************************)
(* What is asked of the Manager and of an agent from the north, the        *)
(* counters of a plugin and the start of an agent.                         *)
(*   - The pages of GET devices fit, for any number of agents, of devices  *)
(*     at each of them, and for any limit and offset (PageInv).            *)
(*   - The answers about services and devices are true, for any agents,    *)
(*     items and protocols (RequestInv).                                   *)
(*   - A request about services changes what it names, for any requests    *)
(*     of any number of threads (SInv).                                    *)
(*   - The counters cover the last hours with traffic, for any number of   *)
(*     threads and hours (StatInv).                                        *)
(*   - A connection to the database is used by one thread, and what a      *)
(*     caller is told of an operation is true (DInv, Sound).               *)
(*   - The file of an agent is what it works with, and its searches find   *)
(*     what is there (ConfInv).                                            *)
(*   - An agent that runs serves its good resources, whatever its file     *)
(*     holds beside them (StartInv).                                       *)
(***************************************************************************)
EXTENDS ManagerRequests, Configuration, ServiceRequests, Database, Statistics, AgentStart,
        FiniteSetTheorems, WellFoundedInduction, TLAPS

-----------------------------------------------------------------------------
(* The pages of devices. *)

PageType ==
  /\ limit \in Int /\ limit >= -1
  /\ offset \in Nat /\ asked \in 0..NumAgents
  /\ limitI \in Int /\ limitI >= -1
  /\ offsetI \in Nat /\ total \in Nat /\ sent \in Nat
  /\ skipped \in {"yes", "no"}

(* The next agent would continue the page, as long as devices are asked    *)
(* for.                                                                    *)
Continues ==
  /\ page = offset..(offset + sent - 1)
  /\ limitI >= 0 => total + offsetI = offset + sent
  /\ offsetI > 0 => sent = 0

(* limit = 0 and limit = -1 stay as they are; otherwise at most the rest   *)
(* is asked for.                                                           *)
Charged ==
  /\ limit <= 0 => limitI = limit
  /\ limit < 0 => sent = 0
  /\ limit > 0 => sent <= limit /\ limitI # 0
  /\ limitI > 0 => sent + limitI <= limit

(* Without a skipped agent exactly the rest is asked for. *)
NothingLost ==
  skipped = "no" /\ limit > 0 =>
    /\ limitI > 0 => sent + limitI = limit
    /\ limitI < 0 => sent = limit /\ offset + sent <= total

PageInv == PageType /\ Continues /\ Charged /\ NothingLost

LEMMA InitPage == PageInit => PageInv
<1> USE DevicePagesAssumption
<1> SUFFICES ASSUME PageInit PROVE PageInv
    OBVIOUS
<1>1. PICK l \in AskedLimits : limit = ReadLimit(l)
    BY DEF PageInit
<1>2. PICK o \in AskedOffsets : offset = ReadOffset(o)
    BY DEF PageInit
<1>3. l \in Int /\ o \in Int
    BY <1>1, <1>2
<1>4. limit \in Int /\ limit >= -1
    BY <1>1, <1>3 DEF ReadLimit
<1>5. offset \in Nat
    BY <1>2, <1>3 DEF ReadOffset
<1>6. PageType
    BY <1>4, <1>5 DEF PageInit, PageType
<1>7. Continues
    BY <1>5 DEF PageInit, Continues
<1>8. Charged
    BY <1>4 DEF PageInit, Charged
<1>9. NothingLost
    BY <1>4 DEF PageInit, NothingLost
<1> QED BY <1>6, <1>7, <1>8, <1>9 DEF PageInv

(* One answer: what the agent returns follows the page, and what is left   *)
(* for the next one is as PageInv says.                                    *)
LEMMA AnswerPage ==
  ASSUME PageInv, NEW count \in Nat, AgentAnswers(count) PROVE PageInv'
<1> USE DevicePagesAssumption
<1> DEFINE n == Returned(count, limitI, offsetI)
<1>0. /\ limit \in Int /\ offset \in Nat /\ limitI \in Int /\ offsetI \in Nat
      /\ total \in Nat /\ sent \in Nat /\ limitI >= -1 /\ limit >= -1
    BY DEF PageInv, PageType
<1>1. /\ n \in Nat
      /\ limitI < 0 => n = 0
      /\ limitI = 0 /\ count > offsetI => n = count - offsetI
      /\ count <= offsetI => n = 0
      /\ limitI > 0 => n <= limitI
      /\ limitI > 0 /\ count > offsetI /\ limitI > count - offsetI => n = count - offsetI
      /\ limitI > 0 /\ count > offsetI /\ limitI <= count - offsetI => n = limitI
    BY <1>0 DEF Returned
<1>2. /\ page' = page \cup ((total + offsetI)..(total + offsetI + n - 1))
      /\ sent' = sent + n
      /\ total' = total + count
      /\ offsetI' = NextOffset(count, offsetI)
      /\ limitI' = NextLimit(count, limitI, offsetI)
      /\ asked < NumAgents /\ asked' = asked + 1
      /\ limit' = limit /\ offset' = offset
      /\ skipped' = IF offsetI > count /\ count > 0 THEN "yes" ELSE skipped
    BY DEF AgentAnswers
<1> HIDE DEF n
<1>3. offsetI' = IF offsetI > count THEN offsetI - count ELSE 0
    BY <1>2 DEF NextOffset
<1>4. /\ limitI <= 0 => limitI' = limitI
      /\ limitI > 0 /\ 0 < offsetI /\ offsetI <= count =>
           limitI' = IF limitI > count - offsetI THEN limitI - (count - offsetI) ELSE -1
      /\ limitI > 0 /\ ~(0 < offsetI /\ offsetI <= count) =>
           limitI' = IF limitI > count THEN limitI - count ELSE -1
    BY <1>0, <1>2 DEF NextLimit
<1>5. PageType'
  <2>1. asked' \in 0..NumAgents
      BY <1>2 DEF PageInv, PageType
  <2>2. limitI' \in Int /\ limitI' >= -1
      BY <1>0, <1>4
  <2>3. skipped' \in {"yes", "no"}
      BY <1>2 DEF PageInv, PageType
  <2>4. offsetI' \in Nat /\ total' \in Nat /\ sent' \in Nat
      BY <1>0, <1>1, <1>2, <1>3
  <2> QED BY <2>1, <2>2, <2>3, <2>4, <1>0, <1>2 DEF PageType
<1>6. Continues'
  <2>0. /\ page = offset..(offset + sent - 1)
        /\ limitI >= 0 => total + offsetI = offset + sent
        /\ offsetI > 0 => sent = 0
      BY DEF PageInv, Continues
  <2>1. page' = offset'..(offset' + sent' - 1)
    <3>1. CASE n = 0
        BY <1>0, <1>2, <2>0, <3>1
    <3>2. CASE n > 0
      <4>1. total + offsetI = offset + sent
          BY <1>0, <1>1, <2>0, <3>2
      <4> QED BY <1>0, <1>1, <1>2, <2>0, <3>2, <4>1
    <3> QED BY <1>1, <3>1, <3>2
  <2>2. ASSUME limitI' >= 0 PROVE total' + offsetI' = offset' + sent'
    <3>1. limitI >= 0
        BY <1>0, <1>4, <2>2
    <3>2. total + offsetI = offset + sent
        BY <2>0, <3>1
    <3>3. CASE offsetI > count
        BY <1>0, <1>1, <1>2, <1>3, <3>2, <3>3
    <3>4. CASE offsetI <= count
      <4>1. n = count - offsetI
          BY <1>0, <1>1, <1>4, <2>2, <3>1, <3>4
      <4> QED BY <1>0, <1>2, <1>3, <3>2, <3>4, <4>1
    <3> QED BY <1>0, <3>3, <3>4
  <2>3. ASSUME offsetI' > 0 PROVE sent' = 0
      BY <1>0, <1>1, <1>2, <1>3, <2>0, <2>3
  <2> QED BY <2>1, <2>2, <2>3 DEF Continues
<1>7. Charged'
  <2>0. /\ limit <= 0 => limitI = limit
        /\ limit < 0 => sent = 0
        /\ limit > 0 => sent <= limit /\ limitI # 0
        /\ limitI > 0 => sent + limitI <= limit
      BY DEF PageInv, Charged
  <2>1. limit <= 0 => limitI' = limit
      BY <1>0, <1>4, <2>0
  <2>2. limit < 0 => sent' = 0
      BY <1>0, <1>1, <1>2, <2>0
  <2>3. limit > 0 => sent' <= limit /\ limitI' # 0
      BY <1>0, <1>1, <1>2, <1>4, <2>0
  <2>4. limitI' > 0 => sent' + limitI' <= limit
    <3>1. CASE 0 < offsetI /\ offsetI <= count
        BY <1>0, <1>1, <1>2, <1>4, <2>0, <3>1
    <3>2. CASE offsetI = 0
        BY <1>0, <1>1, <1>2, <1>4, <2>0, <3>2
    <3>3. CASE offsetI > count
        BY <1>0, <1>1, <1>2, <1>4, <2>0, <3>3
    <3> QED BY <1>0, <3>1, <3>2, <3>3
  <2> QED BY <2>1, <2>2, <2>3, <2>4, <1>2 DEF Charged
<1>8. NothingLost'
  <2> SUFFICES ASSUME skipped' = "no", limit > 0
               PROVE  /\ limitI' > 0 => sent' + limitI' = limit
                      /\ limitI' < 0 => sent' = limit /\ offset + sent' <= total'
      BY <1>2 DEF NothingLost
  <2>0. /\ limitI > 0 => sent + limitI = limit
        /\ limitI < 0 => sent = limit /\ offset + sent <= total
        /\ limitI # 0
        /\ limitI >= 0 => total + offsetI = offset + sent
        /\ offsetI > 0 => sent = 0
      BY <1>2 DEF PageInv, NothingLost, Charged, Continues
  <2>1. offsetI <= count \/ count = 0
      BY <1>0, <1>2
  <2>2. CASE limitI < 0
      BY <1>0, <1>1, <1>2, <1>4, <2>0, <2>2
  <2>3. CASE limitI > 0 /\ offsetI <= count /\ offsetI > 0
      BY <1>0, <1>1, <1>2, <1>4, <2>0, <2>3
  <2>4. CASE limitI > 0 /\ offsetI = 0
      BY <1>0, <1>1, <1>2, <1>4, <2>0, <2>4
  <2>5. CASE limitI > 0 /\ count = 0
      BY <1>0, <1>1, <1>2, <1>4, <2>0, <2>5
  <2> QED BY <1>0, <2>0, <2>1, <2>2, <2>3, <2>4, <2>5
<1> QED BY <1>5, <1>6, <1>7, <1>8 DEF PageInv

LEMMA StepPage == PageInv /\ [PageNext]_pageVars => PageInv'
<1> USE DevicePagesAssumption
<1> SUFFICES ASSUME PageInv, [PageNext]_pageVars PROVE PageInv'
    OBVIOUS
<1>1. CASE \E count \in 0..MaxDevices : AgentAnswers(count)
    BY <1>1, AnswerPage
<1>2. CASE AgentFails
  <2>1. asked' \in 0..NumAgents
      BY <1>2 DEF AgentFails, PageInv, PageType
  <2> QED BY <1>2, <2>1
       DEF AgentFails, PageInv, PageType, Continues, Charged, NothingLost
<1>3. CASE UNCHANGED pageVars
    BY <1>3 DEF pageVars, PageInv, PageType, Continues, Charged, NothingLost
<1> QED BY <1>1, <1>2, <1>3 DEF PageNext

(* What the pages of the agents add up to. *)
LEMMA PageInvFits == PageInv => PagesFit
<1>1. PageInv => PageIsPrefix
    BY DEF PageInv, Continues, Charged, PageIsPrefix
<1>2. PageInv => PageIsComplete
  <2> SUFFICES ASSUME PageInv, skipped = "no", limit >= 0
               PROVE  sent = Returned(total, limit, offset)
      BY DEF PageIsComplete
  <2>0. /\ limit \in Int /\ offset \in Nat /\ limitI \in Int /\ offsetI \in Nat
        /\ total \in Nat /\ sent \in Nat /\ limitI >= -1
      BY DEF PageInv, PageType
  <2>1. /\ limitI >= 0 => total + offsetI = offset + sent
        /\ offsetI > 0 => sent = 0
      BY DEF PageInv, Continues
  <2>2. CASE limit = 0
    <3>1. limitI = 0
        BY <2>2 DEF PageInv, Charged
    <3> QED BY <2>0, <2>1, <2>2, <3>1 DEF Returned
  <2>3. CASE limit > 0
    <3>1. /\ limitI > 0 => sent + limitI = limit
          /\ limitI < 0 => sent = limit /\ offset + sent <= total
          /\ limitI # 0
        BY <2>3 DEF PageInv, NothingLost, Charged
    <3>2. CASE limitI > 0
        BY <2>0, <2>1, <2>3, <3>1, <3>2 DEF Returned
    <3>3. CASE limitI < 0
        BY <2>0, <2>3, <3>1, <3>3 DEF Returned
    <3> QED BY <2>0, <3>1, <3>2, <3>3
  <2> QED BY <2>0, <2>2, <2>3
<1> QED BY <1>1, <1>2 DEF PagesFit

(* The pages of the agents make up one page of the manager, which starts   *)
(* at the offset, has no gap, no device twice and at most limit devices,   *)
(* and is complete unless all devices of an agent are skipped, for any     *)
(* number of agents and devices and any limit and offset, whichever agents *)
(* fail (get_all_devices_json()).                                          *)
THEOREM PagesOfAgents == PageSpec => []PagesFit
<1> QED BY PageInvFits, InitPage, StepPage, PTL DEF PageSpec

(* The same for the Manager as a whole: no other request has a page, and a *)
(* page is of no other request (get_all_devices_json()).                   *)
THEOREM PagesOfManager == ManagerSpec => []PagesFit
<1>. USE DevicePagesAssumption
<1>1. ManagerInit => PageInv
  <2>1. NoPage => PageInv
    BY DEF NoPage, PageInv, PageType, Continues, Charged, NothingLost
  <2>. QED BY <2>1, InitPage DEF ManagerInit
<1>2. PageInv /\ [ManagerNext]_<<pageVars, reqVars>> => PageInv'
  BY StepPage DEF ManagerNext
<1>3. PageInv => PagesFit
  BY PageInvFits
<1>. QED BY <1>1, <1>2, <1>3, PTL DEF ManagerSpec

-----------------------------------------------------------------------------
(* Requests that the Manager sends on. *)

Pairs == Items \X Endpoints
Kinds == {"none", "GetDevices", "GetDevice", "PostService", "PutService", "DeleteService",
          "PostDevice", "PutDevice", "DeleteDevice"}
Request ==
  [kind: Kinds, todo: SUBSET Pairs, all: SUBSET Pairs, ok: SUBSET Endpoints,
   nok: SUBSET Endpoints, thrown: SUBSET Pairs, code: Int]

(* What is still to be asked was not done, and every agent that was asked  *)
(* is where it belongs, for each of its items.                             *)
Sorted(r, d) ==
  /\ r.todo \subseteq r.all /\ r.thrown \subseteq r.all /\ d \subseteq r.all \ r.todo
  /\ r.thrown \cap r.todo = {} /\ r.thrown \cap d = {}
  /\ \A x \in r.all \ r.todo : \/ x \in d /\ x[2] \in r.ok
                               \/ x \in r.thrown
                               \/ x[2] \in r.nok

(* Nobody is called good or bad without a reason. *)
Justified(r, d) ==
  /\ \A e \in r.ok : \E x \in d : x[2] = e
  /\ \A e \in r.nok : \E x \in r.all \ (r.todo \cup r.thrown) : x[2] = e

(* A request that has an answer is over. *)
Ordered(r, d) ==
  /\ r.kind = "none" => r = NoRequest
  /\ r.kind \in {"none", "GetDevices"} => r.code = 0 /\ r.todo = {} /\ d = {}
  /\ r.code # 0 => r.todo = {}

RequestInv ==
  /\ req \in Request /\ Sorted(req, done) /\ Justified(req, done) /\ Ordered(req, done)
  /\ AnswersAreTrue

(* The Manager at rest. *)
LEMMA NoRequestOK ==
  /\ NoRequest \in Request /\ Sorted(NoRequest, {}) /\ Justified(NoRequest, {})
  /\ NoRequest.kind = "none" /\ NoRequest.code = 0 /\ NoRequest.todo = {}
BY DEF NoRequest, Request, Kinds, Sorted, Justified

(* The requests that Send() and Refuse() make. *)
Sent(r, kind, all) == r = [NoRequest EXCEPT !.kind = kind, !.todo = all, !.all = all]
Rejected(r, kind, code) == r = [NoRequest EXCEPT !.kind = kind, !.code = code]

(* The request that Send() makes ... *)
LEMMA Sending ==
  ASSUME NEW kind \in Kinds, NEW all \in SUBSET Pairs, NEW r, Sent(r, kind, all)
  PROVE  /\ r \in Request
         /\ r.kind = kind /\ r.todo = all /\ r.all = all /\ r.code = 0
         /\ r.ok = {} /\ r.nok = {} /\ r.thrown = {}
<1>1. /\ NoRequest \in Request /\ NoRequest.code = 0
      /\ NoRequest.ok = {} /\ NoRequest.nok = {} /\ NoRequest.thrown = {}
  BY DEF NoRequest, Request, Kinds
<1>. QED BY <1>1 DEF Request, Sent

(* ... and the one that Refuse() makes. *)
LEMMA Refusing ==
  ASSUME NEW kind \in Kinds, NEW code \in Int, NEW r, Rejected(r, kind, code)
  PROVE  /\ r \in Request
         /\ r.kind = kind /\ r.todo = {} /\ r.all = {} /\ r.code = code
         /\ r.ok = {} /\ r.nok = {} /\ r.thrown = {}
<1>1. /\ NoRequest \in Request /\ NoRequest.todo = {} /\ NoRequest.all = {}
      /\ NoRequest.ok = {} /\ NoRequest.nok = {} /\ NoRequest.thrown = {}
  BY DEF NoRequest, Request, Kinds
<1>. QED BY <1>1 DEF Request, Rejected

(* Every request starts, or is refused before anything is sent. *)
LEMMA SendKeeps ==
  ASSUME RequestInv, NEW kind \in Kinds \ {"none", "GetDevices"}, NEW items \in SUBSET Items,
         req.kind = "none", UNCHANGED done,
         Send(kind, items) \/ Refuse(kind, 400) \/ Refuse(kind, 404)
  PROVE  RequestInv'
<1>1. req = NoRequest /\ done = {} /\ done' = {}
  BY DEF RequestInv, Ordered
<1>2. CASE Send(kind, items)
  <2>. DEFINE all == {x \in items \X Endpoints : x[2] \in table[ProtocolOf[x[1]]]}
  <2>1. all \in SUBSET Pairs
    BY DEF Pairs
  <2>2. Sent(req', kind, all)
    BY <1>2 DEF Send, Sent
  <2>. HIDE DEF all
  <2>3. /\ req' \in Request
        /\ req'.kind = kind /\ req'.todo = all /\ req'.all = all /\ req'.code = 0
        /\ req'.ok = {} /\ req'.nok = {} /\ req'.thrown = {}
    BY <2>1, <2>2, Sending
  <2>4. Sorted(req', done') /\ Justified(req', done') /\ Ordered(req', done')
    BY <1>1, <2>3 DEF Sorted, Justified, Ordered
  <2>5. AnswersAreTrue'
    BY <2>3 DEF AnswersAreTrue, AnswerIsTruthful, ErrorsAreComplete
  <2>. QED BY <2>3, <2>4, <2>5 DEF RequestInv
<1>3. ASSUME NEW code \in {400, 404}, Refuse(kind, code) PROVE RequestInv'
  <2>1. Rejected(req', kind, code)
    BY <1>3 DEF Refuse, Rejected
  <2>2. /\ req' \in Request
        /\ req'.kind = kind /\ req'.todo = {} /\ req'.all = {} /\ req'.code = code
        /\ req'.ok = {} /\ req'.nok = {} /\ req'.thrown = {}
    BY <2>1, Refusing
  <2>3. Sorted(req', done') /\ Justified(req', done') /\ Ordered(req', done')
    BY <1>1, <2>2 DEF Sorted, Justified, Ordered
  <2>4. AnswersAreTrue'
    BY <1>1, <2>2 DEF AnswersAreTrue, AnswerIsTruthful, ErrorsAreComplete
  <2>. QED BY <2>2, <2>3, <2>4 DEF RequestInv
<1>. QED BY <1>2, <1>3

(* An agent is asked about an item. *)
LEMMA OperationKeeps ==
  ASSUME RequestInv, NEW x \in req.todo,
         \/ Confirmed(x) \/ Failed(x)
         \/ req' = [req EXCEPT !.todo = @ \ {x}, !.thrown = @ \cup {x}] /\ UNCHANGED done
  PROVE  RequestInv'
<1>a. /\ req \in Request /\ x \in Pairs /\ x[2] \in Endpoints /\ x \in req.all
      /\ Sorted(req, done) /\ Justified(req, done) /\ Ordered(req, done)
  BY DEF RequestInv, Request, Sorted, Pairs
<1>b. req.code = 0 /\ req.kind \notin {"none", "GetDevices"}
  BY <1>a DEF Ordered
<1>c. /\ req' \in Request /\ req'.kind = req.kind /\ req'.all = req.all /\ req'.code = 0
      /\ req'.todo = req.todo \ {x}
      /\ \/ /\ req'.ok = req.ok \cup {x[2]} /\ req'.nok = req.nok
            /\ req'.thrown = req.thrown /\ done' = done \cup {x}
         \/ /\ req'.ok = req.ok /\ req'.nok = req.nok \cup {x[2]}
            /\ req'.thrown = req.thrown /\ (done' = done \/ done' = done \cup {x})
         \/ /\ req'.ok = req.ok /\ req'.nok = req.nok
            /\ req'.thrown = req.thrown \cup {x} /\ done' = done
  <2>1. CASE Confirmed(x)
    <3>1. req' = [req EXCEPT !.todo = @ \ {x}, !.ok = @ \cup {x[2]}] /\ done' = done \cup {x}
      BY <2>1 DEF Confirmed, Ok
    <3>. QED BY <1>a, <1>b, <3>1 DEF Request
  <2>2. CASE Failed(x)
    <3>1. /\ req' = [req EXCEPT !.todo = @ \ {x}, !.nok = @ \cup {x[2]}]
          /\ done' = done \/ done' = done \cup {x}
      BY <2>2 DEF Failed, Nok
    <3>. QED BY <1>a, <1>b, <3>1 DEF Request
  <2>3. CASE req' = [req EXCEPT !.todo = @ \ {x}, !.thrown = @ \cup {x}] /\ UNCHANGED done
    BY <1>a, <1>b, <2>3 DEF Request
  <2>. QED BY <2>1, <2>2, <2>3
<1>1. Sorted(req', done')
  BY <1>a, <1>c DEF Sorted
<1>2. Justified(req', done')
  <2>1. \A e \in req'.ok : \E y \in done' : y[2] = e
    BY <1>a, <1>c DEF Justified
  <2>2. \A e \in req'.nok : \E y \in req'.all \ (req'.todo \cup req'.thrown) : y[2] = e
    BY <1>a, <1>c DEF Justified, Sorted
  <2>. QED BY <2>1, <2>2 DEF Justified
<1>3. Ordered(req', done')
  BY <1>b, <1>c DEF Ordered
<1>4. AnswersAreTrue'
  BY <1>c DEF AnswersAreTrue, AnswerIsTruthful, ErrorsAreComplete
<1>. QED BY <1>1, <1>2, <1>3, <1>4, <1>c DEF RequestInv

(* The answer is true when it is made ... *)
LEMMA AnswerKeeps ==
  ASSUME RequestInv, Answer, req.kind # "GetDevices"
  PROVE  RequestInv'
<1>a. /\ req \in Request /\ Sorted(req, done) /\ Justified(req, done) /\ Ordered(req, done)
      /\ req.kind \notin {"none", "GetDevices"} /\ req.todo = {} /\ req.code = 0
      /\ done' = done
      /\ req' = [req EXCEPT !.code = Code(req)]
  BY DEF RequestInv, Answer
<1>b. Code(req) \in Int
  BY DEF Code
<1>c. /\ req' \in Request /\ req'.kind = req.kind /\ req'.all = req.all /\ req'.todo = {}
      /\ req'.ok = req.ok /\ req'.nok = req.nok /\ req'.thrown = req.thrown
      /\ req'.code = Code(req)
  BY <1>a, <1>b DEF Request
<1>1. Sorted(req', done') /\ Justified(req', done') /\ Ordered(req', done')
  BY <1>a, <1>c DEF Sorted, Justified, Ordered
<1>2. AnswerIsTruthful'
  <2>1. req'.code \in {201, 204} => Undone' = req'.thrown
    <3>. SUFFICES ASSUME Code(req) \in {201, 204} PROVE Undone' = req'.thrown
      BY <1>c
    <3>1. req.nok = {}
      BY DEF Code
    <3>. QED BY <1>a, <1>c, <3>1 DEF Undone, Sorted
  <2>2. req'.code = 200 /\ req'.kind # "GetDevice" =>
          done' # {} /\ req'.nok # {} /\ \A x \in Undone' \ req'.thrown : x[2] \in req'.nok
    <3>. SUFFICES ASSUME Code(req) = 200, req.kind # "GetDevice"
                  PROVE  done' # {} /\ req'.nok # {}
                         /\ \A x \in Undone' \ req'.thrown : x[2] \in req'.nok
      BY <1>c
    <3>1. req.ok # {} /\ req.nok # {}
      BY DEF Code
    <3>. QED BY <1>a, <1>c, <3>1 DEF Undone, Sorted, Justified
  <2>3. req'.code # 400
    BY <1>c DEF Code
  <2>. QED BY <2>1, <2>2, <2>3 DEF AnswerIsTruthful
<1>3. ErrorsAreComplete'
  <2>. SUFFICES ASSUME Code(req) \in {404, 500}
                PROVE  req.ok = {} /\ req.nok = {x[2] : x \in req.all \ req.thrown}
    BY <1>c DEF ErrorsAreComplete
  <2>1. req.ok = {}
    BY DEF Code
  <2>. QED BY <1>a, <2>1 DEF Sorted, Justified
<1>. QED BY <1>1, <1>2, <1>3, <1>c DEF RequestInv, AnswersAreTrue

(* ... and stays so: nothing happens to a request that has one. *)
LEMMA RequestKeeps ==
  ASSUME RequestInv, [ManagerNext]_<<pageVars, reqVars>>
  PROVE  RequestInv'
<1>1. CASE UNCHANGED reqVars
  BY <1>1 DEF reqVars, RequestInv, AnswersAreTrue, AnswerIsTruthful, ErrorsAreComplete, Undone
<1>2. CASE RequestNext /\ req.kind # "GetDevices"
  <2>1. ASSUME NEW items \in SUBSET Items \ {{}},
               PostService(items) \/ PutService(items) \/ PostDevice(items)
        PROVE  RequestInv'
    BY <2>1, SendKeeps DEF PostService, PutService, PostDevice, Kinds
  <2>2. ASSUME NEW i \in Items,
               DeleteService(i) \/ PutDevice(i) \/ DeleteDevice(i) \/ GetDevice(i)
        PROVE  RequestInv'
    <3>1. {i} \in SUBSET Items
      OBVIOUS
    <3>. QED BY <2>2, <3>1, SendKeeps DEF DeleteService, PutDevice, DeleteDevice, GetDevice, Kinds
  <2>3. ASSUME NEW x \in req.todo,
               \/ DeployServices(x) \/ UpdateServices(x) \/ UndeployServices(x)
               \/ PostMultipleDevices(x) \/ PutMultipleDevices(x) \/ DeleteMultipleDevices(x)
               \/ ReceiveGetDevices(x)
        PROVE  RequestInv'
    BY <2>3, OperationKeeps
       DEF DeployServices, UpdateServices, UndeployServices, PostMultipleDevices,
           PutMultipleDevices, DeleteMultipleDevices, ReceiveGetDevices, OperationService,
           OperationDevice
  <2>. QED BY <1>2, <2>1, <2>2, <2>3, AnswerKeeps DEF RequestNext
<1>. QED BY <1>1, <1>2 DEF ManagerNext

(* What the Manager answers about services and devices is what happened at *)
(* the agents, for any number of them and of items, whoever fails, answers *)
(* too late or cannot be resolved (the loops of admin_mgmt_service.cc).    *)
THEOREM AnswersOfManager == ManagerSpec => []AnswersAreTrue
<1>1. ManagerInit => RequestInv
  <2>. SUFFICES ASSUME ManagerInit PROVE RequestInv
    OBVIOUS
  <2>1. done = {} /\ (req = NoRequest \/ req = [NoRequest EXCEPT !.kind = "GetDevices"])
    BY DEF ManagerInit, RequestInit
  <2>2. /\ req \in Request /\ req.todo = {} /\ req.all = {} /\ req.ok = {} /\ req.nok = {}
        /\ req.thrown = {} /\ req.code = 0 /\ (req.kind = "none" => req = NoRequest)
    BY <2>1 DEF NoRequest, Request, Kinds
  <2>. QED
    BY <2>1, <2>2 DEF RequestInv, Sorted, Justified, Ordered, AnswersAreTrue, AnswerIsTruthful,
                      ErrorsAreComplete
<1>2. RequestInv /\ [ManagerNext]_<<pageVars, reqVars>> => RequestInv'
  BY RequestKeeps
<1>3. RequestInv => AnswersAreTrue
  BY DEF RequestInv
<1>. QED BY <1>1, <1>2, <1>3, PTL DEF ManagerSpec

-----------------------------------------------------------------------------
(* Requests about services at an agent. *)

RequestFields == {"pc", "r", "single", "at", "count", "list", "status"}
DocFields == {"id", "service", "path", "apikey", "resource"}
InHandler ==
  {"handler", "POST", "PUT", "GET", "find", "DELETE", "remove", "devices"}

ServicesAt(place) == {d \in svcs : At(place, d)}

HasWildcard(path) == \E i \in DOMAIN path : path[i] \in {"*", "#"} \cup Forbidden

SType ==
  /\ DOMAIN sreq = SThreads /\ DOMAIN changes = SThreads /\ DOMAIN raced = SThreads
  /\ \A t \in SThreads :
       \/ sreq[t].pc = "idle"
       \/ /\ DOMAIN sreq[t] = RequestFields /\ sreq[t].r \in SRequests
          /\ sreq[t].pc \in InHandler \cup {"answered"}
          /\ sreq[t].at \in Nat \ {0} /\ sreq[t].count \in Nat
  /\ IsFiniteSet(svcs)
  /\ \A d \in svcs : DOMAIN d = DocFields /\ (HasWildcard(d.path) => d.path \in Wildcards)

(* Who is past the filter has a good path, and is where its method leads. *)
Routed(q) ==
  q.pc \in InHandler =>
    /\ PathName(q.r.path) /\ ~HasForbidden(q.r.path)
    /\ q.pc \in {"POST", "PUT", "GET", "DELETE"} => q.r.method = q.pc
    /\ q.pc = "find" => q.r.method = "GET"
    /\ q.pc \in {"remove", "devices"} => q.r.method = "DELETE"
    /\ q.pc \in {"DELETE", "remove", "devices"} => ~(q.r.path \in Wildcards /\ q.r.devices)
    /\ q.pc = "devices" => q.r.devices
    /\ q.pc = "handler" => q.at = 1
    /\ q.pc = "POST" /\ q.at # 1 => Validates(q.r)

(* Nothing is changed before the last step, by a POST before the first     *)
(* document.                                                               *)
NotYet(q, c) ==
  /\ q.pc \in {"handler", "PUT", "GET", "find", "DELETE", "remove"} => c = {}
  /\ q.pc = "POST" /\ q.at = 1 => c = {}

InScope(q, c) ==
  \A place \in c :
    /\ place.service = q.r.service
    /\ \/ place.path = Place(q.r).path
       \/ q.r.method = "DELETE" /\ ~q.r.devices /\ q.r.path \in Wildcards

Listed(q) == \A d \in q.list : At(Place(q.r), d)

ToldTrue(q, c) ==
  q.pc = "answered" /\ q.status \in 400..599
    /\ ~(q.r.method = "POST" /\ Len(q.r.elements) > 1)
    /\ ~(q.r.method = "DELETE" /\ q.status = 500) => c = {}

(* Without a service that came in between, those of the place are at most  *)
(* the ones that were counted, and none when the devices are removed.      *)
Recounted(q, newer) ==
  q.r.path \notin Wildcards /\ Place(q.r) \notin newer =>
    /\ q.pc = "remove" => Cardinality(ServicesAt(Place(q.r))) <= q.count
    /\ q.pc = "devices" => ServicesAt(Place(q.r)) = {}

Own(t) ==
  IF sreq[t].pc = "idle" THEN changes[t] = {}
  ELSE /\ Routed(sreq[t]) /\ NotYet(sreq[t], changes[t]) /\ InScope(sreq[t], changes[t])
       /\ Listed(sreq[t]) /\ ToldTrue(sreq[t], changes[t]) /\ Recounted(sreq[t], raced[t])

SInv == SType /\ (\A t \in SThreads : Own(t)) /\ orphaned = {}


(* What a step of thread t leaves of its request, and of the others. *)
Updates(t, pc, at, count, list, status) ==
  /\ DOMAIN sreq' = SThreads
  /\ \A u \in SThreads \ {t} : sreq'[u] = sreq[u]
  /\ DOMAIN sreq'[t] = RequestFields
  /\ sreq'[t].r = sreq[t].r /\ sreq'[t].pc = pc /\ sreq'[t].at = at
  /\ sreq'[t].count = count /\ sreq'[t].list = list /\ sreq'[t].status = status

LEMMA AnswerUpdates ==
  ASSUME SType, NEW t \in SThreads, sreq[t].pc # "idle", NEW status, SAnswer(t, status)
  PROVE  Updates(t, "answered", sreq[t].at, sreq[t].count, sreq[t].list, status)
BY DEF SType, SAnswer, Updates, RequestFields

LEMMA GotoUpdates ==
  ASSUME SType, NEW t \in SThreads, sreq[t].pc # "idle", NEW pc,
         sreq' = [sreq EXCEPT ![t].pc = pc]
  PROVE  Updates(t, pc, sreq[t].at, sreq[t].count, sreq[t].list, sreq[t].status)
BY DEF SType, Updates, RequestFields

(* Services of a place go, or stay, or come with a note to everybody. *)
FewerOrRaced(u) ==
  /\ raced[u] \subseteq raced'[u]
  /\ \A r \in SRequests : Place(r).path \notin Wildcards /\ Place(r) \notin raced'[u] =>
       /\ Cardinality(ServicesAt(Place(r)))' <= Cardinality(ServicesAt(Place(r)))
       /\ ServicesAt(Place(r)) = {} => ServicesAt(Place(r))' = {}

(* A step of one thread is none of the requests of the others. *)
LEMMA OthersKeep ==
  ASSUME SInv, NEW u \in SThreads, sreq'[u] = sreq[u], changes'[u] = changes[u], FewerOrRaced(u),
         IsFiniteSet(svcs), IsFiniteSet(svcs')
  PROVE  Own(u)'
<1>1. Own(u)
  BY DEF SInv
<1>2. CASE sreq[u].pc = "idle"
  BY <1>1, <1>2 DEF Own
<1>3. CASE sreq[u].pc # "idle"
  <2>. DEFINE place == Place(sreq[u].r)
  <2>1. Recounted(sreq[u], raced[u])
    BY <1>1, <1>3 DEF Own
  <2>2. Recounted(sreq[u], raced[u])'
    <3>. SUFFICES ASSUME sreq[u].r.path \notin Wildcards, place \notin raced'[u]
                  PROVE  /\ sreq[u].pc = "remove" => Cardinality(ServicesAt(place))' <= sreq[u].count
                         /\ sreq[u].pc = "devices" => ServicesAt(place)' = {}
      BY DEF Recounted
    <3>1. place.path \notin Wildcards
      BY DEF Place, Wildcards
    <3>2. ServicesAt(place) \in SUBSET svcs /\ ServicesAt(place)' \in SUBSET svcs'
      BY DEF ServicesAt
    <3>3. Cardinality(ServicesAt(place)) \in Nat /\ Cardinality(ServicesAt(place))' \in Nat
      BY <3>2, FS_Subset, FS_CardinalityType
    <3>4. sreq[u].count \in Nat /\ sreq[u].r \in SRequests
      BY <1>3 DEF SInv, SType
    <3>. QED BY <2>1, <3>1, <3>3, <3>4 DEF FewerOrRaced, Recounted
  <2>. QED BY <1>1, <1>3, <2>2 DEF Own, Routed, NotYet, InScope, Listed, ToldTrue
<1>. QED BY <1>2, <1>3

(* A step that changes no document. *)
LEMMA QuietKeeps ==
  ASSUME SInv, NEW t \in SThreads, UNCHANGED <<svcs, changes, raced, orphaned>>,
         DOMAIN sreq' = SThreads, \A u \in SThreads \ {t} : sreq'[u] = sreq[u],
         DOMAIN sreq'[t] = RequestFields, sreq'[t].r \in SRequests,
         sreq'[t].pc \in InHandler \cup {"answered"}, sreq'[t].at \in Nat \ {0},
         sreq'[t].count \in Nat,
         Own(t)'
  PROVE  SInv'
<1>1. SType'
  BY DEF SInv, SType
<1>2. ASSUME NEW u \in SThreads \ {t} PROVE Own(u)'
  <2>1. IsFiniteSet(svcs) /\ IsFiniteSet(svcs')
    BY DEF SInv, SType
  <2>2. \A place : ServicesAt(place)' = ServicesAt(place) /\ Cardinality(ServicesAt(place)) \in Nat
    <3>. TAKE place
    <3>1. ServicesAt(place) \in SUBSET svcs
      BY DEF ServicesAt
    <3>. QED BY <2>1, <3>1, FS_Subset, FS_CardinalityType DEF ServicesAt
  <2>3. FewerOrRaced(u)
    BY <2>2 DEF FewerOrRaced
  <2>. QED BY <2>1, <2>3, OthersKeep
<1>. QED BY <1>1, <1>2 DEF SInv


(* about, which needs no headers, is not a request about services. *)
LEMMA AboutRoute == Route(<<"about">>) = <<"about">>
<1>. DEFINE url == <<"about">>
<1>1. Handlers[1] = url /\ 1 \in DOMAIN Handlers
  BY DEF Handlers
<1>2. RestResourceParse(Handlers[1], url)
  BY <1>1 DEF RestResourceParse
<1>3. 1 \in Found(url) /\ Found(url) \subseteq 1..5
  BY <1>1, <1>2 DEF Found, Handlers
<1>4. \A g \in Found(url) : 1 <= g
  BY <1>3
<1>5. \A h \in Found(url) : (\A g \in Found(url) : h <= g) => h = 1
  BY <1>3
<1>6. (CHOOSE h \in Found(url) : \A g \in Found(url) : h <= g) = 1
  BY <1>3, <1>4, <1>5
<1>. QED BY <1>1, <1>3, <1>6 DEF Route

(* A request that has come in. *)
Arrival(r, h) ==
  IF Verdict(r) # 200 THEN [Entered(r, h) EXCEPT !.pc = "answered", !.status = Verdict(r)]
  ELSE IF h = <<>> THEN [Entered(r, h) EXCEPT !.pc = "answered", !.status = 404]
  ELSE IF h[1] # "services" THEN [Entered(r, h) EXCEPT !.pc = "answered", !.status = 200]
  ELSE Entered(r, h)

LEMMA Arrived ==
  ASSUME NEW r, NEW h, NEW q, q = Arrival(r, h)
  PROVE  /\ DOMAIN q = RequestFields /\ q.r = r /\ q.at = 1 /\ q.count = 0 /\ q.list = {}
         /\ \/ q.pc = "answered"
            \/ q.pc = "handler" /\ Verdict(r) = 200 /\ h[1] = "services"
<1>. DEFINE e == Entered(r, h)
<1>1. /\ DOMAIN e = RequestFields /\ e.r = r /\ e.at = 1 /\ e.count = 0 /\ e.list = {}
      /\ e.pc = "handler"
  BY DEF Entered, RequestFields
<1>2. \/ \E status : q = [e EXCEPT !.pc = "answered", !.status = status]
      \/ q = e /\ Verdict(r) = 200 /\ h[1] = "services"
  <2>1. ASSUME Verdict(r) # 200
        PROVE  q = [e EXCEPT !.pc = "answered", !.status = Verdict(r)]
    BY <2>1, Zenon DEF Arrival
  <2>2. ASSUME Verdict(r) = 200, h = <<>>
        PROVE  q = [e EXCEPT !.pc = "answered", !.status = 404]
    BY <2>2, Zenon DEF Arrival
  <2>3. ASSUME Verdict(r) = 200, h # <<>>, h[1] # "services"
        PROVE  q = [e EXCEPT !.pc = "answered", !.status = 200]
    BY <2>3, Zenon DEF Arrival
  <2>4. ASSUME Verdict(r) = 200, h # <<>>, h[1] = "services" PROVE q = e
    BY <2>4, Zenon DEF Arrival
  <2>. HIDE DEF e
  <2>5. CASE Verdict(r) # 200
    BY <2>1, <2>5
  <2>6. CASE Verdict(r) = 200 /\ h = <<>>
    BY <2>2, <2>6
  <2>7. CASE Verdict(r) = 200 /\ h # <<>> /\ h[1] # "services"
    <3>1. q = [e EXCEPT !.pc = "answered", !.status = 200]
      BY <2>3, <2>7
    <3>. QED BY <3>1, Zenon
  <2>. QED BY <2>4, <2>5, <2>6, <2>7
<1>. HIDE DEF e
<1>3. CASE \E status : q = [e EXCEPT !.pc = "answered", !.status = status]
  BY <1>1, <1>3 DEF RequestFields
<1>. QED BY <1>1, <1>2, <1>3

(* The filter and the search for the handler. *)
LEMMA ReceiveKeeps ==
  ASSUME SInv, NEW t \in SThreads, SReceive(t)
  PROVE  SInv'
<1>0. SType /\ sreq[t].pc = "idle" /\ changes[t] = {} /\ NoChange
  BY DEF SInv, SReceive, Own
<1>a. PICK r \in SRequests : sreq' = [sreq EXCEPT ![t] = Arrival(r, Route(r.url))]
  BY Zenon DEF SReceive, Arrival
<1>. DEFINE q == Arrival(r, Route(r.url))
<1>1. /\ sreq' = [sreq EXCEPT ![t] = q]
      /\ DOMAIN q = RequestFields /\ q.r = r /\ q.at = 1 /\ q.count = 0 /\ q.list = {}
      /\ \/ q.pc = "answered"
         \/ q.pc = "handler" /\ Verdict(r) = 200 /\ Route(r.url)[1] = "services"
  BY <1>a, Arrived
<1>. HIDE DEF q
<1>2. /\ DOMAIN sreq' = SThreads /\ \A u \in SThreads \ {t} : sreq'[u] = sreq[u]
      /\ sreq'[t] = q
  BY <1>0, <1>1 DEF SType
<1>3. q.pc = "handler" => PathName(r.path) /\ ~HasForbidden(r.path)
  <2>1. r.url = <<"about">> => Route(r.url)[1] = "about"
    BY AboutRoute
  <2>. QED BY <1>1, <2>1 DEF Verdict
<1>4. Own(t)'
  BY <1>0, <1>1, <1>2, <1>3 DEF Own, Routed, NotYet, InScope, Listed, ToldTrue, Recounted, NoChange,
                              InHandler
<1>. QED BY <1>0, <1>1, <1>2, <1>4, QuietKeeps DEF NoChange, InHandler

(* services() and service() refuse, or call the operation. *)
LEMMA HandleKeeps ==
  ASSUME SInv, NEW t \in SThreads, SHandle(t)
  PROVE  SInv'
<1>. DEFINE q == sreq[t]
<1>0. /\ SType /\ q.pc = "handler" /\ NoChange /\ Own(t) /\ changes[t] = {}
      /\ q.r \in SRequests /\ q.at \in Nat \ {0} /\ q.count \in Nat
  BY DEF SInv, SHandle, SType, Own, NotYet
<1>1. \/ \E status : SAnswer(t, status)
      \/ /\ sreq' = [sreq EXCEPT ![t].pc = q.r.method]
         /\ ~Refuses(q) /\ q.r.method \in {"GET", "PUT", "DELETE", "POST"}
  BY DEF SHandle, Unknown404
<1>2. CASE \E status : SAnswer(t, status)
  <2>1. PICK status : Updates(t, "answered", q.at, q.count, q.list, status)
    BY <1>0, <1>2, AnswerUpdates
  <2>2. Own(t)'
    BY <1>0, <2>1 DEF Own, Routed, NotYet, InScope, Listed, ToldTrue, Recounted, Updates, NoChange,
                      InHandler
  <2>. QED BY <1>0, <2>1, <2>2, QuietKeeps DEF Updates, NoChange
<1>3. CASE /\ sreq' = [sreq EXCEPT ![t].pc = q.r.method]
           /\ ~Refuses(q) /\ q.r.method \in {"GET", "PUT", "DELETE", "POST"}
  <2>1. Updates(t, q.r.method, q.at, q.count, q.list, q.status)
    BY <1>0, <1>3, GotoUpdates
  <2>2. Own(t)'
    BY <1>0, <1>3, <2>1 DEF Own, Routed, NotYet, InScope, Listed, ToldTrue, Recounted, Updates,
                            NoChange, InHandler, Refuses
  <2>. QED BY <1>0, <1>3, <2>1, <2>2, QuietKeeps DEF Updates, NoChange, InHandler
<1>. QED BY <1>1, <1>2, <1>3


(* The services of a place can be counted. *)
LEMMA PlacesFinite ==
  ASSUME IsFiniteSet(svcs), NEW S \in SUBSET svcs
  PROVE  IsFiniteSet(S) /\ Cardinality(S) \in Nat
BY FS_Subset, FS_CardinalityType

(* A search counts and lists, and changes nothing. *)
LEMMA GetKeeps ==
  ASSUME SInv, NEW t \in SThreads, CountServices(t) \/ FindServices(t)
  PROVE  SInv'
<1>. DEFINE q == sreq[t]
            all == {d \in svcs :
                      At(Place(q.r), d) /\ (q.r.resource = "" \/ d.resource = q.r.resource)}
<1>0. /\ SType /\ q.pc \in {"GET", "find"} /\ NoChange /\ Own(t) /\ changes[t] = {}
      /\ q.r \in SRequests /\ q.at \in Nat \ {0} /\ q.count \in Nat
  BY DEF SInv, CountServices, FindServices, SType, Own, NotYet
<1>1. Routed(q) /\ Listed(q)
  BY <1>0 DEF Own
<1>2. CASE \E status : SAnswer(t, status)
  <2>1. PICK status : Updates(t, "answered", q.at, q.count, q.list, status)
    BY <1>0, <1>2, AnswerUpdates
  <2>2. Own(t)'
    BY <1>0, <1>1, <2>1 DEF Own, Routed, NotYet, InScope, Listed, ToldTrue, Recounted, Updates,
                            NoChange, InHandler
  <2>. QED BY <1>0, <2>1, <2>2, QuietKeeps DEF Updates, NoChange
<1>3. CASE q.pc = "GET" /\ \E n \in Nat : sreq' = [sreq EXCEPT ![t].pc = "find", ![t].count = n]
  <2>1. PICK n \in Nat : Updates(t, "find", q.at, n, q.list, q.status)
    BY <1>0, <1>3 DEF SType, Updates, RequestFields
  <2>2. Own(t)'
    BY <1>0, <1>1, <1>3, <2>1 DEF Own, Routed, NotYet, InScope, Listed, ToldTrue, Recounted,
                                  Updates, NoChange, InHandler
  <2>. QED BY <1>0, <2>1, <2>2, QuietKeeps DEF Updates, NoChange, InHandler
<1>4. CASE \E l \in SUBSET all :
             sreq' = [sreq EXCEPT ![t].pc = "answered", ![t].status = 200, ![t].list = l]
  <2>1. PICK l \in SUBSET all :
          sreq' = [sreq EXCEPT ![t].pc = "answered", ![t].status = 200, ![t].list = l]
    BY <1>4
  <2>2. \A d \in l : At(Place(q.r), d)
    OBVIOUS
  <2>. HIDE DEF all
  <2>3. Updates(t, "answered", q.at, q.count, l, 200)
    BY <1>0, <2>1 DEF SType, Updates, RequestFields
  <2>4. Own(t)'
    BY <1>0, <1>1, <2>2, <2>3 DEF Own, Routed, NotYet, InScope, Listed, ToldTrue, Recounted, Updates,
                            NoChange, InHandler
  <2>. QED BY <1>0, <2>3, <2>4, QuietKeeps DEF Updates, NoChange
<1>5. CASE CountServices(t)
  <2>1. Cardinality(all) \in Nat
    BY <1>0, PlacesFinite DEF SType
  <2>. QED BY <1>2, <1>3, <1>5, <2>1 DEF CountServices
<1>6. CASE FindServices(t)
  BY <1>4, <1>6 DEF FindServices
<1>. QED BY <1>5, <1>6

(* A step that changes documents. *)
LEMMA ChangeKeeps ==
  ASSUME SInv, NEW t \in SThreads, DOMAIN changes' = SThreads, DOMAIN raced' = SThreads,
         \A u \in SThreads \ {t} : changes'[u] = changes[u] /\ FewerOrRaced(u),
         DOMAIN sreq' = SThreads, \A u \in SThreads \ {t} : sreq'[u] = sreq[u],
         DOMAIN sreq'[t] = RequestFields, sreq'[t].r \in SRequests,
         sreq'[t].pc \in InHandler \cup {"answered"}, sreq'[t].at \in Nat \ {0},
         sreq'[t].count \in Nat,
         IsFiniteSet(svcs'), orphaned' = {},
         \A d \in svcs' : DOMAIN d = DocFields /\ (HasWildcard(d.path) => d.path \in Wildcards),
         Own(t)'
  PROVE  SInv'
<1>1. SType'
  BY DEF SInv, SType, HasWildcard
<1>2. ASSUME NEW u \in SThreads \ {t} PROVE Own(u)'
  BY OthersKeep DEF SInv, SType
<1>. QED BY <1>1, <1>2 DEF SInv

(* Services go. *)
LEMMA FewerServices ==
  ASSUME IsFiniteSet(svcs), svcs' \subseteq svcs, UNCHANGED raced, NEW u \in SThreads
  PROVE  IsFiniteSet(svcs') /\ FewerOrRaced(u)
<1>1. IsFiniteSet(svcs')
  BY FS_Subset
<1>2. ASSUME NEW place
      PROVE  /\ Cardinality(ServicesAt(place))' <= Cardinality(ServicesAt(place))
             /\ ServicesAt(place) = {} => ServicesAt(place)' = {}
  <2>1. ServicesAt(place)' \in SUBSET ServicesAt(place) /\ ServicesAt(place) \in SUBSET svcs
    BY DEF ServicesAt
  <2>2. IsFiniteSet(ServicesAt(place))
    BY <2>1, FS_Subset
  <2>. QED BY <2>1, <2>2, FS_Subset, FS_EmptySet
<1>. QED BY <1>1, <1>2 DEF FewerOrRaced


(* An operation that fails before it changes anything. *)
LEMMA FailKeeps ==
  ASSUME SInv, NEW t \in SThreads, sreq[t].pc \in InHandler, changes[t] = {}, NEW status,
         SAnswer(t, status), NoChange
  PROVE  SInv'
<1>. DEFINE q == sreq[t]
<1>0. /\ SType /\ q.pc # "idle" /\ Own(t)
      /\ q.r \in SRequests /\ q.at \in Nat \ {0} /\ q.count \in Nat
  BY DEF SInv, SType, InHandler
<1>1. Updates(t, "answered", q.at, q.count, q.list, status)
  BY <1>0, AnswerUpdates
<1>2. Own(t)'
  BY <1>0, <1>1 DEF Own, Routed, NotYet, InScope, Listed, ToldTrue, Recounted, Updates, NoChange,
                    InHandler
<1>. QED BY <1>0, <1>1, <1>2, QuietKeeps DEF Updates, NoChange

(* DELETE: the services of the place are counted. *)
LEMMA CountForDeleteKeeps ==
  ASSUME SInv, NEW t \in SThreads, CountForDelete(t)
  PROVE  SInv'
<1>. DEFINE q == sreq[t]
            place == Place(q.r)
<1>0. /\ SType /\ q.pc = "DELETE" /\ Own(t) /\ Routed(q) /\ Listed(q) /\ changes[t] = {}
      /\ q.r \in SRequests /\ q.at \in Nat \ {0} /\ q.count \in Nat
      /\ UNCHANGED <<svcs, devs, changes, orphaned>> /\ IsFiniteSet(svcs) /\ orphaned = {}
  BY DEF SInv, CountForDelete, SType, Own, NotYet
<1>1. CASE SAnswer(t, 500) /\ UNCHANGED raced
  BY <1>0, <1>1, FailKeeps DEF NoChange, InHandler
<1>2. CASE /\ sreq' = [sreq EXCEPT ![t].pc = "remove", ![t].count = Cardinality(ServicesAt(place))]
           /\ raced' = [raced EXCEPT ![t] = {}]
  <2>1. Cardinality(ServicesAt(place)) \in Nat
    BY <1>0, PlacesFinite DEF ServicesAt
  <2>2. Updates(t, "remove", q.at, Cardinality(ServicesAt(place)), q.list, q.status)
    BY <1>0, <1>2 DEF SType, Updates, RequestFields
  <2>3. \A p : ServicesAt(p)' = ServicesAt(p)
    BY <1>0 DEF ServicesAt
  <2>4. Own(t)'
    <3>1. Recounted(sreq[t], raced[t])'
      BY <2>1, <2>2, <2>3 DEF Recounted, Updates
    <3>. QED BY <1>0, <2>2, <3>1 DEF Own, Routed, NotYet, InScope, Listed, ToldTrue, Updates,
                                      InHandler
  <2>5. DOMAIN raced' = SThreads /\ \A u \in SThreads \ {t} : raced'[u] = raced[u]
    BY <1>0, <1>2 DEF SType
  <2>6. \A p : Cardinality(ServicesAt(p)) \in Nat
    BY <1>0, PlacesFinite DEF ServicesAt
  <2>7. \A u \in SThreads \ {t} : FewerOrRaced(u)
    BY <2>3, <2>5, <2>6 DEF FewerOrRaced
  <2>8. \A d \in svcs' : DOMAIN d = DocFields /\ (HasWildcard(d.path) => d.path \in Wildcards)
    BY <1>0 DEF SType
  <2>. QED BY <1>0, <2>1, <2>2, <2>4, <2>5, <2>7, <2>8, ChangeKeeps
            DEF Updates, InHandler, SType
<1>. QED BY <1>1, <1>2 DEF CountForDelete, ServicesAt

(* DELETE: services of the place go, all of them or some. *)
LEMMA RemoveServicesKeeps ==
  ASSUME SInv, NEW t \in SThreads, RemoveServices(t)
  PROVE  SInv'
<1>. DEFINE q == sreq[t]
            place == Place(q.r)
            gone == ToRemove(q.r)
            places == {[service |-> d.service, path |-> d.path] : d \in gone}
<1>0. /\ SType /\ q.pc = "remove" /\ Own(t) /\ Routed(q) /\ Listed(q) /\ changes[t] = {}
      /\ Recounted(q, raced[t])
      /\ q.r \in SRequests /\ q.at \in Nat \ {0} /\ q.count \in Nat
      /\ UNCHANGED <<devs, raced, orphaned>> /\ IsFiniteSet(svcs) /\ orphaned = {}
  BY DEF SInv, RemoveServices, SType, Own, NotYet
<1>1. CASE SAnswer(t, 500) /\ UNCHANGED <<svcs, changes>>
  BY <1>0, <1>1, FailKeeps DEF NoChange, InHandler
<1>2. CASE /\ svcs' = svcs \ gone /\ changes' = [changes EXCEPT ![t] = @ \cup places]
           /\ IF q.count = Cardinality(gone) /\ q.r.devices
              THEN sreq' = [sreq EXCEPT ![t].pc = "devices"] ELSE SAnswer(t, 204)
  <2>1. \/ /\ Updates(t, "devices", q.at, q.count, q.list, q.status)
           /\ q.count = Cardinality(gone) /\ q.r.devices
        \/ Updates(t, "answered", q.at, q.count, q.list, 204)
    BY <1>0, <1>2, GotoUpdates, AnswerUpdates
  <2>2. /\ DOMAIN changes' = SThreads /\ changes'[t] = places
        /\ \A u \in SThreads \ {t} : changes'[u] = changes[u]
    BY <1>0, <1>2 DEF SType
  <2>3. IsFiniteSet(svcs') /\ \A u \in SThreads : FewerOrRaced(u)
    BY <1>0, <1>2, FewerServices
  <2>4. \A p \in places : /\ p.service = q.r.service
                          /\ p.path = place.path \/ (q.r.path \in Wildcards /\ ~q.r.devices)
    <3>. SUFFICES ASSUME NEW d \in gone
                  PROVE  /\ d.service = q.r.service
                         /\ d.path = place.path \/ (q.r.path \in Wildcards /\ ~q.r.devices)
      OBVIOUS
    <3>1. At(place, d)
      BY DEF ToRemove
    <3>2. place.service = q.r.service /\ (place.path \in Wildcards => q.r.path \in Wildcards)
      BY DEF Place, Wildcards
    <3>. QED BY <1>0, <3>1, <3>2 DEF At, Routed, InHandler
  <2>5. ASSUME q.r.path \notin Wildcards, place \notin raced[t], q.count = Cardinality(gone)
        PROVE  ServicesAt(place)' = {}
    <3>1. gone \in SUBSET ServicesAt(place) /\ ServicesAt(place) \in SUBSET svcs
      BY DEF ToRemove, ServicesAt
    <3>2. IsFiniteSet(ServicesAt(place)) /\ Cardinality(ServicesAt(place)) \in Nat
      BY <1>0, <3>1, PlacesFinite
    <3>3. Cardinality(ServicesAt(place)) <= q.count
      BY <1>0, <2>5 DEF Recounted
    <3>4. Cardinality(gone) <= Cardinality(ServicesAt(place))
      BY <3>1, <3>2, FS_Subset
    <3>5. Cardinality(ServicesAt(place)) = Cardinality(gone)
      BY <1>0, <2>5, <3>2, <3>3, <3>4
    <3>6. gone = ServicesAt(place)
      BY <3>1, <3>2, <3>5, FS_Subset
    <3>7. sreq'[t].r = q.r
      BY <2>1 DEF Updates
    <3>. QED BY <1>2, <3>6, <3>7 DEF ServicesAt
  <2>6. Own(t)'
    <3>1. InScope(sreq[t], changes[t])'
      BY <1>0, <2>1, <2>2, <2>4 DEF InScope, Updates, Routed, InHandler
    <3>2. Recounted(sreq[t], raced[t])'
      BY <1>0, <2>1, <2>5 DEF Recounted, Updates
    <3>3. ToldTrue(sreq[t], changes[t])' /\ NotYet(sreq[t], changes[t])'
      <4>1. ~(204 \in 400..599)
        OBVIOUS
      <4>. QED BY <2>1, <4>1 DEF ToldTrue, NotYet, Updates
    <3>4. Routed(sreq[t])' /\ Listed(sreq[t])'
      BY <1>0, <2>1 DEF Routed, Listed, Updates, InHandler
    <3>. QED BY <2>1, <3>1, <3>2, <3>3, <3>4 DEF Own, Updates
  <2>7. \A d \in svcs' : DOMAIN d = DocFields /\ (HasWildcard(d.path) => d.path \in Wildcards)
    BY <1>0, <1>2 DEF SType
  <2>8. DOMAIN raced' = SThreads
    BY <1>0 DEF SType
  <2>. QED BY <1>0, <2>1, <2>2, <2>3, <2>6, <2>7, <2>8, ChangeKeeps DEF Updates, InHandler
<1>. QED BY <1>1, <1>2 DEF RemoveServices

(* DELETE: the devices of the place go, when no service of it is left. *)
LEMMA RemoveDevicesKeeps ==
  ASSUME SInv, NEW t \in SThreads, RemoveDevices(t)
  PROVE  SInv'
<1>. DEFINE q == sreq[t]
            place == Place(q.r)
<1>0. /\ SType /\ q.pc = "devices" /\ Own(t) /\ Routed(q) /\ Listed(q)
      /\ InScope(q, changes[t]) /\ Recounted(q, raced[t]) /\ q.r.path \notin Wildcards
      /\ q.r.method = "DELETE"
      /\ q.r \in SRequests /\ q.at \in Nat \ {0} /\ q.count \in Nat
      /\ UNCHANGED <<svcs, raced>> /\ IsFiniteSet(svcs) /\ orphaned = {}
  BY DEF SInv, RemoveDevices, SType, Own, Routed, InHandler
<1>1. PICK status \in {204, 500} :
        /\ Updates(t, "answered", q.at, q.count, q.list, status)
        /\ DOMAIN changes' = SThreads /\ \A u \in SThreads \ {t} : changes'[u] = changes[u]
        /\ changes'[t] \subseteq changes[t] \cup {place}
        /\ status = 204 => changes'[t] = changes[t] \cup (devs \cap {place})
  <2>1. CASE SAnswer(t, 500) /\ UNCHANGED <<devs, changes, orphaned>>
    <3>1. Updates(t, "answered", q.at, q.count, q.list, 500)
      BY <1>0, <2>1, AnswerUpdates
    <3>. QED BY <1>0, <2>1, <3>1 DEF SType
  <2>2. CASE SAnswer(t, 204) /\ changes' = [changes EXCEPT ![t] = @ \cup (devs \cap {place})]
    <3>1. Updates(t, "answered", q.at, q.count, q.list, 204)
      BY <1>0, <2>2, AnswerUpdates
    <3>. QED BY <1>0, <2>2, <3>1 DEF SType
  <2>. QED BY <2>1, <2>2 DEF RemoveDevices
<1>2. orphaned' = {}
  <2>1. place \notin raced[t] => ~\E d \in svcs : At(place, d)
    BY <1>0 DEF Recounted, ServicesAt
  <2>. QED BY <1>0, <2>1 DEF RemoveDevices
<1>3. /\ IsFiniteSet(svcs') /\ \A u \in SThreads : FewerOrRaced(u)
  BY <1>0, FewerServices
<1>4. Own(t)'
  <2>1. InScope(sreq[t], changes[t])'
    <3>1. place.service = q.r.service
      BY DEF Place
    <3>. QED BY <1>0, <1>1, <3>1 DEF InScope, Updates
  <2>2. ToldTrue(sreq[t], changes[t])'
    <3>1. sreq'[t].r = q.r /\ sreq'[t].status \in {204, 500}
      BY <1>1, Zenon DEF Updates
    <3>2. sreq'[t].status \in 400..599 => sreq'[t].status = 500
      BY <3>1
    <3>. HIDE DEF q
    <3>. QED BY <1>0, <3>1, <3>2 DEF ToldTrue
  <2>. QED BY <1>0, <1>1, <2>1, <2>2 DEF Own, Routed, NotYet, Listed, Recounted, Updates, InHandler
<1>5. \A d \in svcs' : DOMAIN d = DocFields /\ (HasWildcard(d.path) => d.path \in Wildcards)
  BY <1>0 DEF SType
<1>. QED BY <1>0, <1>1, <1>2, <1>3, <1>4, <1>5, ChangeKeeps DEF Updates, SType


(* A document is stored under a name without wildcards, or the bare one. *)
LEMMA StoredName ==
  ASSUME NEW r \in SRequests, PathName(r.path), ~HasForbidden(r.path), HasWildcard(Place(r).path)
  PROVE  Place(r).path \in Wildcards
<1>1. CASE r.path = <<>>
  <2>1. Place(r).path = <<"/">>
    BY <1>1 DEF Place
  <2>2. DOMAIN <<"/">> = {1} /\ <<"/">>[1] = "/"
    OBVIOUS
  <2>3. ~HasWildcard(<<"/">>)
    BY <2>2 DEF HasWildcard, Forbidden
  <2>. QED BY <2>1, <2>3
<1>2. CASE r.path # <<>>
  <2>1. Place(r).path = r.path
    BY <1>2 DEF Place
  <2>2. DOMAIN r.path = 1..Len(r.path) /\ Len(r.path) \in Nat
    BY ServicesAssumption
  <2>3. PICK i \in 1..Len(r.path) : r.path[i] \in {"*", "#"}
    BY <2>1, <2>2 DEF HasWildcard, HasForbidden
  <2>4. CASE r.path[1] = "/" /\ \A k \in 2..Len(r.path) : r.path[k] \in Lower \cup Upper \cup {"_"}
    <3>1. i # 1
      BY <2>3, <2>4
    <3>2. i \in 2..Len(r.path)
      BY <2>2, <3>1
    <3>. QED BY <2>3, <2>4, <3>2 DEF Lower, Upper
  <2>. QED BY <1>2, <2>1, <2>4 DEF PathName
<1>. QED BY <1>1, <1>2

(* POST: one document is refused, or inserted, or the database fails. *)
LEMMA PostKeeps ==
  ASSUME SInv, NEW t \in SThreads, PostServiceJson(t)
  PROVE  SInv'
<1>. DEFINE q == sreq[t]
            place == Place(q.r)
<1>0. /\ SType /\ q.pc = "POST" /\ Own(t) /\ Routed(q) /\ Listed(q) /\ InScope(q, changes[t])
      /\ NotYet(q, changes[t])
      /\ q.r \in SRequests /\ q.at \in Nat \ {0} /\ q.count \in Nat
      /\ IsFiniteSet(svcs) /\ orphaned = {} /\ q.r.method = "POST"
      /\ PathName(q.r.path) /\ ~HasForbidden(q.r.path)
  BY DEF SInv, PostServiceJson, SType, Own, Routed, InHandler
<1>1. Len(q.r.elements) \in Nat
  BY <1>0, ServicesAssumption
<1>2. ASSUME NEW status, SAnswer(t, status), NoChange,
             status = 201 \/ q.at = 1 \/ q.at <= Len(q.r.elements)
      PROVE  SInv'
  <2>1. Updates(t, "answered", q.at, q.count, q.list, status)
    BY <1>0, <1>2, AnswerUpdates
  <2>2. ToldTrue(sreq[t], changes[t])'
    <3>1. CASE status = 201
      BY <2>1, <3>1 DEF ToldTrue, Updates
    <3>2. CASE q.at = 1
      BY <1>0, <1>2, <2>1, <3>2 DEF ToldTrue, Updates, NotYet, NoChange
    <3>3. CASE q.at <= Len(q.r.elements) /\ q.at # 1
      <4>1. Len(q.r.elements) > 1
        BY <1>0, <1>1, <3>3
      <4>. QED BY <1>0, <2>1, <4>1 DEF ToldTrue, Updates
    <3>. QED BY <1>2, <3>1, <3>2, <3>3
  <2>3. Own(t)'
    BY <1>0, <1>2, <2>1, <2>2 DEF Own, Routed, NotYet, InScope, Listed, Recounted, Updates, NoChange,
                                  InHandler
  <2>. QED BY <1>0, <1>2, <2>1, <2>3, QuietKeeps DEF Updates, NoChange
<1>3. ASSUME NEW e, Inserted(t, place, e), sreq' = [sreq EXCEPT ![t].at = @ + 1],
             Validates(q.r), UNCHANGED <<devs, orphaned>>
      PROVE  SInv'
  <2>1. PICK new :
          /\ svcs' = svcs \cup {new} /\ DOMAIN new = DocFields
          /\ new.service = place.service /\ new.path = place.path
    <3>1. PICK id \in 1..MaxDocs :
            svcs' = svcs \cup {[id |-> id, service |-> place.service, path |-> place.path,
                                apikey |-> e.apikey, resource |-> e.resource]}
      BY <1>3 DEF Inserted
    <3>. DEFINE doc == [id |-> id, service |-> place.service, path |-> place.path,
                        apikey |-> e.apikey, resource |-> e.resource]
    <3>2. DOMAIN doc = DocFields /\ doc.service = place.service /\ doc.path = place.path
      BY DEF DocFields
    <3>. HIDE DEF doc
    <3>. QED BY <3>1, <3>2 DEF doc
  <2>2. /\ changes' = [changes EXCEPT ![t] = @ \cup {place}]
        /\ raced' = [u \in SThreads |-> raced[u] \cup {place}]
    BY <1>3 DEF Inserted
  <2>3. /\ DOMAIN changes' = SThreads /\ changes'[t] = changes[t] \cup {place}
        /\ \A u \in SThreads \ {t} : changes'[u] = changes[u]
    BY <1>0, <2>2 DEF SType
  <2>4. Updates(t, "POST", q.at + 1, q.count, q.list, q.status)
    BY <1>0, <1>3 DEF SType, Updates, RequestFields
  <2>5. IsFiniteSet(svcs')
    BY <1>0, <2>1, FS_AddElement
  <2>6. ASSUME NEW u \in SThreads PROVE FewerOrRaced(u)
    <3>. SUFFICES ASSUME NEW r \in SRequests, Place(r).path \notin Wildcards, Place(r) \notin raced'[u]
                  PROVE  /\ ServicesAt(Place(r))' = ServicesAt(Place(r))
                         /\ Cardinality(ServicesAt(Place(r))) \in Nat
      BY <2>2 DEF FewerOrRaced
    <3>1. Place(r) # place
      BY <2>2
    <3>2. ~(Place(r).service = place.service /\ Place(r).path = place.path)
      BY <3>1 DEF Place
    <3>3. ~At(Place(r), new)
      BY <2>1, <3>2 DEF At
    <3>. QED BY <1>0, <2>1, <3>3, PlacesFinite DEF ServicesAt
  <2>7. \A d \in svcs' : DOMAIN d = DocFields /\ (HasWildcard(d.path) => d.path \in Wildcards)
    BY <1>0, <2>1, StoredName DEF SType
  <2>8. Own(t)'
    <3>1. InScope(sreq[t], changes[t])'
      <4>1. place.service = q.r.service
        BY DEF Place
      <4>. QED BY <1>0, <2>3, <2>4, <4>1 DEF InScope, Updates
    <3>2. q.at + 1 # 1
      BY <1>0
    <3>. QED BY <1>0, <1>3, <2>4, <3>1, <3>2 DEF Own, Routed, NotYet, Listed, ToldTrue, Recounted,
                                                 Updates, InHandler
  <2>9. DOMAIN raced' = SThreads /\ orphaned' = {}
    BY <1>0, <1>3, <2>2
  <2>10. q.at + 1 \in Nat \ {0}
    BY <1>0
  <2>. QED BY <1>0, <2>3, <2>4, <2>5, <2>6, <2>7, <2>8, <2>9, <2>10, ChangeKeeps
           DEF Updates, InHandler
<1>4. CASE ~Validates(q.r)
  <2>1. q.at = 1
    BY <1>0, <1>4 DEF Routed, InHandler
  <2>. QED BY <1>2, <1>4, <2>1 DEF PostServiceJson
<1>5. CASE Validates(q.r) /\ q.at > Len(q.r.elements)
  BY <1>2, <1>5 DEF PostServiceJson
<1>6. CASE Validates(q.r) /\ ~(q.at > Len(q.r.elements))
  <2>1. q.at <= Len(q.r.elements)
    BY <1>0, <1>1, <1>6
  <2>2. \/ \E status : SAnswer(t, status) /\ NoChange
        \/ /\ Inserted(t, place, q.r.elements[q.at])
           /\ sreq' = [sreq EXCEPT ![t].at = @ + 1] /\ UNCHANGED <<devs, orphaned>>
    BY <1>6, Zenon DEF PostServiceJson
  <2>. QED BY <1>2, <1>3, <1>6, <2>1, <2>2
<1>. QED BY <1>4, <1>5, <1>6

(* PUT: one document of the place gets another resource. *)
LEMMA PutKeeps ==
  ASSUME SInv, NEW t \in SThreads, PutServiceJson(t)
  PROVE  SInv'
<1>. DEFINE q == sreq[t]
            place == Place(q.r)
<1>0. /\ SType /\ q.pc = "PUT" /\ Own(t) /\ Routed(q) /\ Listed(q) /\ changes[t] = {}
      /\ q.r \in SRequests /\ q.at \in Nat \ {0} /\ q.count \in Nat
      /\ IsFiniteSet(svcs) /\ orphaned = {}
  BY DEF SInv, PutServiceJson, SType, Own, NotYet
<1>1. CASE \E status : SAnswer(t, status) /\ NoChange
  BY <1>0, <1>1, FailKeeps DEF InHandler
<1>2. ASSUME NEW d \in svcs, NEW resource,
             svcs' = (svcs \ {d}) \cup {[d EXCEPT !.resource = resource]},
             changes' = [changes EXCEPT ![t] = @ \cup {place}], SAnswer(t, 204),
             UNCHANGED <<devs, raced, orphaned>>
      PROVE  SInv'
  <2>. DEFINE new == [d EXCEPT !.resource = resource]
  <2>1. DOMAIN new = DocFields /\ new.service = d.service /\ new.path = d.path
    BY <1>0 DEF SType, DocFields
  <2>2. svcs' = (svcs \ {d}) \cup {new}
    BY <1>2
  <2>. HIDE DEF new
  <2>3. Updates(t, "answered", q.at, q.count, q.list, 204)
    BY <1>0, <1>2, AnswerUpdates
  <2>4. /\ DOMAIN changes' = SThreads /\ changes'[t] = {place}
        /\ \A u \in SThreads \ {t} : changes'[u] = changes[u]
    BY <1>0, <1>2 DEF SType
  <2>5. IsFiniteSet(svcs \ {d}) /\ IsFiniteSet(svcs')
    <3>1. IsFiniteSet(svcs \ {d})
      BY <1>0, FS_RemoveElement
    <3>. QED BY <2>2, <3>1, FS_AddElement
  <2>6. ASSUME NEW u \in SThreads PROVE FewerOrRaced(u)
    <3>1. ASSUME NEW r \in SRequests
          PROVE  /\ Cardinality(ServicesAt(Place(r)))' <= Cardinality(ServicesAt(Place(r)))
                 /\ ServicesAt(Place(r)) = {} => ServicesAt(Place(r))' = {}
      <4>. DEFINE S == ServicesAt(Place(r))
      <4>1. At(Place(r), new) <=> At(Place(r), d)
        BY <2>1 DEF At
      <4>2. S \in SUBSET svcs /\ IsFiniteSet(S) /\ Cardinality(S) \in Nat
        BY <1>0, PlacesFinite DEF ServicesAt
      <4>3. CASE At(Place(r), d)
        <5>1. d \in S /\ ServicesAt(Place(r))' = (S \ {d}) \cup {new}
          BY <2>2, <4>1, <4>3 DEF ServicesAt
        <5>. HIDE DEF S
        <5>2. /\ IsFiniteSet(S \ {d}) /\ Cardinality(S \ {d}) = Cardinality(S) - 1
          BY <4>2, <5>1, FS_RemoveElement
        <5>3. Cardinality((S \ {d}) \cup {new})
                \in {Cardinality(S \ {d}), Cardinality(S \ {d}) + 1}
          BY <5>2, FS_AddElement
        <5>4. Cardinality((S \ {d}) \cup {new}) <= Cardinality(S)
          BY <4>2, <5>2, <5>3
        <5>. QED BY <5>1, <5>4 DEF S
      <4>4. CASE ~At(Place(r), d)
        <5>1. ServicesAt(Place(r))' = S
          BY <2>2, <4>1, <4>4 DEF ServicesAt
        <5>. QED BY <4>2, <5>1
      <4>. QED BY <4>3, <4>4
    <3>. QED BY <1>2, <3>1 DEF FewerOrRaced
  <2>7. \A e \in svcs' : DOMAIN e = DocFields /\ (HasWildcard(e.path) => e.path \in Wildcards)
    BY <1>0, <2>1, <2>2 DEF SType
  <2>8. Own(t)'
    <3>1. InScope(sreq[t], changes[t])'
      <4>1. place.service = q.r.service
        BY DEF Place
      <4>. QED BY <1>0, <2>3, <2>4, <4>1 DEF InScope, Updates
    <3>2. ToldTrue(sreq[t], changes[t])'
      BY <2>3 DEF ToldTrue, Updates
    <3>. QED BY <1>0, <2>3, <3>1, <3>2 DEF Own, Routed, NotYet, Listed, Recounted, Updates, InHandler
  <2>9. DOMAIN raced' = SThreads /\ orphaned' = {}
    BY <1>0, <1>2 DEF SType
  <2>. QED BY <1>0, <2>3, <2>4, <2>5, <2>6, <2>7, <2>8, <2>9, ChangeKeeps DEF Updates
<1>3. CASE ~\E status : SAnswer(t, status) /\ NoChange
  <2>1. PICK d, resource :
          /\ d \in svcs
          /\ svcs' = (svcs \ {d}) \cup {[d EXCEPT !.resource = resource]}
          /\ changes' = [changes EXCEPT ![t] = @ \cup {place}] /\ SAnswer(t, 204)
          /\ UNCHANGED <<devs, raced, orphaned>>
    BY <1>3, Zenon DEF PutServiceJson
  <2>. QED BY <1>2, <2>1
<1>. QED BY <1>1, <1>3


LEMMA ServicesStart == SInit("idle") => SInv
<1>. SUFFICES ASSUME SInit("idle") PROVE SInv
  OBVIOUS
<1>1. /\ sreq = [t \in SThreads |-> [pc |-> "idle"]] /\ svcs = FirstServices
      /\ changes = [t \in SThreads |-> {}] /\ raced = [t \in SThreads |-> {}] /\ orphaned = {}
  BY DEF SInit
<1>2. SType
  BY <1>1, ServicesAssumption DEF SType, DocFields, HasWildcard
<1>. QED BY <1>1, <1>2 DEF SInv, Own

LEMMA ServicesStep == SInv /\ [SNext]_sreqVars => SInv'
<1>. SUFFICES ASSUME SInv, [SNext]_sreqVars PROVE SInv'
  OBVIOUS
<1>1. CASE UNCHANGED sreqVars
  <2>1. SType' /\ orphaned' = {}
    BY <1>1 DEF sreqVars, SInv, SType, HasWildcard
  <2>2. ASSUME NEW t \in SThreads PROVE Own(t)'
    BY <1>1 DEF sreqVars, SInv, Own, Routed, NotYet, InScope, Listed, ToldTrue, Recounted, ServicesAt
  <2>. QED BY <2>1, <2>2 DEF SInv
<1>2. CASE SNext
  BY <1>2, ReceiveKeeps, HandleKeeps, PostKeeps, PutKeeps, GetKeeps, CountForDeleteKeeps,
     RemoveServicesKeeps, RemoveDevicesKeeps DEF SNext
<1>. QED BY <1>1, <1>2

(* A request about services changes documents of its own scope, nothing    *)
(* when it is refused, lists only what it asked for, and takes devices away *)
(* only with the last service, for any threads, requests and documents     *)
(* (services() and service() of services/admin_service.cc).                *)
THEOREM ChangesOfServices == SInit("idle") /\ [][SNext]_sreqVars => []ChangesAreOwn
<1>1. SInv => ChangesAreOwn
  <2>. SUFFICES ASSUME SInv PROVE ChangesAreOwn
    OBVIOUS
  <2>1. WithinItsScope
    <3>1. \A d \in svcs : HasWildcard(d.path) => d.path \in Wildcards
      BY DEF SInv, SType
    <3>2. ASSUME NEW t \in SThreads PROVE InScope(sreq[t], changes[t])
      BY DEF SInv, Own, InScope
    <3>. QED BY <3>1, <3>2 DEF WithinItsScope, InScope, HasWildcard
  <2>2. RefusedChangesNothing
    BY DEF SInv, Own, RefusedChangesNothing, Answered, ToldTrue, Listed
  <2>3. DevicesFollowServices
    BY DEF SInv, DevicesFollowServices
  <2>. QED BY <2>1, <2>2, <2>3 DEF ChangesAreOwn
<1>. QED BY <1>1, ServicesStart, ServicesStep, PTL

-----------------------------------------------------------------------------
(* The counters of a plugin. *)

CountingType ==
  [TThreads -> [pc: {"idle", "counter", "find", "add", "reset", "insert"}, at: Nat, time: Nat]]

Opening == {counting[t].time : t \in {u \in TThreads : counting[u].pc = "insert"}}

(* The last hours of A, as the code keeps them: HOURS, or all of them. *)
LastOf(C, A) ==
  /\ C \subseteq A /\ IsFiniteSet(A) /\ Cardinality(C) <= HOURS
  /\ \A b \in A \ C : Cardinality(C) = HOURS /\ \A c \in C : b < c

StatType ==
  /\ clock \in Nat /\ counting \in CountingType
  /\ busyHours \in SUBSET Nat /\ IsFiniteSet(busyHours)
  /\ \A b \in busyHours : b <= clock
  /\ \A t \in TThreads : OpensHour(t) => counting[t].time <= clock

(* As long as no two threads met, who opens an hour is alone and before    *)
(* everything that was counted in it.                                      *)
Alone ==
  \A t \in TThreads : OpensHour(t) =>
    /\ \A b \in busyHours : b < counting[t].time
    /\ \A u \in TThreads : OpensHour(u) => u = t

NoNulls == \A map \in report \cup {accs} : ~HasNull(map)

StatInv ==
  /\ StatType
  /\ DOMAIN accs \subseteq busyHours
  /\ ~met => Alone /\ NoNulls /\ LastOf(DOMAIN accs \cup Opening, busyHours \cup Opening)

(* The last hours are the latest. *)
LEMMA LastAreLatest ==
  ASSUME NEW A \in SUBSET Nat, NEW C, LastOf(C, A)
  PROVE  C = Latest(A)
<1>. USE StatisticsAssumption
<1>0. C \in SUBSET A /\ IsFiniteSet(A) /\ IsFiniteSet(C) /\ Cardinality(C) \in Nat
  BY FS_Subset, FS_CardinalityType DEF LastOf
<1>1. ASSUME NEW h \in C PROVE h \in Latest(A)
  <2>. DEFINE above == {g \in A : g > h}
  <2>1. above \in SUBSET (C \ {h})
    <3>. SUFFICES ASSUME NEW g \in A, g > h PROVE g \in C /\ g # h
      OBVIOUS
    <3>1. h \in Nat /\ g \in Nat
      BY <1>0, <1>1
    <3>2. ~(g < h)
      BY <3>1
    <3>. QED BY <1>1, <3>1, <3>2 DEF LastOf
  <2>2. IsFiniteSet(C \ {h}) /\ Cardinality(C \ {h}) = Cardinality(C) - 1
    BY <1>0, <1>1, FS_RemoveElement
  <2>3. Cardinality(above) <= Cardinality(C) - 1 /\ Cardinality(above) \in Nat
    BY <2>1, <2>2, FS_Subset, FS_CardinalityType
  <2>4. Cardinality(above) < HOURS
    BY <1>0, <2>3 DEF LastOf
  <2>. QED BY <1>0, <1>1, <2>4 DEF Latest
<1>2. ASSUME NEW h \in A \ C PROVE h \notin Latest(A)
  <2>. DEFINE above == {g \in A : g > h}
  <2>1. C \in SUBSET above /\ Cardinality(C) = HOURS
    BY <1>0, <1>2 DEF LastOf
  <2>2. IsFiniteSet(above) /\ Cardinality(above) \in Nat
    BY <1>0, FS_Subset, FS_CardinalityType
  <2>3. HOURS <= Cardinality(above)
    BY <2>1, <2>2, FS_Subset
  <2>4. ~(Cardinality(above) < HOURS)
    BY <2>2, <2>3
  <2>. QED BY <2>4 DEF Latest
<1>. QED BY <1>0, <1>1, <1>2 DEF Latest

(* The oldest hour is one of the hours, and the least. *)
LEMMA OldestHour ==
  ASSUME NEW D \in SUBSET Nat, D # {}
  PROVE  Min(D) \in D /\ \A d \in D : Min(D) <= d
<1>1. PICK m \in D : \A d \in D : ~(<<d, m>> \in OpToRel(<, Nat))
  BY NatLessThanWellFounded, WFMin
<1>2. ASSUME NEW d \in D PROVE m <= d
  <2>1. m \in Nat /\ d \in Nat
    OBVIOUS
  <2>2. ASSUME d < m PROVE <<d, m>> \in OpToRel(<, Nat)
    BY <2>1, <2>2 DEF OpToRel
  <2>3. ~(d < m)
    BY <1>1, <2>2, Zenon
  <2>. QED BY <2>1, <2>3
<1>3. \E x \in D : \A d \in D : x <= d
  BY <1>2
<1>. QED BY <1>3 DEF Min

(* Room is made for an hour that is later than all others. *)
LEMMA RoomForHour ==
  ASSUME NEW B \in SUBSET Nat, NEW map, LastOf(DOMAIN map, B),
         NEW h \in Nat, \A b \in B : b < h
  PROVE  LastOf(DOMAIN OldestErased(map) \cup {h}, B \cup {h})
<1>. USE StatisticsAssumption
<1>. DEFINE D == DOMAIN map
<1>a. D \in SUBSET B /\ IsFiniteSet(B)
  BY DEF LastOf
<1>b. IsFiniteSet(D) /\ Cardinality(D) \in Nat /\ IsFiniteSet(B \cup {h})
  BY <1>a, FS_Subset, FS_CardinalityType, FS_AddElement
<1>c. h \notin B
  OBVIOUS
<1>0. /\ D \in SUBSET B /\ IsFiniteSet(B) /\ IsFiniteSet(D) /\ Cardinality(D) \in Nat
      /\ IsFiniteSet(B \cup {h}) /\ h \notin D /\ D \in SUBSET Nat
  BY <1>a, <1>b, <1>c
<1>1. CASE Cardinality(D) >= HOURS
  <2>1. Cardinality(D) = HOURS /\ D # {}
    BY <1>0, <1>1, FS_EmptySet DEF LastOf
  <2>2. Min(D) \in D /\ \A d \in D : Min(D) <= d
    BY <1>0, <2>1, OldestHour
  <2>. DEFINE E == D \ {Min(D)}
  <2>3. DOMAIN OldestErased(map) = E
    BY <1>1 DEF OldestErased
  <2>4. IsFiniteSet(E) /\ Cardinality(E) = HOURS - 1
    BY <1>0, <2>1, <2>2, FS_RemoveElement
  <2>5. Cardinality(E \cup {h}) = HOURS
    <3>1. h \notin E
      BY <1>0
    <3>. HIDE DEF E
    <3>2. Cardinality(E \cup {h}) = Cardinality(E) + 1
      BY <2>4, <3>1, FS_AddElement
    <3>. QED BY <2>4, <3>2, StatisticsAssumption
  <2>6. \A b \in B \ E : (\A c \in E : b < c) /\ b < h
    <3>. SUFFICES ASSUME NEW b \in B \ E, NEW c \in E PROVE b < c
      OBVIOUS
    <3>1. CASE b = Min(D)
      BY <1>0, <2>2, <3>1
    <3>2. CASE b \notin D
      BY <3>2 DEF LastOf
    <3>. QED BY <3>1, <3>2
  <2>. HIDE DEF E
  <2>7. E \subseteq B
    BY <1>0 DEF E
  <2>8. LastOf(E \cup {h}, B \cup {h})
    <3>1. Cardinality(E \cup {h}) <= HOURS
      BY <2>5
    <3>2. \A b \in (B \cup {h}) \ (E \cup {h}) : \A c \in E \cup {h} : b < c
      BY <2>6
    <3>. QED BY <1>0, <2>5, <2>7, <3>1, <3>2 DEF LastOf
  <2>. QED BY <2>3, <2>8
<1>2. CASE ~(Cardinality(D) >= HOURS)
  <2>1. B = D
    BY <1>0, <1>2 DEF LastOf
  <2>2. DOMAIN OldestErased(map) = D
    BY <1>2 DEF OldestErased
  <2>3. Cardinality(D \cup {h}) = Cardinality(D) + 1
    BY <1>0, FS_AddElement
  <2>4. Cardinality(D \cup {h}) <= HOURS
    BY <1>0, <1>2, <2>3
  <2>. QED BY <1>0, <2>1, <2>2, <2>4 DEF LastOf
<1>. QED BY <1>1, <1>2


(* What a step of thread t does to it, and to no other. *)
Advances(t, pc, time) ==
  /\ counting' \in CountingType
  /\ \A u \in TThreads \ {t} : counting'[u] = counting[u]
  /\ counting'[t].pc = pc /\ counting'[t].time = time

LEMMA NowMoves ==
  ASSUME StatType, NEW t \in TThreads, NEW pc \in {"counter", "find", "insert"}, Now(t, pc)
  PROVE  Advances(t, pc, counting[t].time)
BY DEF StatType, CountingType, Now, Advances

LEMMA CountedMoves ==
  ASSUME StatType, NEW t \in TThreads, Counted(t)
  PROVE  \E pc \in {"idle", "counter"}, time \in Nat : Advances(t, pc, time)
<1>1. CASE counting[t].at = Len(Counters)
  <2>1. counting' = [counting EXCEPT ![t] = Waiting]
    BY <1>1 DEF Counted, StatType, CountingType
  <2>. QED BY <2>1 DEF StatType, CountingType, Advances, Waiting
<1>2. CASE counting[t].at # Len(Counters)
  <2>. DEFINE c == [counting[t] EXCEPT !.pc = "counter", !.at = counting[t].at + 1]
  <2>1. counting' = [counting EXCEPT ![t] = c]
    BY <1>2 DEF Counted
  <2>a. counting[t] \in [pc: {"idle", "counter", "find", "add", "reset", "insert"},
                         at: Nat, time: Nat]
    BY DEF StatType, CountingType
  <2>b. counting[t].at + 1 \in Nat
    BY <2>a
  <2>2. /\ c \in [pc: {"idle", "counter", "find", "add", "reset", "insert"}, at: Nat, time: Nat]
        /\ c.pc = "counter" /\ c.time = counting[t].time
    BY <2>a, <2>b
  <2>. HIDE DEF c
  <2>3. counting[t].time \in Nat
    BY DEF StatType, CountingType
  <2>4. Advances(t, "counter", counting[t].time)
    BY <2>1, <2>2 DEF StatType, CountingType, Advances
  <2>. QED BY <2>3, <2>4
<1>. QED BY <1>1, <1>2

(* A thread that is not opening an hour leaves the hours that are opened. *)
LEMMA QuietStep ==
  ASSUME StatInv, NEW t \in TThreads, ~OpensHour(t),
         NEW pc \in {"idle", "counter", "find", "add"}, NEW time \in Nat, Advances(t, pc, time),
         UNCHANGED <<clock, busyHours, met>>, DOMAIN accs' = DOMAIN accs,
         ~met /\ NoNulls => NoNulls'
  PROVE  StatInv'
<1>1. \A u \in TThreads :
        /\ OpensHour(u)' <=> OpensHour(u)
        /\ counting'[u].pc = "insert" <=> counting[u].pc = "insert"
        /\ OpensHour(u) => counting'[u].time = counting[u].time
  BY DEF Advances, OpensHour
<1>2. Opening' = Opening
  BY <1>1 DEF Opening, OpensHour
<1>3. StatType'
  BY <1>1 DEF StatInv, StatType, Advances
<1>4. Alone => Alone'
  BY <1>1 DEF Alone
<1>5. LastOf(DOMAIN accs \cup Opening, busyHours \cup Opening)
        <=> LastOf(DOMAIN accs \cup Opening, busyHours \cup Opening)'
  BY <1>2 DEF LastOf
<1>. QED BY <1>3, <1>4, <1>5 DEF StatInv


(* The counters of a request, where the hour is there. *)
LEMMA CountingStep ==
  ASSUME StatInv, NEW t \in TThreads,
         \/ TArrive(t) \/ GetStatisticCounter(t) \/ AddAccumulator(t)
         \/ FindAccumulator(t) /\ clock \in DOMAIN accs
  PROVE  StatInv'
<1>0. StatType /\ counting[t].time \in Nat /\ clock \in Nat
  BY DEF StatInv, StatType, CountingType
<1>1. CASE TArrive(t) \/ GetStatisticCounter(t)
  <2>1. PICK pc \in {"counter", "find"} : Advances(t, pc, counting[t].time)
    BY <1>0, <1>1, NowMoves DEF TArrive, GetStatisticCounter
  <2>2. /\ ~OpensHour(t) /\ UNCHANGED <<clock, accs, report, busyHours, met>>
        /\ NoNulls => NoNulls'
    BY <1>1 DEF TArrive, GetStatisticCounter, OpensHour, NoNulls
  <2>. QED BY <1>0, <2>1, <2>2, QuietStep
<1>2. CASE FindAccumulator(t) /\ clock \in DOMAIN accs
  <2>1. /\ ~OpensHour(t) /\ UNCHANGED <<clock, accs, report, busyHours, met>>
        /\ NoNulls => NoNulls'
    BY <1>2 DEF FindAccumulator, OpensHour, NoNulls
  <2>2. CASE Counted(t)
    <3>1. PICK pc \in {"idle", "counter"}, time \in Nat : Advances(t, pc, time)
      BY <1>0, <2>2, CountedMoves
    <3>. QED BY <2>1, <3>1, QuietStep
  <2>3. CASE counting' = [counting EXCEPT ![t].pc = "add", ![t].time = clock]
    <3>1. Advances(t, "add", clock)
      BY <1>0, <2>3 DEF StatType, CountingType, Advances
    <3>. QED BY <1>0, <2>1, <3>1, QuietStep
  <2>. QED BY <1>2, <2>2, <2>3 DEF FindAccumulator
<1>3. CASE AddAccumulator(t)
  <2>. DEFINE h == counting[t].time
  <2>1. PICK pc \in {"idle", "counter"}, time \in Nat : Advances(t, pc, time)
    BY <1>0, <1>3, CountedMoves DEF AddAccumulator
  <2>2. /\ ~OpensHour(t) /\ UNCHANGED <<clock, report, busyHours, met>>
        /\ \/ accs' = accs
           \/ accs' = [accs EXCEPT ![h] = With(accs[h], Name(t), "acc")]
    BY <1>3 DEF AddAccumulator, OpensHour
  <2>3. DOMAIN accs' = DOMAIN accs
    BY <2>2
  <2>4. ASSUME NoNulls PROVE NoNulls'
    <3>1. ~HasNull(accs')
      BY <2>2, <2>4 DEF NoNulls, HasNull, With
    <3>. QED BY <2>2, <2>4, <3>1 DEF NoNulls
  <2>. QED BY <2>1, <2>2, <2>3, <2>4, QuietStep
<1>. QED BY <1>1, <1>2, <1>3

(* An hour is opened: who finds another thread at it has met it. *)
LEMMA OpeningStep ==
  ASSUME StatInv, NEW t \in TThreads, FindAccumulator(t), clock \notin DOMAIN accs
  PROVE  StatInv'
<1>. USE StatisticsAssumption
<1>0. /\ StatType /\ clock \in Nat /\ counting[t].pc = "find"
      /\ counting' = [counting EXCEPT ![t].pc = "reset", ![t].time = clock]
      /\ met' = (met \/ \E u \in TThreads \ {t} : OpensHour(u))
      /\ UNCHANGED <<clock, accs, report, busyHours>>
  BY DEF StatInv, StatType, FindAccumulator
<1>1. Advances(t, "reset", clock)
  BY <1>0 DEF StatType, CountingType, Advances
<1>2. StatType'
  <2>1. \A u \in TThreads : OpensHour(u)' => counting'[u].time <= clock'
    <3>. SUFFICES ASSUME NEW u \in TThreads, OpensHour(u)' PROVE counting'[u].time <= clock
      BY <1>0
    <3>1. CASE u = t
      BY <1>0, <1>1, <3>1 DEF Advances
    <3>2. CASE u # t
      BY <1>1, <1>0, <3>2 DEF Advances, OpensHour, StatType
    <3>. QED BY <3>1, <3>2
  <2>. QED BY <1>0, <1>1, <2>1 DEF StatType, Advances
<1>3. ASSUME ~met' PROVE Alone' /\ NoNulls' /\ LastOf(DOMAIN accs \cup Opening, busyHours \cup Opening)'
  <2>1. ~met /\ \A u \in TThreads : ~OpensHour(u)
    BY <1>0, <1>3 DEF OpensHour
  <2>2. Alone /\ NoNulls /\ LastOf(DOMAIN accs \cup Opening, busyHours \cup Opening)
    BY <2>1 DEF StatInv
  <2>3. Opening = {} /\ Opening' = {}
    BY <1>1, <2>1 DEF Opening, OpensHour, Advances
  <2>4. LastOf(DOMAIN accs, busyHours) /\ LastOf(DOMAIN accs, busyHours)'
    <3>1. DOMAIN accs \cup Opening = DOMAIN accs /\ busyHours \cup Opening = busyHours
      BY <2>3
    <3>. QED BY <1>0, <2>2, <3>1 DEF LastOf
  <2>5. \A b \in busyHours : b < clock
    <3>1. clock \notin busyHours
      <4>. SUFFICES ASSUME clock \in busyHours PROVE FALSE
        OBVIOUS
      <4>1. Cardinality(DOMAIN accs) = HOURS /\ \A c \in DOMAIN accs : clock < c
        BY <2>4 DEF LastOf
      <4>2. DOMAIN accs # {}
        BY <4>1, FS_EmptySet
      <4>. QED BY <1>0, <4>1, <4>2 DEF StatInv, StatType
    <3>. QED BY <1>0, <3>1 DEF StatType
  <2>6. Alone'
    BY <1>0, <1>1, <2>1, <2>5 DEF Alone, Advances, OpensHour
  <2>7. NoNulls'
    BY <1>0, <2>2 DEF NoNulls
  <2>8. DOMAIN accs' \cup Opening' = DOMAIN accs' /\ busyHours' \cup Opening' = busyHours'
    BY <2>3
  <2>. QED BY <2>4, <2>6, <2>7, <2>8 DEF LastOf
<1>. QED BY <1>0, <1>2, <1>3 DEF StatInv

(* The hours that are opened by a thread that is alone. *)
LEMMA OpensAlone ==
  ASSUME Alone, NEW t \in TThreads, OpensHour(t)
  PROVE  Opening = IF counting[t].pc = "insert" THEN {counting[t].time} ELSE {}
BY DEF Alone, Opening, OpensHour


(* An hour is opened by one thread alone: room is made for it ... *)
LEMMA ResetStep ==
  ASSUME StatInv, NEW t \in TThreads, Reset(t)
  PROVE  StatInv'
<1>. USE StatisticsAssumption
<1>. DEFINE h == counting[t].time
<1>0. /\ StatType /\ counting[t].pc = "reset" /\ OpensHour(t)
      /\ accs' = OldestErased(accs) /\ Now(t, "insert")
      /\ UNCHANGED <<clock, report, busyHours, met>>
  BY DEF StatInv, Reset, OpensHour
<1>1. Advances(t, "insert", h)
  BY <1>0, NowMoves
<1>2. /\ \A u \in TThreads : OpensHour(u)' <=> OpensHour(u)
      /\ \A u \in TThreads : OpensHour(u)' => counting'[u].time = counting[u].time
  BY <1>0, <1>1 DEF Advances, OpensHour
<1>3. StatType'
  BY <1>0, <1>1, <1>2 DEF StatType, Advances
<1>4. DOMAIN accs' \subseteq DOMAIN accs /\ \A k \in DOMAIN accs' : accs'[k] = accs[k]
  BY <1>0 DEF OldestErased
<1>5. ASSUME ~met' PROVE Alone' /\ NoNulls' /\ LastOf(DOMAIN accs \cup Opening, busyHours \cup Opening)'
  <2>1. Alone /\ NoNulls /\ LastOf(DOMAIN accs \cup Opening, busyHours \cup Opening)
    BY <1>0, <1>5 DEF StatInv
  <2>2. Alone'
    BY <1>0, <1>2, <2>1 DEF Alone
  <2>3. NoNulls'
    <3>1. ~HasNull(accs')
      BY <1>4, <2>1 DEF NoNulls, HasNull
    <3>. QED BY <1>0, <2>1, <3>1 DEF NoNulls
  <2>4. Opening = {}
    BY <1>0, <2>1, OpensAlone
  <2>5. Opening' = {h}
    BY <1>1, <1>2, <2>2 DEF Alone, Opening, Advances, OpensHour
  <2>6. LastOf(DOMAIN accs, busyHours)
    <3>1. DOMAIN accs \cup Opening = DOMAIN accs /\ busyHours \cup Opening = busyHours
      BY <2>4
    <3>. QED BY <2>1, <3>1
  <2>7. busyHours \in SUBSET Nat /\ h \in Nat /\ \A b \in busyHours : b < h
    BY <1>0, <2>1 DEF StatType, CountingType, Alone
  <2>. HIDE DEF h
  <2>8. LastOf(DOMAIN accs' \cup {h}, busyHours' \cup {h})
    BY <1>0, <2>6, <2>7, RoomForHour
  <2>. QED BY <2>2, <2>3, <2>5, <2>8 DEF LastOf
<1>. QED BY <1>0, <1>3, <1>4, <1>5 DEF StatInv

(* ... and it is put there, with its first counter. *)
LEMMA InsertStep ==
  ASSUME StatInv, NEW t \in TThreads, InsertHour(t)
  PROVE  StatInv'
<1>. DEFINE h == counting[t].time
<1>0. /\ StatType /\ counting[t].pc = "insert" /\ OpensHour(t) /\ h \in Nat /\ h <= clock
      /\ accs' = HourInserted(accs, h, Name(t)) /\ busyHours' = busyHours \cup {h} /\ Counted(t)
      /\ UNCHANGED <<clock, report, met>>
  BY DEF StatInv, StatType, CountingType, InsertHour, OpensHour
<1>1. PICK pc \in {"idle", "counter"}, time \in Nat : Advances(t, pc, time)
  BY <1>0, CountedMoves
<1>2. \A u \in TThreads : OpensHour(u)' => u # t /\ OpensHour(u) /\ counting'[u] = counting[u]
  BY <1>1 DEF Advances, OpensHour
<1>3. StatType'
  <2>1. busyHours' \in SUBSET Nat /\ IsFiniteSet(busyHours') /\ \A b \in busyHours' : b <= clock
    BY <1>0, FS_AddElement DEF StatType
  <2>. QED BY <1>0, <1>1, <1>2, <2>1 DEF StatType, Advances
<1>. HIDE DEF h
<1>4. DOMAIN accs' = DOMAIN accs \cup {h}
  BY <1>0 DEF HourInserted, With
<1>5. ASSUME ~met' PROVE Alone' /\ NoNulls' /\ LastOf(DOMAIN accs \cup Opening, busyHours \cup Opening)'
  <2>1. Alone /\ NoNulls /\ LastOf(DOMAIN accs \cup Opening, busyHours \cup Opening)
    BY <1>0, <1>5 DEF StatInv
  <2>2. \A u \in TThreads : ~OpensHour(u)'
    BY <1>0, <1>2, <2>1 DEF Alone
  <2>3. Opening = {h} /\ Opening' = {}
    <3>1. Opening = {h}
      BY <1>0, <2>1, OpensAlone DEF h
    <3>. QED BY <2>2, <3>1 DEF Opening, OpensHour
  <2>4. Alone'
    BY <2>2 DEF Alone
  <2>5. NoNulls'
    <3>1. h \notin DOMAIN accs
      <4>1. \A b \in busyHours : b < h
        BY <1>0, <2>1 DEF Alone, h
      <4>2. h \notin busyHours
        BY <1>0, <4>1
      <4>. QED BY <4>2 DEF StatInv
    <3>2. accs' = With(accs, h, With([x \in {} |-> x], Name(t), "acc"))
      BY <1>0, <3>1 DEF HourInserted
    <3>3. ~HasNull(accs')
      BY <2>1, <3>1, <3>2 DEF NoNulls, HasNull, With
    <3>. QED BY <1>0, <2>1, <3>3 DEF NoNulls
  <2>6. /\ DOMAIN accs' \cup Opening' = DOMAIN accs \cup Opening
        /\ busyHours' \cup Opening' = busyHours \cup Opening
    BY <1>0, <1>4, <2>3
  <2>. QED BY <2>1, <2>4, <2>5, <2>6 DEF LastOf
<1>6. DOMAIN accs' \subseteq busyHours'
  BY <1>0, <1>4 DEF StatInv
<1>. QED BY <1>3, <1>5, <1>6 DEF StatInv

LEMMA StatStep ==
  ASSUME StatInv, [StatNext]_statVars
  PROVE  StatInv'
<1>1. ASSUME NEW t \in TThreads,
             \/ TArrive(t) \/ GetStatisticCounter(t) \/ FindAccumulator(t) \/ AddAccumulator(t)
             \/ Reset(t) \/ InsertHour(t)
      PROVE  StatInv'
  BY <1>1, CountingStep, OpeningStep, ResetStep, InsertStep
<1>2. ASSUME UNCHANGED <<accs, counting, busyHours, met>>, clock' \in Nat, clock <= clock',
             NoNulls => NoNulls'
      PROVE  StatInv'
  <2>1. Opening' = Opening /\ (Alone => Alone')
    BY <1>2 DEF Opening, Alone, OpensHour
  <2>2. StatType'
    BY <1>2 DEF StatInv, StatType, OpensHour, CountingType
  <2>. QED BY <1>2, <2>1, <2>2 DEF StatInv, LastOf
<1>3. CASE GetStatistics \/ ReportMade \/ HourPasses \/ UNCHANGED statVars
  <2>1. /\ UNCHANGED <<accs, counting, busyHours, met>> /\ clock' \in {clock, clock + 1}
        /\ report' \in {report, {}, {accs}}
    BY <1>3 DEF GetStatistics, ReportMade, HourPasses, statVars
  <2>2. NoNulls => NoNulls'
    BY <2>1 DEF NoNulls
  <2>3. clock' \in Nat /\ clock <= clock'
    BY <2>1 DEF StatInv, StatType
  <2>. QED BY <1>2, <2>1, <2>2, <2>3
<1>. QED BY <1>1, <1>3 DEF StatNext

LEMMA StatStart == StatInit("idle") => StatInv
<1>. USE StatisticsAssumption
<1>. SUFFICES ASSUME StatInit("idle") PROVE StatInv
  OBVIOUS
<1>1. /\ clock = 1 /\ DOMAIN accs = {} /\ report = {} /\ busyHours = {}
      /\ counting = [t \in TThreads |-> [Waiting EXCEPT !.pc = "idle"]]
  BY DEF StatInit
<1>2. [Waiting EXCEPT !.pc = "idle"] = [pc |-> "idle", at |-> 1, time |-> 0]
  BY DEF Waiting
<1>3. counting \in CountingType /\ \A t \in TThreads : ~OpensHour(t)
  BY <1>1, <1>2 DEF CountingType, OpensHour
<1>4. Opening = {}
  BY <1>3 DEF Opening, OpensHour
<1>5. IsFiniteSet({}) /\ Cardinality({}) = 0
  BY FS_EmptySet
<1>6. StatType
  BY <1>1, <1>3, <1>5 DEF StatType
<1>7. LastOf(DOMAIN accs \cup Opening, busyHours \cup Opening)
  <2>1. DOMAIN accs \cup Opening = {} /\ busyHours \cup Opening = {}
    BY <1>1, <1>4
  <2>. QED BY <1>5, <2>1 DEF LastOf
<1>8. Alone /\ NoNulls
  BY <1>1, <1>3 DEF Alone, NoNulls, HasNull
<1>. QED BY <1>1, <1>6, <1>7, <1>8 DEF StatInv

(* The counters of a plugin stay readable and cover the last hours with    *)
(* traffic, for any number of threads, hours and counters, as long as no   *)
(* two threads have opened an hour together (IoTStatistic::operator[]).    *)
THEOREM CountersStay == StatInit("idle") /\ [][StatNext]_statVars => []CountersKept
<1>1. StatInv => CountersKept
  <2>. SUFFICES ASSUME StatInv PROVE CountersKept
    OBVIOUS
  <2>1. OnlyMeetingHurts
    BY DEF StatInv, OnlyMeetingHurts, NoNulls
  <2>2. ASSUME ~met PROVE DOMAIN accs = Latest(busyHours \cup Opening) \ Opening
    <3>0. busyHours \in SUBSET Nat /\ \A t \in TThreads : counting[t].time \in Nat
      BY DEF StatInv, StatType, CountingType
    <3>1. busyHours \cup Opening \in SUBSET Nat
      BY <3>0 DEF Opening
    <3>2. DOMAIN accs \cup Opening = Latest(busyHours \cup Opening)
      BY <2>2, <3>1, LastAreLatest DEF StatInv
    <3>3. DOMAIN accs \cap Opening = {}
      <4>. SUFFICES ASSUME NEW t \in TThreads, OpensHour(t) PROVE counting[t].time \notin busyHours
        BY DEF Opening, OpensHour, StatInv
      <4>1. counting[t].time \in Nat /\ \A b \in busyHours : b < counting[t].time
        BY <2>2, <3>0 DEF StatInv, Alone
      <4>. QED BY <4>1
    <3>. QED BY <3>2, <3>3
  <2>3. HoursKept
    BY <2>2 DEF StatInv, HoursKept, Opening
  <2>. QED BY <2>1, <2>3 DEF CountersKept
<1>. QED BY <1>1, StatStep, StatStart, PTL

-----------------------------------------------------------------------------
(* The start of an agent. *)

OwnName(i) == ~SameName(1..(i - 1), i)

StartType ==
  /\ Len(entries) \in Nat /\ DOMAIN entries = 1..Len(entries) /\ entry \in Nat \ {0}
  /\ main \in {"prepare", "load", "tcp", "http", "running", "exit"}
  /\ main \in {"tcp", "http", "running"} => entry > Len(entries)

(* What was loaded was read before ... *)
ReadBefore ==
  /\ tcpPlugins \subseteq DOMAIN entries /\ httpPlugins \subseteq DOMAIN entries
  /\ up \subseteq DOMAIN entries
  /\ main # "exit" => \A i \in tcpPlugins \cup httpPlugins : i < entry

(* ... and what is good was loaded when it was read. *)
LoadedWhenRead ==
  main # "exit" =>
    \A i \in DOMAIN entries : i < entry /\ Good(i) /\ OwnName(i) =>
      IF entries[i].kind = "http" THEN i \in httpPlugins
      ELSE i \in tcpPlugins /\ i \in up /\ entries[i].endpoint \in tcpServers

(* The servers start one after the other. *)
ServersInTurn ==
  /\ main \in {"http", "running"} => listening = tcpServers
  /\ main = "running" => httpPlugins \subseteq up

(* A name leads to a plugin of this name. *)
NamesLead ==
  /\ \A n \in DOMAIN known : known[n] \in DOMAIN entries /\ entries[known[n]].path = n
  /\ \A i \in up : entries[i].path \in DOMAIN known

StartInv == StartType /\ ReadBefore /\ LoadedWhenRead /\ ServersInTurn /\ NamesLead

LEMMA RegisteredLeads ==
  ASSUME NamesLead, NEW i \in DOMAIN entries, UNCHANGED entries,
         up' = up \cup {i}, known' = Registered(i)
  PROVE  NamesLead'
BY DEF NamesLead, Registered

(* The next resource is read. *)
LEMMA LoadStep ==
  ASSUME StartInv, SkipResource \/ LoadHttp \/ LoadTcp
  PROVE  StartInv'
<1>. DEFINE e == entries[entry]
<1>0. /\ main = "load" /\ main' = "load" /\ entry \in DOMAIN entries /\ entry' = entry + 1
      /\ UNCHANGED <<setup, entries, listening, exitCode>> /\ entry \in Nat
  BY DEF StartInv, StartType, SkipResource, LoadHttp, LoadTcp, LoadService
<1>1. StartType'
  BY <1>0 DEF StartInv, StartType
<1>2. /\ httpPlugins \subseteq httpPlugins' /\ httpPlugins' \subseteq httpPlugins \cup {entry}
      /\ tcpPlugins \subseteq tcpPlugins' /\ tcpPlugins' \subseteq tcpPlugins \cup {entry}
      /\ tcpServers \subseteq tcpServers'
      /\ \/ UNCHANGED <<up, known>>
         \/ up' = up \cup {entry} /\ known' = Registered(entry)
  BY DEF SkipResource, LoadHttp, LoadTcp, LoadService
<1>3. ReadBefore'
  BY <1>0, <1>2 DEF StartInv, StartType, ReadBefore
<1>4. LoadedWhenRead'
  <2>. SUFFICES ASSUME NEW i \in DOMAIN entries, i < entry + 1, Good(i), OwnName(i)
                PROVE  IF entries[i].kind = "http" THEN i \in httpPlugins'
                       ELSE i \in tcpPlugins' /\ i \in up' /\ entries[i].endpoint \in tcpServers'
    BY <1>0 DEF LoadedWhenRead, Good, OwnName, SameName
  <2>1. CASE i < entry
    BY <1>0, <1>2, <2>1 DEF StartInv, LoadedWhenRead
  <2>2. CASE i = entry
    <3>1. httpPlugins \subseteq 1..(i - 1) /\ tcpPlugins \subseteq 1..(i - 1)
      BY <1>0, <2>2 DEF StartInv, StartType, ReadBefore
    <3>2. ~SameName(httpPlugins, i) /\ ~SameName(tcpPlugins, i)
      BY <3>1 DEF OwnName, SameName
    <3>3. CASE entries[i].kind = "http"
      <4>1. LoadHttp
        BY <2>2, <3>3 DEF Good, SkipResource, LoadTcp
      <4>. QED BY <2>2, <3>2, <3>3, <4>1 DEF LoadHttp, LoadService, Good
    <3>4. CASE entries[i].kind = "tcp" /\ entries[i].endpoint # NoEndpoint
      <4>1. LoadTcp
        BY <2>2, <3>4 DEF Good, SkipResource, LoadHttp
      <4>. QED BY <2>2, <3>2, <3>4, <4>1 DEF LoadTcp, Good
    <3>. QED BY <3>3, <3>4 DEF Good
  <2>. QED BY <1>0, <2>1, <2>2 DEF StartInv, StartType
<1>5. ServersInTurn'
  BY <1>0 DEF ServersInTurn
<1>6. NamesLead'
  <2>1. CASE UNCHANGED <<up, known>>
    BY <1>0, <2>1 DEF StartInv, NamesLead
  <2>. QED BY <1>0, <1>2, <2>1, RegisteredLeads DEF StartInv
<1>. QED BY <1>1, <1>3, <1>4, <1>5, <1>6 DEF StartInv

(* The servers start, and stop. *)
LEMMA ServeStep ==
  ASSUME StartInv, Prepare \/ AllLoaded \/ StartTcp \/ StartHttp \/ Shutdown
  PROVE  StartInv'
<1>0. UNCHANGED <<entries, entry, tcpPlugins>>
  BY DEF Prepare, AllLoaded, StartTcp, StartHttp, Shutdown
<1>1. CASE Prepare \/ AllLoaded
  <2>1. /\ UNCHANGED <<tcpServers, listening, httpPlugins, up, known>>
        /\ main \in {"prepare", "load"} /\ main' \in {"load", "tcp", "exit"}
        /\ main' = "tcp" => entry > Len(entries)
    BY <1>1 DEF Prepare, SetupRefused, AllLoaded, Exit
  <2>. QED BY <1>0, <2>1 DEF StartInv, StartType, ReadBefore, LoadedWhenRead, ServersInTurn,
                             NamesLead, Good, OwnName, SameName
<1>2. CASE StartTcp
  <2>1. /\ UNCHANGED <<tcpServers, httpPlugins, up, known>>
        /\ main = "tcp" /\ main' \in {"tcp", "http", "exit"}
        /\ main' = "http" => listening' = tcpServers
    BY <1>2 DEF StartTcp, Exit
  <2>. QED BY <1>0, <2>1 DEF StartInv, StartType, ReadBefore, LoadedWhenRead, ServersInTurn,
                             NamesLead, Good, OwnName, SameName
<1>3. CASE StartHttp
  <2>1. /\ UNCHANGED <<tcpServers, listening, httpPlugins>>
        /\ main = "http" /\ main' \in {"http", "running", "exit"}
        /\ main' = "running" => httpPlugins \subseteq up'
        /\ \/ UNCHANGED <<up, known>>
           \/ \E i \in httpPlugins : up' = up \cup {i} /\ known' = Registered(i)
    BY <1>3 DEF StartHttp, Exit
  <2>2. NamesLead' /\ up \subseteq up' /\ up' \subseteq DOMAIN entries
    <3>1. CASE UNCHANGED <<up, known>>
      BY <1>0, <3>1 DEF StartInv, NamesLead, ReadBefore
    <3>2. ASSUME NEW i \in httpPlugins, up' = up \cup {i}, known' = Registered(i)
          PROVE  NamesLead' /\ up \subseteq up' /\ up' \subseteq DOMAIN entries
      BY <1>0, <3>2, RegisteredLeads DEF StartInv, ReadBefore
    <3>. QED BY <2>1, <3>1, <3>2
  <2>. QED BY <1>0, <2>1, <2>2 DEF StartInv, StartType, ReadBefore, LoadedWhenRead,
                                  ServersInTurn, Good, OwnName, SameName
<1>4. CASE Shutdown
  <2>1. /\ UNCHANGED <<up, known>> /\ httpPlugins' = {} /\ main' = "exit"
    BY <1>4 DEF Shutdown, Exit
  <2>. QED BY <1>0, <2>1 DEF StartInv, StartType, ReadBefore, LoadedWhenRead, ServersInTurn,
                             NamesLead
<1>. QED BY <1>1, <1>2, <1>3, <1>4

(* An agent that runs serves every resource that has nothing wrong and a   *)
(* name of its own, whatever the file holds beside it, and AdminService    *)
(* finds it under its name (main() of app/main.cc).                        *)
THEOREM GoodOnesServe == StartInit("prepare") /\ [][StartNext]_startVars => []GoodResourcesServe
<1>1. StartInit("prepare") => StartInv
  <2>. SUFFICES ASSUME StartInit("prepare") PROVE StartInv
    OBVIOUS
  <2>1. Len(entries) \in Nat /\ DOMAIN entries = 1..Len(entries)
    BY StartAssumption DEF StartInit
  <2>. QED BY <2>1 DEF StartInit, StartInv, StartType, ReadBefore, LoadedWhenRead, ServersInTurn,
                       NamesLead
<1>2. StartInv /\ [StartNext]_startVars => StartInv'
  <2>1. CASE UNCHANGED startVars
    BY <2>1 DEF startVars, StartInv, StartType, ReadBefore, LoadedWhenRead, ServersInTurn,
                NamesLead, Good, OwnName, SameName
  <2>. QED BY <2>1, LoadStep, ServeStep DEF StartNext
<1>3. StartInv => GoodResourcesServe
  <2>. SUFFICES ASSUME StartInv, main = "running", NEW i \in DOMAIN entries, Good(i)
                PROVE  /\ OwnName(i) =>
                            /\ i \in up
                            /\ i \in IF entries[i].kind = "http" THEN httpPlugins ELSE tcpPlugins
                            /\ entries[i].kind = "tcp" => entries[i].endpoint \in listening
                       /\ (\A j \in DOMAIN entries \ {i} : entries[j].path # entries[i].path) =>
                            entries[i].path \in DOMAIN known /\ known[entries[i].path] = i
    BY DEF GoodResourcesServe, OwnName
  <2>0. i < entry /\ main # "exit" /\ i \in 1..Len(entries)
    BY DEF StartInv, StartType
  <2>1. ASSUME OwnName(i)
        PROVE  /\ i \in up
               /\ i \in IF entries[i].kind = "http" THEN httpPlugins ELSE tcpPlugins
               /\ entries[i].kind = "tcp" => entries[i].endpoint \in listening
    BY <2>0, <2>1 DEF StartInv, LoadedWhenRead, ServersInTurn
  <2>2. ASSUME \A j \in DOMAIN entries \ {i} : entries[j].path # entries[i].path
        PROVE  entries[i].path \in DOMAIN known /\ known[entries[i].path] = i
    <3>1. 1..(i - 1) \subseteq DOMAIN entries \ {i}
      BY <2>0 DEF StartInv, StartType
    <3>2. OwnName(i)
      BY <2>2, <3>1 DEF OwnName, SameName
    <3>. QED BY <2>1, <2>2, <3>2 DEF StartInv, NamesLead
  <2>. QED BY <2>1, <2>2
<1>. QED BY <1>1, <1>2, <1>3, PTL

-----------------------------------------------------------------------------
(* The accounts of the connection pool and the reports of the operations,  *)
(* for any number of threads, connections and documents, any size of the   *)
(* pool and any number of retries.                                         *)
(*                                                                         *)
(* ConnectionIsOwn is inductive once the shape of the variables is known:  *)
(* most actions leave pool and connections alone and only change what else *)
(* a Collection holds (Works), so that the argument is about the four that *)
(* do not: DOpen, Reconnect, DClose and DServe.                            *)
(*                                                                         *)
(* ReportIsTrue is about operations that have ended; Sound adds what holds *)
(* of an operation on its way there: how often it was tried, what it has   *)
(* changed so far and what its cursor still has to give.                   *)

Busy == {"op", "more", "next", "reconnect", "close"}
Idle == {"idle", "end", "off"}

(* A Collection has a place in its operation and a connection. *)
Fields(r) == "pc" \in DOMAIN r /\ "conn" \in DOMAIN r

(* The shape of the variables. *)
Shape ==
  /\ dpool \subseteq dlive /\ dlive \subseteq Conns
  /\ DOMAIN dreq = DThreads
  /\ \A t \in DThreads : Fields(dreq[t]) /\ dreq[t].pc \in Busy \cup Idle

DInv == Shape /\ ConnectionIsOwn

(* What d makes of the Collections: the one of t goes on, with the same    *)
(* connection.                                                             *)
Works(t, d) ==
  /\ DOMAIN d = DThreads
  /\ \A u \in DThreads \ {t} : d[u] = dreq[u]
  /\ Fields(d[t]) /\ d[t].pc \in Busy /\ d[t].conn = dreq[t].conn

(* Answers, exceptions and retries keep the connection. *)
LEMMA EndsWorks ==
  ASSUME NEW t \in DThreads, Shape, NEW status, Ends(t, status)
  PROVE  Works(t, dreq')
<1>1. CASE status = 200
  <2>1. dreq' = [dreq EXCEPT ![t] = [dreq[t] EXCEPT !.pc = "close", !.status = 200]]
    BY <1>1 DEF Ends
  <2> QED BY <2>1 DEF Works, Shape, Fields, Busy
<1>2. CASE status # 200
  <2>1. dreq' = [dreq EXCEPT ![t] = [Fresh(dreq[t].op, dreq[t].key, dreq[t].conn)
                                       EXCEPT !.pc = "close", !.status = status]]
    BY <1>2 DEF Ends
  <2> QED BY <2>1 DEF Works, Shape, Fields, Fresh, Busy
<1> QED BY <1>1, <1>2

LEMMA ReconnectsWorks ==
  ASSUME NEW t \in DThreads, Shape, NEW then, Reconnects(t, then)
  PROVE  Works(t, dreq')
<1>1. CASE then = 500
  <2>1. dreq' = [dreq EXCEPT ![t] = [Fresh(dreq[t].op, dreq[t].key, dreq[t].conn)
                                       EXCEPT !.pc = "reconnect", !.then = 500]]
    BY <1>1 DEF Reconnects
  <2> QED BY <2>1 DEF Works, Shape, Fields, Fresh, Busy
<1>2. CASE then # 500
  <2>1. dreq' = [dreq EXCEPT ![t] = [dreq[t] EXCEPT !.pc = "reconnect", !.then = then]]
    BY <1>2 DEF Reconnects
  <2> QED BY <2>1 DEF Works, Shape, Fields, Busy
<1> QED BY <1>1, <1>2

LEMMA AgainWorks ==
  ASSUME NEW t \in DThreads, Shape, dreq[t].pc \in Busy, NEW n, Again(t, n)
  PROVE  Works(t, dreq')
BY DEF Again, Works, Shape, Fields

LEMMA CaughtWorks ==
  ASSUME NEW t \in DThreads, Shape, dreq[t].pc \in Busy,
         NEW e \in Exceptions, NEW n, Caught(t, e, n)
  PROVE  Works(t, dreq')
<1>1. CASE Reconnects(t, 500) BY <1>1, ReconnectsWorks
<1>2. CASE Ends(t, 500) \/ Ends(t, 409) BY <1>2, EndsWorks
<1>3. CASE Again(t, n) BY <1>3, AgainWorks
<1>4. CASE e \in {"socket", "connect", "other"} BY <1>1, <1>4 DEF Caught
<1>5. CASE e = "assertion" BY <1>1, <1>2, <1>5 DEF Caught
<1>6. CASE e = "user" BY <1>2, <1>3, <1>6 DEF Caught
<1>7. CASE e \in {"operation", "duplicate"} BY <1>2, <1>7 DEF Caught
<1> QED BY <1>4, <1>5, <1>6, <1>7 DEF Exceptions

----------------------------------------------------------------------------
(* Pool and connections stay: so do their accounts. *)
LEMMA WorksInv ==
  ASSUME DInv, NEW t \in DThreads, dreq[t].pc \in Busy, Works(t, dreq'),
         UNCHANGED <<dpool, dlive>>
  PROVE  DInv'
<1>1. \A u \in DThreads : (Holds(u) <=> Holds(u)') /\ dreq'[u].conn = dreq[u].conn
  BY DEF Works, Holds, Busy
<1>2. Shape' BY DEF DInv, Shape, Works
<1>3. UsedByOne' BY <1>1 DEF DInv, ConnectionIsOwn, UsedByOne
<1>4. NoneLost' BY <1>1 DEF DInv, ConnectionIsOwn, NoneLost
<1> QED BY <1>2, <1>3, <1>4 DEF DInv, ConnectionIsOwn

(* The actions between conn() and done(). *)
LEMMA WritesWork ==
  ASSUME Shape, NEW t \in DThreads, WriteDone(t) \/ GetLastError(t) \/ WriteFails(t)
  PROVE  dreq[t].pc \in Busy /\ Works(t, dreq') /\ UNCHANGED <<dpool, dlive>>
<1>1. CASE WriteDone(t) BY <1>1 DEF WriteDone, Works, Shape, Fields, Busy
<1>2. CASE GetLastError(t) BY <1>2, EndsWorks DEF GetLastError, Busy
<1>3. CASE WriteFails(t)
  <2>1. dreq[t].pc \in Busy BY <1>3 DEF WriteFails, Busy
  <2> QED BY <1>3, <2>1, CaughtWorks DEF WriteFails
<1> QED BY <1>1, <1>2, <1>3

LEMMA CallsWork ==
  ASSUME Shape, NEW t \in DThreads,
         Count(t) \/ EnsureIndex(t) \/ DropIndexes(t) \/ RunCommand(t)
  PROVE  dreq[t].pc \in Busy /\ Works(t, dreq') /\ UNCHANGED <<dpool, dlive>>
<1>1. CASE Count(t)
  BY <1>1, ReconnectsWorks DEF Count, Works, Shape, Fields, Busy
<1>2. CASE EnsureIndex(t) BY <1>2, EndsWorks, ReconnectsWorks DEF EnsureIndex, Busy
<1>3. CASE DropIndexes(t)
  BY <1>3, ReconnectsWorks DEF DropIndexes, Works, Shape, Fields, Busy
<1>4. CASE RunCommand(t)
  <2>1. CASE dreq' = [dreq EXCEPT ![t].pc = "close", ![t].status = 200]
    BY <1>4, <2>1 DEF RunCommand, Works, Shape, Fields, Busy
  <2>2. CASE Reconnects(t, 1) \/ Reconnects(t, 500)
    BY <1>4, <2>2, ReconnectsWorks DEF RunCommand, Busy
  <2>3. CASE Ends(t, 500) BY <1>4, <2>3, EndsWorks DEF RunCommand, Busy
  <2> QED BY <1>4, <2>1, <2>2, <2>3 DEF RunCommand
<1> QED BY <1>1, <1>2, <1>3, <1>4

LEMMA CursorWorks ==
  ASSUME Shape, NEW t \in DThreads, Find(t) \/ More(t) \/ NextDocument(t)
  PROVE  dreq[t].pc \in Busy /\ Works(t, dreq') /\ UNCHANGED <<dpool, dlive>>
<1>1. CASE Find(t)
  <2>1. dreq[t].pc \in Busy BY <1>1 DEF Find, Busy
  <2> QED BY <1>1, <2>1, EndsWorks, CaughtWorks DEF Find, Works, Shape, Fields, Busy
<1>2. CASE More(t) BY <1>2, EndsWorks DEF More, Works, Shape, Fields, Busy
<1>3. CASE NextDocument(t)
  <2>1. CASE \E d \in dreq[t].rest :
               dreq' = [dreq EXCEPT ![t].pc = "more", ![t].rest = @ \ {d}, ![t].list = @ \cup {d}]
    BY <1>3, <2>1 DEF NextDocument, Works, Shape, Fields, Busy
  <2>2. CASE Reconnects(t, 500)
    BY <1>3, <2>2, ReconnectsWorks DEF NextDocument, Busy
  <2>3. CASE Ends(t, 400) \/ Ends(t, 500)
    BY <1>3, <2>3, EndsWorks DEF NextDocument, Busy
  <2> QED BY <1>3, <2>1, <2>2, <2>3 DEF NextDocument
<1> QED BY <1>1, <1>2, <1>3

----------------------------------------------------------------------------
(* What each of some threads has one of has no more members than there     *)
(* are threads.                                                            *)
LEMMA InUseBound ==
  ASSUME NEW S, NEW H \in SUBSET DThreads, NEW f,
         \A c \in S : \E t \in H : f[t] = c,
         \A t \in H : f[t] \in S
  PROVE  IsFiniteSet(S) /\ Cardinality(S) <= Cardinality(DThreads)
<1> DEFINE g == [t \in H |-> f[t]]
<1>1. g \in Surjection(H, S) BY DEF Surjection
<1>2. IsFiniteSet(H) /\ Cardinality(H) <= Cardinality(DThreads)
  BY FS_Subset, DatabaseAssumption
<1>3. IsFiniteSet(S) /\ Cardinality(S) <= Cardinality(H)
  BY <1>1, <1>2, FS_Surjection
<1>4. Cardinality(S) \in Nat /\ Cardinality(H) \in Nat /\ Cardinality(DThreads) \in Nat
  BY <1>2, <1>3, FS_CardinalityType, DatabaseAssumption
<1> QED BY <1>2, <1>3, <1>4

(* A connection is taken from the pool, or made when the pool is empty. *)
LEMMA OpenInv ==
  ASSUME DInv, NEW t \in DThreads, DOpen(t)
  PROVE  DInv'
<1>0. ~Holds(t) BY DEF DOpen, Holds
<1>1. ASSUME NEW op, NEW k, NEW c \in dpool, dreq' = [dreq EXCEPT ![t] = Fresh(op, k, c)],
             dpool' = dpool \ {c}, dlive' = dlive
      PROVE  DInv'
  <2>1. DOMAIN dreq' = DThreads /\ dreq'[t] = Fresh(op, k, c)
        /\ \A u \in DThreads \ {t} : dreq'[u] = dreq[u]
    BY <1>1 DEF DInv, Shape
  <2>2. Fields(dreq'[t]) /\ dreq'[t].pc = "op" /\ dreq'[t].conn = c
    BY <2>1 DEF Fresh, Fields
  <2>3. Holds(t)' /\ \A u \in DThreads \ {t} : Holds(u)' <=> Holds(u)
    BY <2>1, <2>2 DEF Holds
  <2>4. Shape' BY <1>1, <2>1, <2>2 DEF DInv, Shape, Busy
  <2>5. UsedByOne' BY <1>1, <2>1, <2>2, <2>3 DEF DInv, Shape, ConnectionIsOwn, UsedByOne
  <2>6. NoneLost' BY <1>0, <1>1, <2>1, <2>2, <2>3 DEF DInv, ConnectionIsOwn, NoneLost
  <2> QED BY <2>4, <2>5, <2>6 DEF DInv, ConnectionIsOwn
<1>2. ASSUME NEW op, NEW k, NEW c \in Conns \ dlive,
             dreq' = [dreq EXCEPT ![t] = Fresh(op, k, c)],
             dpool = {}, dpool' = dpool, dlive' = dlive \cup {c}
      PROVE  DInv'
  <2>1. DOMAIN dreq' = DThreads /\ dreq'[t] = Fresh(op, k, c)
        /\ \A u \in DThreads \ {t} : dreq'[u] = dreq[u]
    BY <1>2 DEF DInv, Shape
  <2>2. Fields(dreq'[t]) /\ dreq'[t].pc = "op" /\ dreq'[t].conn = c
    BY <2>1 DEF Fresh, Fields
  <2>3. Holds(t)' /\ \A u \in DThreads \ {t} : Holds(u)' <=> Holds(u)
    BY <2>1, <2>2 DEF Holds
  <2>4. Shape' BY <1>2, <2>1, <2>2 DEF DInv, Shape, Busy
  <2>5. UsedByOne' BY <1>2, <2>1, <2>2, <2>3 DEF DInv, Shape, ConnectionIsOwn, UsedByOne
  <2>6. (\A d \in dlive \ dpool : \E u \in DThreads : Holds(u) /\ dreq[u].conn = d)'
    BY <1>0, <1>2, <2>1, <2>2, <2>3 DEF DInv, ConnectionIsOwn, NoneLost
  <2> DEFINE H == {u \in DThreads : Holds(u)'}
             f == [u \in DThreads |-> dreq'[u].conn]
  <2>7. IsFiniteSet(dlive') /\ Cardinality(dlive') <= Cardinality(DThreads)
    <3>1. \A d \in dlive' : \E u \in H : f[u] = d BY <1>2, <2>6
    <3>2. \A u \in H : f[u] \in dlive' BY <2>5 DEF UsedByOne
    <3> HIDE DEF f
    <3> QED BY <3>1, <3>2, InUseBound
  <2>8. Cardinality(dlive') <= SIZE_POOL + Cardinality(DThreads)
    BY <2>7, DatabaseAssumption, FS_CardinalityType
  <2> QED BY <2>4, <2>5, <2>6, <2>8 DEF DInv, ConnectionIsOwn, NoneLost
<1>3. ASSUME NEW op, NEW k,
             dreq' = [dreq EXCEPT ![t] = [Fresh(op, k, NoConn) EXCEPT !.pc = "end", !.status = 500]],
             dpool' = dpool, dlive' = dlive
      PROVE  DInv'
  <2>1. DOMAIN dreq' = DThreads /\ Fields(dreq'[t]) /\ dreq'[t].pc = "end"
        /\ \A u \in DThreads \ {t} : dreq'[u] = dreq[u]
    BY <1>3 DEF DInv, Shape, Fresh, Fields
  <2>2. ~Holds(t)' /\ \A u \in DThreads \ {t} : Holds(u)' <=> Holds(u)
    BY <2>1 DEF Holds
  <2>3. Shape' BY <1>3, <2>1 DEF DInv, Shape, Idle
  <2>4. UsedByOne' BY <1>3, <2>1, <2>2 DEF DInv, ConnectionIsOwn, UsedByOne
  <2>5. NoneLost' BY <1>0, <1>3, <2>1, <2>2 DEF DInv, ConnectionIsOwn, NoneLost
  <2> QED BY <2>3, <2>4, <2>5 DEF DInv, ConnectionIsOwn
<1>4. PICK op \in Operations, k \in Keys :
       \/ \E c \in dpool :
            /\ dreq' = [dreq EXCEPT ![t] = Fresh(op, k, c)]
            /\ dpool' = dpool \ {c}
            /\ UNCHANGED <<dlive, ddocs, dalarm>>
       \/ /\ dpool = {}
          /\ \E c \in Conns \ dlive :
               /\ dreq' = [dreq EXCEPT ![t] = Fresh(op, k, c)]
               /\ dlive' = dlive \cup {c}
          /\ UNCHANGED <<dpool, ddocs, dalarm>>
       \/ /\ dpool = {}
          /\ dreq' = [dreq EXCEPT ![t] =
               [Fresh(op, k, NoConn) EXCEPT !.pc = "end", !.status = 500]]
          /\ dalarm' = TRUE
          /\ UNCHANGED <<dpool, dlive, ddocs>>
  BY Zenon DEF DOpen
<1>5. CASE \E c \in dpool :
             /\ dreq' = [dreq EXCEPT ![t] = Fresh(op, k, c)]
             /\ dpool' = dpool \ {c}
             /\ UNCHANGED <<dlive, ddocs, dalarm>>
  <2>1. PICK c \in dpool : /\ dreq' = [dreq EXCEPT ![t] = Fresh(op, k, c)]
                           /\ dpool' = dpool \ {c} /\ UNCHANGED <<dlive, ddocs, dalarm>>
    BY Zenon, <1>5
  <2>2. dlive' = dlive BY <2>1
  <2> QED BY Zenon, <1>1, <2>1, <2>2
<1>6. CASE /\ dpool = {}
           /\ \E c \in Conns \ dlive :
                /\ dreq' = [dreq EXCEPT ![t] = Fresh(op, k, c)]
                /\ dlive' = dlive \cup {c}
           /\ UNCHANGED <<dpool, ddocs, dalarm>>
  <2>1. PICK c \in Conns \ dlive : /\ dreq' = [dreq EXCEPT ![t] = Fresh(op, k, c)]
                                   /\ dlive' = dlive \cup {c}
    BY Zenon, <1>6
  <2>2. dpool = {} /\ dpool' = dpool BY <1>6
  <2> QED BY Zenon, <1>2, <2>1, <2>2
<1>7. CASE /\ dreq' = [dreq EXCEPT ![t] =
                [Fresh(op, k, NoConn) EXCEPT !.pc = "end", !.status = 500]]
           /\ UNCHANGED <<dpool, dlive, ddocs>>
  <2>1. dpool' = dpool /\ dlive' = dlive BY <1>7
  <2> QED BY Zenon, <1>3, <1>7, <2>1
<1> QED BY Zenon, <1>4, <1>5, <1>6, <1>7

(* The idle connections are replaced; those in use stay with their owners. *)
LEMMA ReconnectInv ==
  ASSUME DInv, NEW t \in DThreads, Reconnect(t)
  PROVE  DInv'
<1> DEFINE kept == dlive \ dpool
<1>1. PICK new \in SUBSET (Conns \ kept) :
        /\ dpool' = new /\ dlive' = kept \cup new
        /\ Cardinality(new) = SIZE_POOL \/ Cardinality(new) < SIZE_POOL
        /\ \/ Ends(t, 500)
           \/ dreq' = [dreq EXCEPT ![t].pc = "op", ![t].attempts = @ + 1]
           \/ \E pc \in {"next", "close"} :
                dreq' = [dreq EXCEPT ![t].pc = pc, ![t].status = 200]
  BY DEF Reconnect
<1>2. Works(t, dreq')
  <2>1. CASE Ends(t, 500) BY <2>1, EndsWorks DEF DInv
  <2>2. CASE dreq' = [dreq EXCEPT ![t].pc = "op", ![t].attempts = @ + 1]
    BY <2>2 DEF Works, DInv, Shape, Fields, Busy
  <2>3. CASE \E pc \in {"next", "close"} :
               dreq' = [dreq EXCEPT ![t].pc = pc, ![t].status = 200]
    BY <2>3 DEF Works, DInv, Shape, Fields, Busy
  <2> QED BY <1>1, <2>1, <2>2, <2>3
<1>3. Holds(t) BY DEF Reconnect, Holds
<1>4. \A u \in DThreads : (Holds(u) <=> Holds(u)') /\ dreq'[u].conn = dreq[u].conn
  BY <1>2, <1>3 DEF Works, Holds, Busy
<1>5. Shape' BY <1>1, <1>2 DEF DInv, Shape, Works
<1>6. dlive' \ dpool' = kept BY <1>1
<1>7. UsedByOne' BY <1>4, <1>6 DEF DInv, ConnectionIsOwn, UsedByOne
<1>8. \A c \in kept : \E u \in DThreads : Holds(u) /\ dreq[u].conn = c
  BY DEF DInv, ConnectionIsOwn, NoneLost
<1>9. IsFiniteSet(kept) /\ Cardinality(kept) <= Cardinality(DThreads)
  <2> DEFINE H == {u \in DThreads : Holds(u)}
             f == [u \in DThreads |-> dreq[u].conn]
  <2>1. \A d \in kept : \E u \in H : f[u] = d BY <1>8
  <2>2. \A u \in H : f[u] \in kept BY DEF DInv, ConnectionIsOwn, UsedByOne
  <2> HIDE DEF f, kept
  <2> QED BY <2>1, <2>2, InUseBound
<1>10. Cardinality(dlive') <= SIZE_POOL + Cardinality(DThreads)
  <2>1. IsFiniteSet(new) BY <1>1, FS_Subset, DatabaseAssumption
  <2> HIDE DEF kept
  <2>2. Cardinality(kept \cup new)
          = Cardinality(kept) + Cardinality(new) - Cardinality(kept \cap new)
    BY <1>9, <2>1, FS_Union
  <2>3. kept \cap new = {} BY <1>1
  <2>4. Cardinality(kept \cap new) = 0 BY <2>3, FS_EmptySet
  <2>5. Cardinality(kept) \in Nat /\ Cardinality(new) \in Nat /\ Cardinality(DThreads) \in Nat
    BY <1>9, <2>1, FS_CardinalityType, DatabaseAssumption
  <2> QED BY <1>1, <1>9, <2>2, <2>4, <2>5, DatabaseAssumption
<1>11. NoneLost' BY <1>4, <1>6, <1>8, <1>10 DEF NoneLost
<1> QED BY <1>5, <1>7, <1>11 DEF DInv, ConnectionIsOwn

(* The connection comes back to the pool. *)
LEMMA CloseInv ==
  ASSUME DInv, NEW t \in DThreads, DClose(t)
  PROVE  DInv'
<1>1. Holds(t) /\ dreq[t].conn \in dlive \ dpool
  BY DEF DClose, Holds, DInv, ConnectionIsOwn, UsedByOne
<1>2. DOMAIN dreq' = DThreads /\ Fields(dreq'[t]) /\ dreq'[t].pc = "end"
      /\ \A u \in DThreads \ {t} : dreq'[u] = dreq[u]
  BY DEF DClose, DInv, Shape, Fields
<1>3. ~Holds(t)' /\ \A u \in DThreads \ {t} : Holds(u)' <=> Holds(u)
  BY <1>2 DEF Holds
<1>4. dpool' = dpool \cup {dreq[t].conn} /\ dlive' = dlive BY DEF DClose
<1>5. Shape' BY <1>1, <1>2, <1>4 DEF DInv, Shape, Idle
<1>6. UsedByOne' BY <1>1, <1>2, <1>3, <1>4 DEF DInv, ConnectionIsOwn, UsedByOne
<1>7. NoneLost' BY <1>1, <1>2, <1>3, <1>4 DEF DInv, ConnectionIsOwn, NoneLost
<1> QED BY <1>5, <1>6, <1>7 DEF DInv, ConnectionIsOwn

LEMMA ServeInv ==
  ASSUME DInv, NEW t \in DThreads, DServe(t)
  PROVE  DInv'
<1>1. DOMAIN dreq' = DThreads /\ Fields(dreq'[t]) /\ dreq'[t].pc = "idle"
      /\ \A u \in DThreads \ {t} : dreq'[u] = dreq[u]
  BY DEF DServe, DInv, Shape, Fields, Fresh
<1>2. ~Holds(t) /\ ~Holds(t)' /\ \A u \in DThreads \ {t} : Holds(u)' <=> Holds(u)
  BY <1>1 DEF Holds, DServe
<1>3. dpool' = dpool /\ dlive' = dlive BY DEF DServe
<1>4. Shape' BY <1>1, <1>3 DEF DInv, Shape, Idle
<1>5. UsedByOne' BY <1>1, <1>2, <1>3 DEF DInv, ConnectionIsOwn, UsedByOne
<1>6. NoneLost' BY <1>1, <1>2, <1>3 DEF DInv, ConnectionIsOwn, NoneLost
<1> QED BY <1>4, <1>5, <1>6 DEF DInv, ConnectionIsOwn

----------------------------------------------------------------------------
LEMMA DInitInv == ASSUME DInit("idle") PROVE DInv
<1>1. DOMAIN dreq = DThreads
      /\ \A t \in DThreads : Fields(dreq[t]) /\ dreq[t].pc = "idle"
  BY DEF DInit, Fields, Fresh
<1>2. Shape BY <1>1 DEF DInit, Shape, Idle
<1>3. UsedByOne BY <1>1 DEF UsedByOne, Holds
<1>4. Cardinality(DThreads) \in Nat BY FS_CardinalityType, DatabaseAssumption
<1>5. NoneLost BY <1>4, DatabaseAssumption DEF DInit, NoneLost
<1> QED BY <1>2, <1>3, <1>5 DEF DInv, ConnectionIsOwn

LEMMA DStepInv == ASSUME DInv, [DNext]_dbVars PROVE DInv'
<1>1. CASE UNCHANGED dbVars
  BY <1>1 DEF dbVars, DInv, Shape, ConnectionIsOwn, UsedByOne, NoneLost, Holds
<1>2. ASSUME NEW t \in DThreads, WriteDone(t) \/ GetLastError(t) \/ WriteFails(t) PROVE DInv'
  BY <1>2, WritesWork, WorksInv DEF DInv
<1>3. ASSUME NEW t \in DThreads, Count(t) \/ EnsureIndex(t) \/ DropIndexes(t) \/ RunCommand(t)
      PROVE  DInv'
  BY <1>3, CallsWork, WorksInv DEF DInv
<1>4. ASSUME NEW t \in DThreads, Find(t) \/ More(t) \/ NextDocument(t) PROVE DInv'
  BY <1>4, CursorWorks, WorksInv DEF DInv
<1> QED BY <1>1, <1>2, <1>3, <1>4, OpenInv, ReconnectInv, CloseInv, ServeInv DEF DNext

(* Whatever fails and whenever another thread replaces the pool, a         *)
(* connection of MongoConnection is used by one Collection at a time, is   *)
(* never lost, never used after its deletion, and their number is bounded. *)
THEOREM ConnectionsOwn == DSpec => []ConnectionIsOwn
<1>1. DInit("idle") => DInv BY DInitInv
<1>2. DInv /\ [DNext]_dbVars => DInv' BY DStepInv
<1>3. DInv => ConnectionIsOwn BY DEF DInv
<1> QED BY <1>1, <1>2, <1>3, PTL DEF DSpec

----------------------------------------------------------------------------
(* What a Collection reports of its operation. *)

HasFields(r) ==
  /\ "pc" \in DOMAIN r /\ "op" \in DOMAIN r /\ "key" \in DOMAIN r /\ "conn" \in DOMAIN r
  /\ "attempts" \in DOMAIN r /\ "then" \in DOMAIN r /\ "n" \in DOMAIN r /\ "changed" \in DOMAIN r
  /\ "status" \in DOMAIN r /\ "rest" \in DOMAIN r /\ "found" \in DOMAIN r /\ "list" \in DOMAIN r
  /\ "failed" \in DOMAIN r

(* On the way to the report: a first attempt has changed nothing yet, what *)
(* a cursor has left and what was taken from it are what was found, and    *)
(* only an operation that is called again after the pool was replaced has  *)
(* a second attempt without an exception of the user.                      *)
AttemptsFit(r) ==
  /\ r.attempts \in Nat \ {0} /\ r.changed \in Nat
  /\ r.op # "update" => r.attempts <= MAX_RETRY + 1
  /\ r.pc = "op" /\ r.op = "index" /\ r.then = 0 => r.attempts = 1
  /\ r.pc = "reconnect" /\ r.then = 1 => r.op \in {"command", "index"} /\ r.attempts = 1
WritesFit(r) ==
  /\ r.pc = "op" /\ r.op \in Writes => r.key \in Keys /\ (r.attempts = 1 => r.changed = 0)
  /\ r.pc \in {"close", "end"} /\ r.status = 200 /\ r.op \in Writes =>
       r.n \in Nat /\ r.n <= r.changed /\ (r.attempts = 1 => r.n = r.changed)
CursorFits(r) ==
  /\ r.failed \in BOOLEAN
  /\ r.pc = "op" /\ r.op = "find" => r.list = {}
  /\ r.pc \in {"more", "next"} => r.op = "find" /\ (~r.failed => r.list \cup r.rest = r.found)
  /\ r.pc = "reconnect" /\ r.then = 2 => r.op = "find" /\ r.failed
  /\ r.pc \in {"close", "end"} /\ r.status = 200 /\ r.op = "find" /\ ~r.failed =>
       r.list = r.found
Sound(r) == HasFields(r) /\ AttemptsFit(r) /\ WritesFit(r) /\ CursorFits(r)

ReportInv ==
  /\ DOMAIN dreq = DThreads /\ ddocs \in [Keys -> Nat]
  /\ \A t \in DThreads : Sound(dreq[t])

(* Only the Collection of t goes on. *)
OthersHold(t) == DOMAIN dreq' = DThreads /\ \A u \in DThreads \ {t} : dreq'[u] = dreq[u]

LEMMA EndsSound ==
  ASSUME ReportInv, NEW t \in DThreads, NEW status, Ends(t, status),
         status = 200 => /\ dreq[t].op \notin Writes
                         /\ dreq[t].op = "find" /\ ~dreq[t].failed => dreq[t].list = dreq[t].found
  PROVE  OthersHold(t) /\ Sound(dreq'[t])
<1>. DEFINE r == dreq[t]
<1>1. Sound(r) /\ DOMAIN dreq = DThreads
  BY DEF ReportInv
<1>2. CASE status = 200
  <2>1. /\ dreq'[t] = [r EXCEPT !.pc = "close", !.status = 200]
        /\ OthersHold(t)
    BY <1>1, <1>2 DEF Ends, OthersHold
  <2>. HIDE DEF r
  <2>2. /\ HasFields(dreq'[t]) /\ dreq'[t].pc = "close" /\ dreq'[t].op = r.op
        /\ dreq'[t].attempts = r.attempts /\ dreq'[t].changed = r.changed
        /\ dreq'[t].failed = r.failed /\ dreq'[t].list = r.list /\ dreq'[t].found = r.found
    BY <1>1, <2>1 DEF Sound, HasFields
  <2>3. AttemptsFit(dreq'[t])
    BY <1>1, <2>2 DEF Sound, AttemptsFit
  <2>4. r.op \notin Writes /\ (r.op = "find" /\ ~r.failed => r.list = r.found)
    BY <1>2 DEF r
  <2>5. WritesFit(dreq'[t])
    BY <2>2, <2>4 DEF WritesFit
  <2>6. CursorFits(dreq'[t])
    BY <1>1, <2>2, <2>4 DEF Sound, CursorFits
  <2>. QED BY <2>1, <2>2, <2>3, <2>5, <2>6 DEF Sound
<1>3. CASE status # 200
  <2>1. /\ dreq'[t] = [Fresh(r.op, r.key, r.conn) EXCEPT !.pc = "close", !.status = status]
        /\ OthersHold(t)
    BY <1>1, <1>3 DEF Ends, OthersHold
  <2>. HIDE DEF r
  <2>. QED
    BY <1>3, <2>1, DatabaseAssumption
    DEF Fresh, Sound, HasFields, AttemptsFit, WritesFit, CursorFits
<1>. QED BY <1>2, <1>3

LEMMA ReconnectsSound ==
  ASSUME ReportInv, NEW t \in DThreads, NEW then \in {1, 500}, Reconnects(t, then),
         then = 1 => dreq[t].op \in {"command", "index"} /\ dreq[t].attempts = 1
  PROVE  OthersHold(t) /\ Sound(dreq'[t])
<1>. DEFINE r == dreq[t]
<1>1. Sound(r) /\ DOMAIN dreq = DThreads
  BY DEF ReportInv
<1>2. CASE then = 1
  <2>1. /\ dreq'[t] = [r EXCEPT !.pc = "reconnect", !.then = 1]
        /\ OthersHold(t)
    BY <1>1, <1>2 DEF Reconnects, OthersHold
  <2>2. r.op \in {"command", "index"} /\ r.attempts = 1
    BY <1>2
  <2>. HIDE DEF r
  <2>. QED
    BY <1>1, <2>1, <2>2, DatabaseAssumption
    DEF Sound, HasFields, AttemptsFit, WritesFit, CursorFits, Writes
<1>3. CASE then = 500
  <2>1. /\ dreq'[t] = [Fresh(r.op, r.key, r.conn) EXCEPT !.pc = "reconnect", !.then = 500]
        /\ OthersHold(t)
    BY <1>1, <1>3 DEF Reconnects, OthersHold
  <2>. HIDE DEF r
  <2>. QED
    BY <2>1, DatabaseAssumption
    DEF Fresh, Sound, HasFields, AttemptsFit, WritesFit, CursorFits
<1>. QED BY <1>2, <1>3

LEMMA AgainSound ==
  ASSUME ReportInv, NEW t \in DThreads, NEW n \in Nat, Again(t, n),
         dreq[t].pc = "op", dreq[t].op \in Writes \cup {"find"},
         dreq[t].op # "update" => dreq[t].attempts <= MAX_RETRY
  PROVE  OthersHold(t) /\ Sound(dreq'[t])
<1>. DEFINE r == dreq[t]
<1>1. Sound(r) /\ DOMAIN dreq = DThreads
  BY DEF ReportInv
<1>2. /\ dreq'[t] = [r EXCEPT !.attempts = r.attempts + 1, !.changed = r.changed + n]
      /\ OthersHold(t)
  BY <1>1 DEF Again, OthersHold, Sound, HasFields
<1>3. r.pc = "op" /\ r.op \in Writes \cup {"find"} /\ (r.op # "update" => r.attempts <= MAX_RETRY)
  OBVIOUS
<1>. HIDE DEF r
<1>. QED
  BY <1>1, <1>2, <1>3, DatabaseAssumption
  DEF Sound, HasFields, AttemptsFit, WritesFit, CursorFits, Writes

LEMMA CaughtSound ==
  ASSUME ReportInv, NEW t \in DThreads, NEW e \in Exceptions, NEW n \in Nat, Caught(t, e, n),
         dreq[t].pc = "op", dreq[t].op \in Writes \cup {"find"}
  PROVE  OthersHold(t) /\ Sound(dreq'[t])
<1>1. CASE Reconnects(t, 500) BY <1>1, ReconnectsSound
<1>2. CASE Ends(t, 500) \/ Ends(t, 409) BY <1>2, EndsSound
<1>3. CASE Again(t, n) /\ (dreq[t].op # "update" => dreq[t].attempts <= MAX_RETRY)
  BY <1>3, AgainSound
<1>4. CASE e \in {"socket", "connect", "other"} BY <1>1, <1>4 DEF Caught
<1>5. CASE e = "assertion" BY <1>1, <1>2, <1>5 DEF Caught
<1>6. CASE e = "user" BY <1>2, <1>3, <1>6 DEF Caught
<1>7. CASE e \in {"operation", "duplicate"} BY <1>2, <1>7 DEF Caught
<1> QED BY <1>4, <1>5, <1>6, <1>7 DEF Exceptions

(* The documents of a key stay numbers. *)
LEMMA WrittenType ==
  ASSUME ddocs \in [Keys -> Nat], NEW op \in Writes, NEW k \in Keys
  PROVE  Written(op, k) \in [Keys -> Nat] /\ Changed(op, k) \in Nat
BY DEF Written, Changed, Writes

LEMMA WritesSound ==
  ASSUME ReportInv, NEW t \in DThreads, WriteDone(t) \/ GetLastError(t) \/ WriteFails(t)
  PROVE  OthersHold(t) /\ Sound(dreq'[t]) /\ ddocs' \in [Keys -> Nat]
<1>. DEFINE r == dreq[t]
<1>1. Sound(r) /\ DOMAIN dreq = DThreads /\ ddocs \in [Keys -> Nat]
  BY DEF ReportInv
<1>2. r.pc = "op" /\ r.op \in Writes =>
        /\ r.key \in Keys /\ (r.attempts = 1 => r.changed = 0)
        /\ Written(r.op, r.key) \in [Keys -> Nat] /\ Changed(r.op, r.key) \in Nat
  BY <1>1, WrittenType DEF Sound, WritesFit
<1>3. CASE WriteDone(t)
  <2>. DEFINE k == Changed(r.op, r.key)
  <2>1. r.pc = "op" /\ r.op \in Writes
    BY <1>3 DEF WriteDone
  <2>2. /\ dreq'[t] = [r EXCEPT !.pc = "close", !.status = 200, !.changed = r.changed + k,
                                !.n = IF r.attempts = 1 THEN k ELSE 0]
        /\ OthersHold(t) /\ ddocs' = Written(r.op, r.key)
    BY <1>1, <1>3 DEF WriteDone, OthersHold, Sound, HasFields
  <2>. HIDE DEF k, r
  <2>3. /\ HasFields(dreq'[t]) /\ dreq'[t].pc = "close" /\ dreq'[t].op = r.op
        /\ dreq'[t].attempts = r.attempts /\ dreq'[t].changed = r.changed + k
        /\ dreq'[t].failed = r.failed /\ dreq'[t].n = IF r.attempts = 1 THEN k ELSE 0
    BY <1>1, <2>2 DEF Sound, HasFields
  <2>4. k \in Nat /\ r.changed \in Nat /\ r.attempts \in Nat \ {0}
    BY <1>1, <1>2, <2>1 DEF k, Sound, AttemptsFit
  <2>5. AttemptsFit(dreq'[t])
    BY <1>1, <2>3, <2>4 DEF Sound, AttemptsFit
  <2>6. WritesFit(dreq'[t])
    BY <1>2, <2>1, <2>3, <2>4 DEF WritesFit
  <2>7. CursorFits(dreq'[t])
    BY <1>1, <2>1, <2>3 DEF Sound, CursorFits, Writes
  <2>. QED BY <1>2, <2>1, <2>2, <2>3, <2>5, <2>6, <2>7 DEF Sound
<1>4. CASE GetLastError(t)
  <2>1. Ends(t, 409) \/ Ends(t, 500)
    BY <1>4 DEF GetLastError
  <2>2. ddocs' \in [Keys -> Nat]
    BY <1>1, <1>2, <1>4 DEF GetLastError
  <2>. QED BY <2>1, <2>2, EndsSound
<1>5. CASE WriteFails(t)
  <2>1. r.pc = "op" /\ r.op \in Writes
    BY <1>5 DEF WriteFails
  <2>2. \E e \in Exceptions, n \in Nat : Caught(t, e, n) /\ ddocs' \in [Keys -> Nat]
    BY <1>1, <1>2, <1>5, <2>1 DEF WriteFails
  <2>. QED BY <2>1, <2>2, CaughtSound
<1>. QED BY <1>3, <1>4, <1>5

LEMMA CallsSound ==
  ASSUME ReportInv, NEW t \in DThreads,
         Count(t) \/ EnsureIndex(t) \/ DropIndexes(t) \/ RunCommand(t)
  PROVE  OthersHold(t) /\ Sound(dreq'[t]) /\ ddocs' = ddocs
<1>. DEFINE r == dreq[t]
<1>1. Sound(r) /\ DOMAIN dreq = DThreads
  BY DEF ReportInv
<1>2. CASE Count(t)
  <2>1. CASE Reconnects(t, 500)
    BY <1>2, <2>1, ReconnectsSound DEF Count
  <2>2. ASSUME NEW n, dreq' = [dreq EXCEPT ![t].pc = "close", ![t].status = 200, ![t].n = n]
        PROVE  OthersHold(t) /\ Sound(dreq'[t])
    <3>1. dreq'[t] = [r EXCEPT !.pc = "close", !.status = 200, !.n = n] /\ OthersHold(t)
      BY <1>1, <2>2 DEF OthersHold, Sound, HasFields
    <3>2. r.op = "count"
      BY <1>2 DEF Count
    <3>. HIDE DEF r
    <3>. QED
      BY <1>1, <3>1, <3>2 DEF Sound, HasFields, AttemptsFit, WritesFit, CursorFits, Writes
  <2>. QED BY <1>2, <2>1, <2>2 DEF Count
<1>3. CASE EnsureIndex(t)
  BY <1>3, EndsSound, ReconnectsSound DEF EnsureIndex, Writes
<1>4. CASE DropIndexes(t)
  <2>1. r.pc = "op" /\ r.op = "index" /\ r.attempts = 1
    BY <1>1, <1>4 DEF DropIndexes, Sound, AttemptsFit
  <2>2. CASE Reconnects(t, 1)
    BY <1>4, <2>1, <2>2, ReconnectsSound DEF DropIndexes
  <2>3. CASE dreq' = [dreq EXCEPT ![t].then = 1]
    <3>1. dreq'[t] = [r EXCEPT !.then = 1] /\ OthersHold(t)
      BY <1>1, <2>3 DEF OthersHold
    <3>2. ddocs' = ddocs
      BY <1>4 DEF DropIndexes
    <3>. HIDE DEF r
    <3>. QED
      BY <1>1, <2>1, <3>1, <3>2 DEF Sound, HasFields, AttemptsFit, WritesFit, CursorFits, Writes
  <2>. QED BY <1>4, <2>2, <2>3 DEF DropIndexes
<1>5. CASE RunCommand(t)
  <2>1. r.pc = "op" /\ r.op = "command" /\ ddocs' = ddocs
    BY <1>5 DEF RunCommand
  <2>2. CASE dreq' = [dreq EXCEPT ![t].pc = "close", ![t].status = 200]
    <3>1. dreq'[t] = [r EXCEPT !.pc = "close", !.status = 200] /\ OthersHold(t)
      BY <1>1, <2>2 DEF OthersHold, Sound, HasFields
    <3>. HIDE DEF r
    <3>. QED
      BY <1>1, <2>1, <3>1 DEF Sound, HasFields, AttemptsFit, WritesFit, CursorFits, Writes
  <2>3. CASE r.attempts = 1 /\ Reconnects(t, 1)
    BY <2>1, <2>3, ReconnectsSound
  <2>4. CASE Reconnects(t, 500)
    BY <2>1, <2>4, ReconnectsSound
  <2>5. CASE Ends(t, 500)
    BY <2>1, <2>5, EndsSound
  <2>. QED BY <1>5, <2>2, <2>3, <2>4, <2>5 DEF RunCommand
<1>. QED BY <1>2, <1>3, <1>4, <1>5

LEMMA FindSound ==
  ASSUME ReportInv, NEW t \in DThreads, Find(t)
  PROVE  OthersHold(t) /\ Sound(dreq'[t]) /\ ddocs' = ddocs
<1>. DEFINE r == dreq[t]
<1>1. Sound(r) /\ DOMAIN dreq = DThreads
  BY DEF ReportInv
<1>2. r.pc = "op" /\ r.op = "find" /\ r.list = {} /\ ddocs' = ddocs
  BY <1>1 DEF Find, Sound, CursorFits
<1>3. ASSUME NEW D, dreq' = [dreq EXCEPT ![t].pc = "more", ![t].rest = D, ![t].found = D]
      PROVE  OthersHold(t) /\ Sound(dreq'[t])
  <2>1. dreq'[t] = [r EXCEPT !.pc = "more", !.rest = D, !.found = D] /\ OthersHold(t)
    BY <1>1, <1>3 DEF OthersHold, Sound, HasFields
  <2>. HIDE DEF r
  <2>. QED
    BY <1>1, <1>2, <2>1 DEF Sound, HasFields, AttemptsFit, WritesFit, CursorFits, Writes
<1>4. CASE Ends(t, 500)
  BY <1>2, <1>4, EndsSound
<1>5. ASSUME NEW e \in Exceptions, Caught(t, e, 0)
      PROVE  OthersHold(t) /\ Sound(dreq'[t])
  BY <1>2, <1>5, CaughtSound
<1>. QED BY <1>2, <1>3, <1>4, <1>5 DEF Find

LEMMA CursorSound ==
  ASSUME ReportInv, NEW t \in DThreads, More(t) \/ NextDocument(t)
  PROVE  OthersHold(t) /\ Sound(dreq'[t]) /\ ddocs' = ddocs
<1>. DEFINE r == dreq[t]
<1>1. Sound(r) /\ DOMAIN dreq = DThreads
  BY DEF ReportInv
<1>2. /\ r.op = "find" /\ r.pc \in {"more", "next"} /\ (~r.failed => r.list \cup r.rest = r.found)
      /\ ddocs' = ddocs
  BY <1>1 DEF More, NextDocument, Sound, CursorFits
<1>3. CASE More(t)
  <2>1. CASE dreq' = [dreq EXCEPT ![t].pc = "next"]
    <3>1. dreq'[t] = [r EXCEPT !.pc = "next"] /\ OthersHold(t)
      BY <1>1, <2>1 DEF OthersHold
    <3>. HIDE DEF r
    <3>. QED
      BY <1>1, <1>2, <3>1 DEF Sound, HasFields, AttemptsFit, WritesFit, CursorFits, Writes
  <2>2. CASE dreq' = [dreq EXCEPT ![t].pc = "next", ![t].failed = TRUE]
    <3>1. dreq'[t] = [r EXCEPT !.pc = "next", !.failed = TRUE] /\ OthersHold(t)
      BY <1>1, <2>2 DEF OthersHold, Sound, HasFields
    <3>. HIDE DEF r
    <3>. QED
      BY <1>1, <1>2, <3>1 DEF Sound, HasFields, AttemptsFit, WritesFit, CursorFits, Writes
  <2>3. CASE dreq' = [dreq EXCEPT ![t].pc = "close", ![t].status = 200, ![t].failed = TRUE]
    <3>1. dreq'[t] = [r EXCEPT !.pc = "close", !.status = 200, !.failed = TRUE] /\ OthersHold(t)
      BY <1>1, <2>3 DEF OthersHold, Sound, HasFields
    <3>. HIDE DEF r
    <3>. QED
      BY <1>1, <1>2, <3>1 DEF Sound, HasFields, AttemptsFit, WritesFit, CursorFits, Writes
  <2>4. CASE dreq' = [dreq EXCEPT ![t].pc = "reconnect", ![t].then = 2, ![t].failed = TRUE]
    <3>1. dreq'[t] = [r EXCEPT !.pc = "reconnect", !.then = 2, !.failed = TRUE] /\ OthersHold(t)
      BY <1>1, <2>4 DEF OthersHold, Sound, HasFields
    <3>. HIDE DEF r
    <3>. QED
      BY <1>1, <1>2, <3>1 DEF Sound, HasFields, AttemptsFit, WritesFit, CursorFits, Writes
  <2>5. CASE Ends(t, 500)
    BY <1>2, <2>5, EndsSound
  <2>6. CASE r.rest = {} /\ Ends(t, 200)
    <3>1. r.op \notin Writes /\ (~r.failed => r.list = r.found)
      BY <1>2, <2>6 DEF Writes
    <3>. QED BY <1>2, <2>6, <3>1, EndsSound
  <2>. QED BY <1>2, <1>3, <2>1, <2>2, <2>3, <2>4, <2>5, <2>6 DEF More
<1>4. CASE NextDocument(t)
  <2>1. ASSUME NEW d \in r.rest,
               dreq' = [dreq EXCEPT ![t].pc = "more", ![t].rest = @ \ {d}, ![t].list = @ \cup {d}]
        PROVE  OthersHold(t) /\ Sound(dreq'[t])
    <3>1. /\ dreq'[t] = [r EXCEPT !.pc = "more", !.rest = r.rest \ {d}, !.list = r.list \cup {d}]
          /\ OthersHold(t)
      BY <1>1, <2>1 DEF OthersHold, Sound, HasFields
    <3>2. (r.list \cup {d}) \cup (r.rest \ {d}) = r.list \cup r.rest
      BY <2>1
    <3>. HIDE DEF r
    <3>. QED
      BY <1>1, <1>2, <3>1, <3>2 DEF Sound, HasFields, AttemptsFit, WritesFit, CursorFits, Writes
  <2>2. CASE Ends(t, 400) \/ Ends(t, 500)
    BY <1>2, <2>2, EndsSound
  <2>3. CASE Reconnects(t, 500)
    BY <1>2, <2>3, ReconnectsSound
  <2>. QED BY <1>2, <1>4, <2>1, <2>2, <2>3 DEF NextDocument
<1>. QED BY <1>3, <1>4

(* What a new pool leads to. *)
LEMMA ReconnectSound ==
  ASSUME ReportInv, NEW t \in DThreads, Reconnect(t)
  PROVE  OthersHold(t) /\ Sound(dreq'[t]) /\ ddocs' = ddocs
<1>. DEFINE r == dreq[t]
<1>1. Sound(r) /\ DOMAIN dreq = DThreads
  BY DEF ReportInv
<1>2. r.pc = "reconnect" /\ ddocs' = ddocs
  BY DEF Reconnect
<1>3. CASE Ends(t, 500)
  BY <1>2, <1>3, EndsSound
<1>4. CASE r.then = 1 /\ dreq' = [dreq EXCEPT ![t].pc = "op", ![t].attempts = @ + 1]
  <2>1. dreq'[t] = [r EXCEPT !.pc = "op", !.attempts = r.attempts + 1] /\ OthersHold(t)
    BY <1>1, <1>4 DEF OthersHold, Sound, HasFields
  <2>2. r.then = 1
    BY <1>4
  <2>. HIDE DEF r
  <2>. QED
    BY <1>1, <1>2, <2>1, <2>2, DatabaseAssumption
    DEF Sound, HasFields, AttemptsFit, WritesFit, CursorFits, Writes
<1>5. ASSUME r.then = 2, NEW pc \in {"next", "close"},
             dreq' = [dreq EXCEPT ![t].pc = pc, ![t].status = 200]
      PROVE  OthersHold(t) /\ Sound(dreq'[t])
  <2>1. dreq'[t] = [r EXCEPT !.pc = pc, !.status = 200] /\ OthersHold(t)
    BY <1>1, <1>5 DEF OthersHold, Sound, HasFields
  <2>2. r.then = 2
    BY <1>5
  <2>. HIDE DEF r
  <2>. QED
    BY <1>1, <1>2, <2>1, <2>2 DEF Sound, HasFields, AttemptsFit, WritesFit, CursorFits, Writes
<1>. QED BY <1>2, <1>3, <1>4, <1>5 DEF Reconnect

LEMMA FreshSound ==
  ASSUME NEW op, NEW k \in Keys, NEW c
  PROVE  Sound(Fresh(op, k, c))
BY DatabaseAssumption DEF Fresh, Sound, HasFields, AttemptsFit, WritesFit, CursorFits

LEMMA OpenCloseSound ==
  ASSUME ReportInv, NEW t \in DThreads, DOpen(t) \/ DClose(t) \/ DServe(t)
  PROVE  OthersHold(t) /\ Sound(dreq'[t]) /\ ddocs' = ddocs
<1>. DEFINE r == dreq[t]
<1>1. Sound(r) /\ DOMAIN dreq = DThreads
  BY DEF ReportInv
<1>2. ASSUME NEW op \in Operations, NEW k \in Keys, NEW c,
             dreq' = [dreq EXCEPT ![t] = Fresh(op, k, c)]
      PROVE  OthersHold(t) /\ Sound(dreq'[t])
  <2>1. dreq'[t] = Fresh(op, k, c) /\ OthersHold(t)
    BY <1>1, <1>2 DEF OthersHold
  <2>. QED
    BY <2>1, FreshSound
<1>3. CASE DOpen(t)
  <2>1. PICK op \in Operations, k \in Keys :
         \/ \E c \in dpool :
              /\ dreq' = [dreq EXCEPT ![t] = Fresh(op, k, c)]
              /\ dpool' = dpool \ {c}
              /\ UNCHANGED <<dlive, ddocs, dalarm>>
         \/ /\ dpool = {}
            /\ \E c \in Conns \ dlive :
                 /\ dreq' = [dreq EXCEPT ![t] = Fresh(op, k, c)]
                 /\ dlive' = dlive \cup {c}
            /\ UNCHANGED <<dpool, ddocs, dalarm>>
         \/ /\ dpool = {}
            /\ dreq' = [dreq EXCEPT ![t] =
                 [Fresh(op, k, NoConn) EXCEPT !.pc = "end", !.status = 500]]
            /\ dalarm' = TRUE
            /\ UNCHANGED <<dpool, dlive, ddocs>>
    BY <1>3, Zenon DEF DOpen
  <2>2. ddocs' = ddocs
    BY <2>1
  <2>3. CASE dreq' = [dreq EXCEPT ![t] =
                        [Fresh(op, k, NoConn) EXCEPT !.pc = "end", !.status = 500]]
    <3>1. /\ dreq'[t] = [Fresh(op, k, NoConn) EXCEPT !.pc = "end", !.status = 500]
          /\ OthersHold(t)
      BY <1>1, <2>3 DEF OthersHold
    <3>. QED
      BY <2>2, <3>1, DatabaseAssumption
      DEF Fresh, Sound, HasFields, AttemptsFit, WritesFit, CursorFits
  <2>. QED BY <1>2, <2>1, <2>2, <2>3, Zenon
<1>4. CASE DClose(t)
  <2>1. dreq'[t] = [r EXCEPT !.pc = "end", !.conn = NoConn] /\ OthersHold(t) /\ ddocs' = ddocs
    BY <1>1, <1>4 DEF DClose, OthersHold, Sound, HasFields
  <2>2. r.pc = "close"
    BY <1>4 DEF DClose
  <2>. HIDE DEF r
  <2>. QED
    BY <1>1, <2>1, <2>2 DEF Sound, HasFields, AttemptsFit, WritesFit, CursorFits
<1>5. CASE DServe(t)
  BY <1>1, <1>5, DatabaseAssumption
  DEF DServe, OthersHold, Fresh, Sound, HasFields, AttemptsFit, WritesFit, CursorFits
<1>. QED BY <1>3, <1>4, <1>5

LEMMA ReportStep == ASSUME ReportInv, [DNext]_dbVars PROVE ReportInv'
<1>1. CASE UNCHANGED dbVars
  BY <1>1 DEF dbVars, ReportInv
<1>2. ASSUME NEW t \in DThreads, OthersHold(t), Sound(dreq'[t]), ddocs' \in [Keys -> Nat]
      PROVE  ReportInv'
  BY <1>2 DEF ReportInv, OthersHold
<1>3. ddocs' = ddocs => ddocs' \in [Keys -> Nat]
  BY DEF ReportInv
<1>. QED
  BY <1>1, <1>2, <1>3, WritesSound, CallsSound, FindSound, CursorSound, ReconnectSound,
     OpenCloseSound DEF DNext

(* However often an operation is tried, whatever exception ends a call and *)
(* whenever the pool is replaced: a Collection that ends without exception *)
(* never tells of more documents than it changed, of all of them unless it *)
(* was tried again, and a listing whose cursor did not fail is complete.   *)
THEOREM ReportsTrue == DSpec => []ReportIsTrue
<1>1. DInit("idle") => ReportInv
  <2>. DEFINE r == [Fresh("count", NoConn, NoConn) EXCEPT !.pc = "idle"]
  <2>1. Sound(r)
    BY DatabaseAssumption DEF Fresh, Sound, HasFields, AttemptsFit, WritesFit, CursorFits
  <2>. HIDE DEF r
  <2>2. DInit("idle") => dreq = [t \in DThreads |-> r] /\ ddocs \in [Keys -> Nat]
    BY DEF DInit, r
  <2>. QED BY <2>1, <2>2 DEF ReportInv
<1>2. ReportInv /\ [DNext]_dbVars => ReportInv' BY ReportStep
<1>3. ReportInv => ReportIsTrue
  BY DEF ReportInv, ReportIsTrue, Sound, AttemptsFit, WritesFit, CursorFits
<1> QED BY <1>1, <1>2, <1>3, PTL DEF DSpec

-----------------------------------------------------------------------------
(* The configuration of an agent: its file, what the agent works with,    *)
(* and the searches for services and devices.                              *)

ThreadFields == {"op", "pc", "text", "error", "again", "ask", "broker", "ref", "ans"}
Locked == {"read", "document", "write", "reload", "end"}

ThreadType ==
  /\ DOMAIN cthread = CThreads
  /\ \A t \in CThreads : DOMAIN cthread[t] = ThreadFields

(* Who has which lock.  A POST has m_sm, a PUT m_mutex_document, until it  *)
(* ends; so that no other of them begins.                                  *)
LocksInv ==
  /\ {mutex, docMutex} \subseteq CThreads \cup {Nobody}
  /\ \A t \in CThreads :
       /\ cthread[t].pc \in Locked <=> mutex = t
       /\ cthread[t].pc \in Locked \cup {"update"} => t \in {sm, docMutex}
       /\ docMutex = t => cthread[t].pc \in Locked \cup {"update"}

NamesOf(text) == {r.name : r \in Range(text.resources)}

(* A text that is good is taken over. *)
TakenOver(text) ==
  ~Refused(text) => root = text.root /\ NamesOf(text) \subseteq DOMAIN resources

(* How far the thread with m_mutex has come. *)
FileOf(th) ==
  /\ th.pc = "update" => th.again = FALSE
  /\ th.pc \in {"read", "document"} /\ th.again => th.text = cfile
  /\ th.pc = "document" => TakenOver(th.text)
  /\ th.pc = "write" => ~Refused(th.text) /\ TakenOver(th.text) /\ document = th.text
  /\ th.pc = "end" => TakenOver(cfile) /\ (~Refused(cfile) => document = cfile)

FileInv == FileIsInForce /\ \A t \in CThreads : FileOf(cthread[t])

(* A resource has been put, or one is about to be. *)
Putting == \E u \in CThreads : cthread[u].op = "put"

NoneStored(ask) == storage = "file" \/ \A i \in DOMAIN Stored : ~Suits(Stored[i], ask)

(* What a search has found so far, and what it has said. *)
SearchOf(th) ==
  /\ th.op = "put" => th.pc # "idle"
  /\ th.pc \in {"lookup", "use"} => NoneStored(th.ask)
  /\ th.pc = "use" => Suits(th.ref[2], th.ask) /\ (Lives(th.ref[1]) \/ Putting)

Truthful(th) ==
  th.pc = "done" /\ th.ans # <<>> =>
    /\ th.ans[1] \in {"database", "file"} => Suits(th.ans[2], th.ask)
    /\ th.ans[1] = "file" => NoneStored(th.ask)
    /\ th.ans[1] = "garbage" => Putting
    /\ th.ans[1] = "device" =>
         /\ th.ans[2].active /\ th.ans[2].name = th.ask.name
         /\ th.ask.service # 0 => /\ th.ans[2].service = th.ask.service
                                  /\ th.ask.path \in {0, th.ans[2].path}

SearchInv == \A t \in CThreads : SearchOf(cthread[t]) /\ Truthful(cthread[t])

ConfInv == ThreadType /\ LocksInv /\ FileInv /\ SearchInv

(* Only t goes on. *)
OnlyThread(t) ==
  /\ DOMAIN cthread' = CThreads
  /\ \A u \in CThreads \ {t} : cthread'[u] = cthread[u]
  /\ DOMAIN cthread'[t] = ThreadFields

LEMMA OnlyThreadTypes ==
  ASSUME NEW t \in CThreads, ThreadType, OnlyThread(t)
  PROVE  ThreadType'
  BY DEF ThreadType, OnlyThread

(* Nobody loses a service it has found, unless by a PUT. *)
ObjectsKept == \A n \in DOMAIN resources : n \in DOMAIN resources' /\ resources'[n] = resources[n]

LEMMA SearchesKeep ==
  ASSUME SearchInv, NEW t \in CThreads, OnlyThread(t), storage' = storage,
         ObjectsKept \/ cthread'[t].op = "put",
         cthread[t].op = "put" => cthread'[t].op = "put",
         SearchOf(cthread[t])', Truthful(cthread[t])'
  PROVE  SearchInv'
<1>1. Putting => Putting'
  BY DEF Putting, OnlyThread
<1>2. cthread'[t].op = "put" => Putting'
  BY DEF Putting
<1>3. ASSUME NEW u \in CThreads \ {t} PROVE SearchOf(cthread[u])' /\ Truthful(cthread[u])'
  <2>1. cthread'[u] = cthread[u] /\ SearchOf(cthread[u]) /\ Truthful(cthread[u])
    BY DEF OnlyThread, SearchInv
  <2>2. Truthful(cthread[u])'
    BY <1>1, <2>1 DEF Truthful, NoneStored
  <2>3. \A id : Lives(id) => Lives(id)' \/ Putting'
    BY <1>2 DEF Lives, Known, ObjectsKept
  <2>4. SearchOf(cthread[u])'
    BY <1>1, <2>1, <2>3 DEF SearchOf, NoneStored
  <2>. QED BY <2>2, <2>4
<1>. QED BY <1>3 DEF SearchInv

(* Requests that change neither locks nor configuration. *)
Reads ==
  UNCHANGED <<cfile, root, resources, sm, mutex, docMutex, nextId, storage, cached>>

LEMMA ReadsKeep ==
  ASSUME ThreadType, LocksInv, FileInv, NEW t \in CThreads, OnlyThread(t), Reads,
         document' = document \/ document = NoText,
         cthread[t].pc \notin Locked \cup {"update"},
         cthread'[t].pc \notin Locked \cup {"update"}
  PROVE  LocksInv' /\ FileInv'
<1>1. LocksInv'
  BY DEF LocksInv, OnlyThread, Reads
<1>2. \A text : ~Refused(text) => text # NoText
  BY DEF Refused, NoText
<1>3. \A text : TakenOver(text) => TakenOver(text)'
  BY DEF TakenOver, Reads, NamesOf
<1>4. FileIsInForce'
  BY <1>2 DEF FileInv, FileIsInForce, Reads
<1>5. ASSUME NEW u \in CThreads PROVE FileOf(cthread[u])'
  <2>1. CASE u = t
    BY <2>1 DEF FileOf, Locked
  <2>2. CASE u # t
    <3>1. cthread'[u] = cthread[u] /\ FileOf(cthread[u]) /\ cfile' = cfile
      BY <2>2 DEF OnlyThread, FileInv, Reads
    <3>. QED BY <1>2, <1>3, <3>1 DEF FileOf
  <2>. QED BY <2>1, <2>2
<1>. QED BY <1>1, <1>4, <1>5 DEF FileInv

(* A search or a GET that ends at once, with the answer ans. *)
LEMMA EndsAtOnce ==
  ASSUME ConfInv, NEW t \in CThreads, OnlyThread(t), Reads,
         document' = document \/ document = NoText,
         cthread[t].pc \notin Locked \cup {"update"}, cthread'[t].pc = "done",
         cthread[t].op # "put",
         Truthful(cthread[t])'
  PROVE  ConfInv'
<1>1. ThreadType /\ LocksInv /\ FileInv /\ SearchInv
  BY DEF ConfInv
<1>2. SearchOf(cthread[t])'
  BY DEF SearchOf
<1>3. ObjectsKept /\ storage' = storage
  BY DEF Reads, ObjectsKept
<1>4. cthread'[t].pc \notin Locked \cup {"update"}
  BY DEF Locked
<1>. QED BY <1>1, <1>2, <1>3, <1>4, OnlyThreadTypes, ReadsKeep, SearchesKeep DEF ConfInv

LEMMA AgentsGetKeeps ==
  ASSUME ConfInv, NEW t \in CThreads, AgentsGet(t)
  PROVE  ConfInv'
<1>1. cthread[t].pc = "idle" /\ cthread[t].op # "put" /\ ThreadType /\ Reads
  BY DEF ConfInv, SearchInv, SearchOf, AgentsGet, Reads
<1>2. document' = document \/ document = NoText
  BY DEF AgentsGet
<1>3. PICK ans : ans = <<"ok", document'>>
  OBVIOUS
<1>4. cthread' = [cthread EXCEPT ![t].op = "get", ![t].pc = "done", ![t].ans = ans]
  BY <1>3 DEF AgentsGet
<1>5. OnlyThread(t) /\ cthread'[t].pc = "done" /\ cthread'[t].ans = ans /\ ans[1] = "ok"
  BY <1>1, <1>3, <1>4 DEF ThreadType, OnlyThread, ThreadFields
<1>6. Truthful(cthread[t])'
  BY <1>5 DEF Truthful
<1>. QED BY <1>1, <1>2, <1>5, <1>6, EndsAtOnce DEF Locked

LEMMA AgentGetKeeps ==
  ASSUME ConfInv, NEW t \in CThreads, NEW name, AgentGet(t, name)
  PROVE  ConfInv'
<1>1. cthread[t].pc = "idle" /\ cthread[t].op # "put" /\ ThreadType /\ Reads /\ document' = document
  BY DEF ConfInv, SearchInv, SearchOf, AgentGet, Reads
<1>2. PICK ans : /\ ans = IF Known(name) THEN <<"ok", ResourceText(name, resources[name])>> ELSE <<"not found">>
                 /\ cthread' = [cthread EXCEPT ![t].op = "get", ![t].pc = "done", ![t].ans = ans]
  BY DEF AgentGet
<1>3. ans[1] \in {"ok", "not found"}
  BY <1>2
<1>4. OnlyThread(t) /\ cthread'[t].pc = "done" /\ cthread'[t].ans = ans
  BY <1>1, <1>2 DEF ThreadType, OnlyThread, ThreadFields
<1>5. Truthful(cthread[t])'
  BY <1>3, <1>4 DEF Truthful
<1>. QED BY <1>1, <1>4, <1>5, EndsAtOnce DEF Locked

(* What a service lacks does not decide whether it suits. *)
LEMMA FilledSuits == \A s, default, ask : Suits(s, ask) => Suits(FillService(s, default), ask)
  BY DEF Suits, FillService

(* A search that is answered at once. *)
Told(t, op, ask, ans) ==
  cthread' = [cthread EXCEPT ![t].op = op, ![t].ask = ask, ![t].pc = "done", ![t].ans = ans]

LEMMA ToldKeeps ==
  ASSUME ConfInv, NEW t \in CThreads, cthread[t].pc = "idle", Reads, document' = document,
         NEW op, NEW ask, NEW ans, Told(t, op, ask, ans),
         \A th : th.ask = ask /\ th.ans = ans => Truthful(th)'
  PROVE  ConfInv'
<1>1. ThreadType /\ cthread[t].op # "put"
  BY DEF ConfInv, SearchInv, SearchOf
<1>2. OnlyThread(t) /\ cthread'[t].pc = "done" /\ cthread'[t].ans = ans /\ cthread'[t].ask = ask
  BY <1>1 DEF Told, ThreadType, OnlyThread, ThreadFields
<1>3. Truthful(cthread[t])'
  BY <1>2
<1>. QED BY <1>1, <1>2, <1>3, EndsAtOnce DEF Locked

LEMMA SearchServiceKeeps ==
  ASSUME ConfInv, NEW t \in CThreads, NEW ask, SearchService(t, ask)
  PROVE  ConfInv'
<1>1. cthread[t].pc = "idle" /\ cthread[t].op # "put" /\ ThreadType /\ Reads /\ document' = document
  BY DEF ConfInv, SearchInv, SearchOf, SearchService, Reads
<1>2. ASSUME NEW i \in DOMAIN Stored, Suits(Stored[i], ask),
             Told(t, "search", ask, <<"database", FillService(Stored[i], DefaultBroker)>>)
      PROVE  ConfInv'
  <2>1. PICK ans : ans = <<"database", FillService(Stored[i], DefaultBroker)>>
    OBVIOUS
  <2>2. ans[1] = "database" /\ Suits(ans[2], ask)
    BY <1>2, <2>1, FilledSuits
  <2>3. \A th : th.ask = ask /\ th.ans = ans => Truthful(th)'
    BY <2>2 DEF Truthful
  <2>4. Told(t, "search", ask, ans)
    BY <1>2, <2>1, Zenon
  <2>. QED BY <1>1, <2>3, <2>4, ToldKeeps
<1>3. ASSUME Told(t, "search", ask, <<"exception">>)
      PROVE  ConfInv'
  <2>1. PICK ans : ans = <<"exception">>
    OBVIOUS
  <2>2. ans[1] = "exception"
    BY <2>1
  <2>3. \A th : th.ask = ask /\ th.ans = ans => Truthful(th)'
    BY <2>2 DEF Truthful
  <2>4. Told(t, "search", ask, ans)
    BY <1>3, <2>1, Zenon
  <2>. QED BY <1>1, <2>3, <2>4, ToldKeeps
<1>4. ASSUME NoneStored(ask),
             cthread' = [cthread EXCEPT ![t].op = "search", ![t].ask = ask, ![t].pc = "lookup",
                           ![t].broker = DefaultBroker]
      PROVE  ConfInv'
  <2>1. /\ OnlyThread(t) /\ cthread'[t].pc = "lookup" /\ cthread'[t].ask = ask
        /\ cthread'[t].op = "search"
    BY <1>1, <1>4 DEF ThreadType, OnlyThread, ThreadFields
  <2>2. SearchOf(cthread[t])' /\ Truthful(cthread[t])'
    BY <1>1, <1>4, <2>1 DEF SearchOf, Truthful, NoneStored, Reads
  <2>3. ObjectsKept /\ storage' = storage
    BY <1>1 DEF Reads, ObjectsKept
  <2>4. cthread'[t].pc \notin Locked \cup {"update"} /\ cthread[t].pc \notin Locked \cup {"update"}
    BY <1>1, <2>1 DEF Locked
  <2>. QED BY <1>1, <2>1, <2>2, <2>3, <2>4, OnlyThreadTypes, ReadsKeep, SearchesKeep DEF ConfInv
<1>. QED BY <1>2, <1>3, <1>4 DEF SearchService, NoneStored, Told

(* All keys that are looked at belong to services that suit. *)
LEMMA LookupServiceKeeps ==
  ASSUME ConfInv, NEW t \in CThreads, LookupService(t)
  PROVE  ConfInv'
<1>. DEFINE th == cthread[t]
<1>1. /\ th.pc = "lookup" /\ ThreadType /\ LocksInv /\ FileInv /\ SearchInv
      /\ NoneStored(th.ask) /\ Reads /\ document' = document
  BY DEF ConfInv, SearchInv, SearchOf, LookupService, Reads
<1>2. ObjectsKept /\ storage' = storage /\ th.pc \notin Locked \cup {"update"}
  BY <1>1 DEF Reads, ObjectsKept, Locked
<1>3. ASSUME AnswerWith(t, <<"exception">>) PROVE ConfInv'
  <2>1. PICK ans : ans = <<"exception">>
    OBVIOUS
  <2>2. ans[1] = "exception" /\ AnswerWith(t, ans)
    BY <1>3, <2>1
  <2>3. /\ OnlyThread(t) /\ cthread'[t].pc = "done" /\ cthread'[t].ans = ans
        /\ cthread'[t].op = th.op
    BY <1>1, <2>2 DEF AnswerWith, ThreadType, OnlyThread, ThreadFields
  <2>4. SearchOf(cthread[t])' /\ Truthful(cthread[t])'
    BY <2>2, <2>3 DEF SearchOf, Truthful
  <2>5. cthread'[t].pc \notin Locked \cup {"update"}
    BY <2>3 DEF Locked
  <2>. QED BY <1>1, <1>2, <2>3, <2>4, <2>5, OnlyThreadTypes, ReadsKeep, SearchesKeep DEF ConfInv
<1>4. ASSUME NEW k, Known(Plugin), Suits(resources[Plugin].services[k], th.ask),
             cthread' = [cthread EXCEPT ![t].pc = "use",
               ![t].ref = <<resources[Plugin].id, resources[Plugin].services[k]>>]
      PROVE  ConfInv'
  <2>1. PICK ref : ref = <<resources[Plugin].id, resources[Plugin].services[k]>>
    OBVIOUS
  <2>2. Lives(ref[1]) /\ Suits(ref[2], th.ask)
    BY <1>4, <2>1 DEF Lives
  <2>3. cthread' = [cthread EXCEPT ![t].pc = "use", ![t].ref = ref]
    BY <1>4, <2>1, Zenon
  <2>4. /\ OnlyThread(t) /\ cthread'[t].pc = "use" /\ cthread'[t].ref = ref
        /\ cthread'[t].op = th.op /\ cthread'[t].ask = th.ask
    BY <1>1, <2>3 DEF ThreadType, OnlyThread, ThreadFields
  <2>5. SearchOf(cthread[t])'
    BY <1>1, <2>2, <2>4 DEF SearchOf, NoneStored, Lives, Known, Reads
  <2>6. Truthful(cthread[t])'
    BY <2>4 DEF Truthful
  <2>7. cthread'[t].pc \notin Locked \cup {"update"}
    BY <2>4 DEF Locked
  <2>. QED BY <1>1, <1>2, <2>4, <2>5, <2>6, <2>7, OnlyThreadTypes, ReadsKeep, SearchesKeep DEF ConfInv
<1>5. PICK keys : /\ \A k \in keys : Known(Plugin) /\ Suits(resources[Plugin].services[k], th.ask)
                  /\ \/ keys = {} /\ AnswerWith(t, <<"exception">>)
                     \/ \E k \in keys :
                          cthread' = [cthread EXCEPT ![t].pc = "use",
                            ![t].ref = <<resources[Plugin].id, resources[Plugin].services[k]>>]
  BY Zenon DEF LookupService, ByApiKey, ByNameAndPath, ByNameOnly, SuitingKeys
<1>. QED BY <1>3, <1>4, <1>5

LEMMA UseServiceKeeps ==
  ASSUME ConfInv, NEW t \in CThreads, UseService(t)
  PROVE  ConfInv'
<1>. DEFINE th == cthread[t]
<1>1. /\ th.pc = "use" /\ ThreadType /\ LocksInv /\ FileInv /\ SearchInv
      /\ SearchOf(th) /\ Reads /\ document' = document
  BY DEF ConfInv, SearchInv, UseService, Reads
<1>2. PICK ans : /\ ans = IF Lives(th.ref[1]) THEN <<"file", FillService(th.ref[2], th.broker)>>
                          ELSE <<"garbage">>
                 /\ AnswerWith(t, ans)
  BY Zenon DEF UseService
<1>3. /\ ans[1] \in {"file", "garbage"}
      /\ ans[1] = "file" => Suits(ans[2], th.ask)
      /\ ans[1] = "garbage" => Putting
  <2>1. Suits(th.ref[2], th.ask) /\ (Lives(th.ref[1]) \/ Putting)
    BY <1>1 DEF SearchOf
  <2>2. CASE Lives(th.ref[1])
    <3>1. ans = <<"file", FillService(th.ref[2], th.broker)>>
      BY <1>2, <2>2, Zenon
    <3>2. ans[1] = "file" /\ ans[2] = FillService(th.ref[2], th.broker)
      BY <3>1
    <3>3. Suits(FillService(th.ref[2], th.broker), th.ask)
      BY <2>1, FilledSuits
    <3>4. Suits(ans[2], th.ask) /\ ans[1] # "garbage"
      BY <3>2, <3>3
    <3>. QED BY <3>2, <3>4
  <2>3. CASE ~Lives(th.ref[1])
    <3>1. ans = <<"garbage">>
      BY <1>2, <2>3, Zenon
    <3>. QED BY <2>1, <2>3, <3>1
  <2>. QED BY <2>2, <2>3
<1>4. /\ OnlyThread(t) /\ cthread'[t].pc = "done" /\ cthread'[t].ans = ans
      /\ cthread'[t].op = th.op /\ cthread'[t].ask = th.ask
  BY <1>1, <1>2 DEF AnswerWith, ThreadType, OnlyThread, ThreadFields
<1>5. Putting => Putting'
  BY <1>4 DEF Putting, OnlyThread
<1>6. SearchOf(cthread[t])'
  BY <1>4 DEF SearchOf
<1>7. Truthful(cthread[t])'
  BY <1>1, <1>3, <1>4, <1>5 DEF SearchOf, Truthful, NoneStored, Reads
<1>8. ObjectsKept /\ storage' = storage
  BY <1>1 DEF Reads, ObjectsKept
<1>9. cthread'[t].pc \notin Locked \cup {"update"} /\ th.pc \notin Locked \cup {"update"}
  BY <1>1, <1>4 DEF Locked
<1>. QED BY <1>1, <1>4, <1>6, <1>7, <1>8, <1>9, OnlyThreadTypes, ReadsKeep, SearchesKeep DEF ConfInv

LEMMA GetFileDeviceKeeps ==
  ASSUME ConfInv, NEW t \in CThreads, NEW ask, GetFileDevice(t, ask)
  PROVE  ConfInv'
<1>. DEFINE Named(d) == /\ d.name = ask.name
                        /\ ask.service # 0 => d.service = ask.service /\ ask.path \in {0, d.path}
<1>1. cthread[t].pc = "idle" /\ Reads /\ document' = document
  BY DEF GetFileDevice, Reads
<1>2. \A p, d : d \in Matching(ask.name, ask.service, p) =>
        d.name = ask.name /\ d.service = ask.service /\ d.path = p
  BY DEF Matching, DeviceKey
<1>3. ask.path = 0 => \A d \in FirstPath(ask) : Named(d)
  BY <1>2, Zenon DEF FirstPath
<1>4. \A d \in Matching(ask.name, ask.service, ask.path) : Named(d)
  BY <1>2
<1>5. \A d \in {e \in cached : e.name = ask.name} : ask.service = 0 => Named(d)
  OBVIOUS
<1>6. PICK ans : /\ Told(t, "device", ask, ans)
                 /\ \/ ans \in {<<"exception">>, <<"null">>}
                    \/ \E d : Named(d) /\ ans = IF d.active THEN <<"device", d>> ELSE <<"exception">>
  <2>. DEFINE all == ask.path = 0 /\ ask.service # 0
              found == IF all THEN IF Known(Plugin) THEN FirstPath(ask) ELSE {}
                       ELSE IF ask.service = 0 THEN {d \in cached : d.name = ask.name}
                       ELSE Matching(ask.name, ask.service, ask.path)
  <2>1. \A d \in found : Named(d)
    BY <1>3, <1>4, <1>5
  <2>2. PICK ans \in IF all /\ ~Known(Plugin) THEN {<<"exception">>}
                     ELSE IF found = {} THEN {<<"null">>}
                     ELSE {IF d.active THEN <<"device", d>> ELSE <<"exception">> : d \in found} :
          Told(t, "device", ask, ans)
    BY Zenon DEF GetFileDevice, Told
  <2>. HIDE DEF found, all, Named
  <2>3. \/ ans \in {<<"exception">>, <<"null">>}
        \/ \E d \in found : ans = IF d.active THEN <<"device", d>> ELSE <<"exception">>
    BY <2>2, Zenon
  <2>. QED BY <2>1, <2>2, <2>3, Zenon
<1>7. \/ ans[1] \in {"exception", "null"}
      \/ ans[1] = "device" /\ ans[2].active /\ Named(ans[2])
  <2>. HIDE DEF Named
  <2>. QED BY <1>6
<1>8. \A th : th.ask = ask /\ th.ans = ans => Truthful(th)'
  BY <1>7 DEF Truthful
<1>. QED BY <1>1, <1>6, <1>8, ToldKeeps

(* The steps of changes.  One of them tells nobody anything before it is   *)
(* over, and does not search.                                              *)
LEMMA ChangeSearches ==
  ASSUME SearchInv, NEW t \in CThreads, OnlyThread(t), storage' = storage,
         ObjectsKept \/ cthread'[t].op = "put", cthread'[t].op = cthread[t].op,
         cthread'[t].pc \notin {"idle", "lookup", "use"},
         cthread'[t].pc = "done" => cthread'[t].ans[1] \in {"ok", "refused"}
  PROVE  SearchInv'
<1>1. SearchOf(cthread[t])'
  BY DEF SearchOf
<1>2. Truthful(cthread[t])'
  BY DEF Truthful
<1>. QED BY <1>1, <1>2, SearchesKeep

(* What a thread with m_mutex knows of the file stays true, if nobody else *)
(* changes the configuration.                                              *)
LEMMA OthersFiles ==
  ASSUME FileInv, NEW t \in CThreads, OnlyThread(t), mutex' = mutex,
         UNCHANGED <<cfile, root, resources, document, docMutex>>,
         cthread'[t].pc \notin Locked, cthread'[t].pc = "update" => cthread'[t].again = FALSE
  PROVE  FileInv'
<1>1. \A text : TakenOver(text) => TakenOver(text)'
  BY DEF TakenOver, NamesOf
<1>2. FileIsInForce'
  BY DEF FileInv, FileIsInForce
<1>3. ASSUME NEW u \in CThreads PROVE FileOf(cthread[u])'
  <2>1. CASE u = t
    BY <2>1 DEF FileOf, Locked
  <2>2. CASE u # t
    BY <1>1, <2>2 DEF FileOf, FileInv, OnlyThread
  <2>. QED BY <2>1, <2>2
<1>. QED BY <1>2, <1>3 DEF FileInv

(* A POST begins. *)
LEMMA AgentsPostKeeps ==
  ASSUME ConfInv, NEW t \in CThreads, NEW text, AgentsPost(t, text)
  PROVE  ConfInv'
<1>1. /\ ThreadType /\ LocksInv /\ FileInv /\ SearchInv
      /\ cthread[t].pc = "idle" /\ sm = Nobody /\ sm' = t
      /\ cthread' = [cthread EXCEPT ![t] = [NoThread EXCEPT !.op = "post", !.pc = "update", !.text = text]]
      /\ UNCHANGED <<cfile, root, resources, document, mutex, docMutex, storage>>
  BY DEF ConfInv, AgentsPost, Begin
<1>2. OnlyThread(t) /\ cthread'[t].pc = "update" /\ cthread'[t].op = "post" /\ cthread'[t].again = FALSE
  BY <1>1 DEF ThreadType, OnlyThread, ThreadFields, NoThread
<1>3. LocksInv'
  BY <1>1, <1>2, ConfigurationAssumption DEF LocksInv, OnlyThread, Locked
<1>4. FileInv'
  <2>1. cthread'[t].pc \notin Locked
    BY <1>2 DEF Locked
  <2>. QED BY <1>1, <1>2, <2>1, OthersFiles
<1>5. SearchInv'
  <2>1. SearchOf(cthread[t])' /\ Truthful(cthread[t])'
    BY <1>2 DEF SearchOf, Truthful
  <2>2. cthread[t].op # "put" /\ ObjectsKept
    BY <1>1 DEF SearchInv, SearchOf, ObjectsKept
  <2>. QED BY <1>1, <1>2, <2>1, <2>2, SearchesKeep
<1>. QED BY <1>1, <1>2, <1>3, <1>4, <1>5, OnlyThreadTypes DEF ConfInv

(* A PUT keeps all objects but that of its resource, or changes nothing.   *)
LEMMA AgentPutKeeps ==
  ASSUME ConfInv, NEW t \in CThreads, NEW name, NEW text, AgentPut(t, name, text)
  PROVE  ConfInv'
<1>1. /\ ThreadType /\ LocksInv /\ FileInv /\ SearchInv
      /\ cthread[t].pc = "idle" /\ sm = Nobody /\ docMutex = Nobody
      /\ UNCHANGED <<cfile, root, sm, mutex, storage>>
  BY DEF ConfInv, AgentPut
<1>2. cthread[t].op # "put"
  BY <1>1 DEF SearchInv, SearchOf
<1>3. ASSUME cthread' = [cthread EXCEPT ![t].op = "put", ![t].pc = "done", ![t].ans = <<"refused">>],
             UNCHANGED <<resources, document, docMutex, nextId>>
      PROVE  ConfInv'
  <2>1. PICK ans : ans = <<"refused">>
    OBVIOUS
  <2>2. ans[1] = "refused"
    BY <2>1
  <2>3. cthread' = [cthread EXCEPT ![t].op = "put", ![t].pc = "done", ![t].ans = ans]
    BY <1>3, <2>1, Zenon
  <2>4. /\ OnlyThread(t) /\ cthread'[t].pc = "done" /\ cthread'[t].op = "put" /\ cthread'[t].ans = ans
    BY <1>1, <2>3 DEF ThreadType, OnlyThread, ThreadFields
  <2>5. SearchOf(cthread[t])' /\ Truthful(cthread[t])'
    BY <2>2, <2>4 DEF SearchOf, Truthful
  <2>6. cthread'[t].pc \notin Locked \cup {"update"} /\ cthread[t].pc \notin Locked \cup {"update"}
    BY <1>1, <2>4 DEF Locked
  <2>7. LocksInv'
    BY <1>1, <1>3, <2>4, <2>6 DEF LocksInv, OnlyThread
  <2>8. FileInv'
    BY <1>1, <1>3, <2>4, <2>6, OthersFiles
  <2>. QED BY <1>1, <1>2, <2>4, <2>5, <2>7, <2>8, OnlyThreadTypes, SearchesKeep DEF ConfInv
<1>4. ASSUME NEW th, th = [NoThread EXCEPT !.op = "put", !.pc = "update", !.text = document'],
             cthread' = [cthread EXCEPT ![t] = th], docMutex' = t
      PROVE  ConfInv'
  <2>1. /\ DOMAIN th = ThreadFields /\ th.op = "put" /\ th.pc = "update" /\ th.again = FALSE
    BY <1>4 DEF NoThread, ThreadFields
  <2>2. /\ OnlyThread(t) /\ cthread'[t].op = "put" /\ cthread'[t].pc = "update"
        /\ cthread'[t].again = FALSE
    BY <1>1, <1>4, <2>1 DEF ThreadType, OnlyThread
  <2>3. SearchOf(cthread[t])' /\ Truthful(cthread[t])'
    BY <2>2 DEF SearchOf, Truthful
  <2>4. \A u \in CThreads : mutex # u
    BY <1>1, ConfigurationAssumption DEF LocksInv
  <2>5. LocksInv'
    BY <1>1, <1>4, <2>2, <2>4 DEF LocksInv, OnlyThread, Locked
  <2>6. FileInv'
    <3>1. FileIsInForce'
      BY <1>4, ConfigurationAssumption DEF FileIsInForce
    <3>2. \A u \in CThreads : cthread'[u].pc \notin Locked
      BY <1>1, <2>2, <2>4 DEF LocksInv, OnlyThread, Locked
    <3>3. \A u \in CThreads : cthread'[u].pc = "update" => cthread'[u].again = FALSE
      BY <1>1, <2>2 DEF OnlyThread, FileInv, FileOf
    <3>4. \A u \in CThreads : FileOf(cthread[u])'
      BY <3>2, <3>3 DEF FileOf, Locked
    <3>. QED BY <3>1, <3>4 DEF FileInv
  <2>. QED BY <1>1, <1>2, <2>2, <2>3, <2>5, <2>6, OnlyThreadTypes, SearchesKeep DEF ConfInv
<1>5. \/ /\ cthread' = [cthread EXCEPT ![t].op = "put", ![t].pc = "done", ![t].ans = <<"refused">>]
         /\ UNCHANGED <<resources, document, docMutex, nextId>>
      \/ /\ docMutex' = t
         /\ cthread' = [cthread EXCEPT ![t] = [NoThread EXCEPT !.op = "put", !.pc = "update", !.text = document']]
  BY Zenon DEF AgentPut, Begin
<1>. QED BY <1>3, <1>4, <1>5, Zenon

(* The thread with m_mutex goes on; the others do not care.                *)
LEMMA HolderFiles ==
  ASSUME LocksInv, FileInv, NEW t \in CThreads, OnlyThread(t), LocksInv',
         mutex' = t, FileOf(cthread[t])'
  PROVE  FileInv'
<1>1. FileIsInForce'
  BY ConfigurationAssumption DEF FileIsInForce
<1>2. ASSUME NEW u \in CThreads \ {t} PROVE FileOf(cthread[u])'
  <2>1. cthread'[u].pc \notin Locked /\ cthread'[u] = cthread[u] /\ FileOf(cthread[u])
    BY DEF LocksInv, OnlyThread, FileInv
  <2>. QED BY <2>1 DEF FileOf, Locked
<1>. QED BY <1>1, <1>2 DEF FileInv

LEMMA UpdateConfKeeps ==
  ASSUME ConfInv, NEW t \in CThreads, UpdateConf(t)
  PROVE  ConfInv'
<1>1. /\ ThreadType /\ LocksInv /\ FileInv /\ SearchInv
      /\ cthread[t].pc = "update" /\ mutex = Nobody /\ mutex' = t
      /\ cthread' = [cthread EXCEPT ![t].pc = "read"]
      /\ UNCHANGED <<cfile, root, resources, document, sm, docMutex, storage>>
  BY DEF ConfInv, UpdateConf, Goto
<1>2. /\ OnlyThread(t) /\ cthread'[t].pc = "read" /\ cthread'[t].again = cthread[t].again
      /\ cthread'[t].op = cthread[t].op
  BY <1>1 DEF ThreadType, OnlyThread, ThreadFields
<1>3. LocksInv'
  BY <1>1, <1>2, ConfigurationAssumption DEF LocksInv, OnlyThread, Locked
<1>4. FileOf(cthread[t])'
  BY <1>1, <1>2 DEF FileInv, FileOf
<1>5. SearchInv'
  BY <1>1, <1>2, ChangeSearches DEF ObjectsKept
<1>. QED BY <1>1, <1>2, <1>3, <1>4, <1>5, OnlyThreadTypes, HolderFiles DEF ConfInv

(* What is taken over of a text that is good, and never an object lost.    *)
LEMMA TakesOver ==
  ASSUME NEW text, TakeOver(text)
  PROVE  ObjectsKept /\ TakenOver(text)'
<1>. DEFINE list == Resources(text)
            names == DOMAIN resources \cup {r.name : r \in Range(list)}
<1>1. /\ DOMAIN AddResources(resources, list, nextId) = names
      /\ \A n \in DOMAIN resources : AddResources(resources, list, nextId)[n] = resources[n]
  BY Zenon DEF AddResources
<1>2. ObjectsKept
  BY <1>1 DEF ObjectsKept, TakeOver
<1>3. ASSUME ~Refused(text) PROVE root' = text.root /\ NamesOf(text) \subseteq DOMAIN resources'
  <2>1. text.object /\ text.array /\ list = text.resources
    BY <1>3 DEF Refused
  <2>2. root' = text.root /\ resources' = AddResources(resources, list, nextId)
    BY <2>1 DEF TakeOver
  <2>. QED BY <1>1, <2>1, <2>2 DEF NamesOf
<1>4. Refused(text)' <=> Refused(text)
  OBVIOUS
<1>. QED BY <1>2, <1>3, <1>4 DEF TakenOver, NamesOf

LEMMA ReadFileKeeps ==
  ASSUME ConfInv, NEW t \in CThreads, ReadFile(t)
  PROVE  ConfInv'
<1>. DEFINE th == cthread[t]
<1>1. /\ ThreadType /\ LocksInv /\ FileInv /\ SearchInv /\ FileOf(th)
      /\ th.pc = "read" /\ mutex = t
      /\ UNCHANGED <<cfile, document, sm, mutex, docMutex, storage>>
  BY DEF ConfInv, LocksInv, FileInv, ReadFile, Locked
<1>2. PICK error, pc :
        /\ pc = IF th.text.parses THEN "document" ELSE IF th.again THEN "end" ELSE "reload"
        /\ cthread' = [cthread EXCEPT ![t].error = error, ![t].pc = pc]
  BY Zenon DEF ReadFile
<1>3. IF th.text.parses THEN TakeOver(th.text) ELSE UNCHANGED <<root, resources>>
  BY DEF ReadFile
<1>4. /\ OnlyThread(t) /\ cthread'[t].pc = pc /\ cthread'[t].again = th.again
      /\ cthread'[t].op = th.op /\ cthread'[t].text = th.text
  BY <1>1, <1>2 DEF ThreadType, OnlyThread, ThreadFields
<1>5. pc \in {"document", "end", "reload"}
  BY <1>2
<1>6. LocksInv'
  BY <1>1, <1>4, <1>5 DEF LocksInv, OnlyThread, Locked
<1>7. FileOf(cthread[t])'
  <2>. PICK text : text = th.text
    OBVIOUS
  <2>1. pc = "document" => TakenOver(text)'
    BY <1>2, <1>3, TakesOver
  <2>2. pc = "end" => Refused(cfile)
    BY <1>1, <1>2 DEF FileOf, Refused
  <2>3. pc = "end" => TakenOver(cfile)' /\ Refused(cfile')
    BY <1>1, <2>2 DEF TakenOver
  <2>4. (pc = "document" => TakenOver(cthread[t].text)') /\ (th.again /\ pc = "document" => th.text = cfile)
    BY <1>1, <1>4, <2>1 DEF FileOf, TakenOver, NamesOf
  <2>. QED BY <1>1, <1>4, <1>5, <2>3, <2>4 DEF FileOf
<1>8. ObjectsKept
  BY <1>3, TakesOver DEF ObjectsKept
<1>9. SearchInv'
  BY <1>1, <1>4, <1>5, <1>8, ChangeSearches
<1>. QED BY <1>1, <1>4, <1>6, <1>7, <1>9, OnlyThreadTypes, HolderFiles DEF ConfInv

LEMMA SetDocumentKeeps ==
  ASSUME ConfInv, NEW t \in CThreads, SetDocument(t)
  PROVE  ConfInv'
<1>. DEFINE th == cthread[t]
<1>1. /\ ThreadType /\ LocksInv /\ FileInv /\ SearchInv /\ FileOf(th)
      /\ th.pc = "document" /\ mutex = t
      /\ UNCHANGED <<cfile, root, resources, sm, mutex, docMutex, storage>>
  BY DEF ConfInv, LocksInv, FileInv, SetDocument, Locked
<1>2. PICK pc :
        /\ pc = IF th.again THEN "end" ELSE IF Refused(th.text) THEN "reload" ELSE "write"
        /\ cthread' = [cthread EXCEPT ![t].pc = pc]
        /\ document' = IF Refused(th.text) THEN NoText ELSE th.text
  BY Zenon DEF SetDocument, Goto
<1>3. /\ OnlyThread(t) /\ cthread'[t].pc = pc /\ cthread'[t].again = th.again
      /\ cthread'[t].op = th.op /\ cthread'[t].text = th.text
  BY <1>1, <1>2 DEF ThreadType, OnlyThread, ThreadFields
<1>4. pc \in {"write", "end", "reload"}
  BY <1>2
<1>5. LocksInv'
  BY <1>1, <1>3, <1>4 DEF LocksInv, OnlyThread, Locked
<1>6. FileOf(cthread[t])'
  <2>1. TakenOver(th.text) /\ (pc = "end" => th.text = cfile)
    BY <1>1, <1>2 DEF FileOf
  <2>2. \A text : TakenOver(text) => TakenOver(text)'
    BY <1>1 DEF TakenOver, NamesOf
  <2>3. pc = "end" => TakenOver(cfile)' /\ (~Refused(cfile) => document' = cfile)
    BY <1>1, <1>2, <2>1, <2>2
  <2>4. pc = "write" => ~Refused(th.text) /\ document' = th.text
    BY <1>2
  <2>5. TakenOver(cthread[t].text)'
    BY <1>3, <2>1, <2>2 DEF TakenOver, NamesOf
  <2>. QED BY <1>1, <1>3, <1>4, <2>3, <2>4, <2>5 DEF FileOf
<1>7. SearchInv'
  BY <1>1, <1>3, <1>4, ChangeSearches DEF ObjectsKept
<1>. QED BY <1>1, <1>3, <1>5, <1>6, <1>7, OnlyThreadTypes, HolderFiles DEF ConfInv

LEMMA WriteConfKeeps ==
  ASSUME ConfInv, NEW t \in CThreads, WriteConf(t)
  PROVE  ConfInv'
<1>. DEFINE th == cthread[t]
<1>1. /\ ThreadType /\ LocksInv /\ FileInv /\ SearchInv /\ FileOf(th)
      /\ th.pc = "write" /\ mutex = t /\ cfile' = document
      /\ cthread' = [cthread EXCEPT ![t].pc = "end"]
      /\ UNCHANGED <<root, resources, document, sm, mutex, docMutex, storage>>
  BY DEF ConfInv, LocksInv, FileInv, WriteConf, Locked, Goto
<1>2. /\ OnlyThread(t) /\ cthread'[t].pc = "end" /\ cthread'[t].op = th.op
  BY <1>1 DEF ThreadType, OnlyThread, ThreadFields
<1>3. LocksInv'
  BY <1>1, <1>2 DEF LocksInv, OnlyThread, Locked
<1>4. FileOf(cthread[t])'
  <2>1. document = th.text /\ TakenOver(document)
    BY <1>1 DEF FileOf
  <2>2. TakenOver(cfile)' /\ document' = cfile'
    BY <1>1, <2>1 DEF TakenOver, NamesOf
  <2>. QED BY <1>2, <2>2 DEF FileOf
<1>5. SearchInv'
  BY <1>1, <1>2, ChangeSearches DEF ObjectsKept
<1>. QED BY <1>1, <1>2, <1>3, <1>4, <1>5, OnlyThreadTypes, HolderFiles DEF ConfInv

LEMMA ReloadKeeps ==
  ASSUME ConfInv, NEW t \in CThreads, Reload(t)
  PROVE  ConfInv'
<1>1. /\ ThreadType /\ LocksInv /\ FileInv /\ SearchInv
      /\ cthread[t].pc = "reload" /\ mutex = t
      /\ cthread' = [cthread EXCEPT ![t].text = cfile, ![t].again = TRUE, ![t].pc = "read"]
      /\ UNCHANGED <<cfile, root, resources, document, sm, mutex, docMutex, storage>>
  BY DEF ConfInv, LocksInv, Reload, Locked
<1>2. /\ OnlyThread(t) /\ cthread'[t].pc = "read" /\ cthread'[t].op = cthread[t].op
      /\ cthread'[t].text = cfile
  BY <1>1 DEF ThreadType, OnlyThread, ThreadFields
<1>3. LocksInv'
  BY <1>1, <1>2 DEF LocksInv, OnlyThread, Locked
<1>4. FileOf(cthread[t])'
  BY <1>1, <1>2 DEF FileOf
<1>5. SearchInv'
  BY <1>1, <1>2, ChangeSearches DEF ObjectsKept
<1>. QED BY <1>1, <1>2, <1>3, <1>4, <1>5, OnlyThreadTypes, HolderFiles DEF ConfInv

LEMMA UpdateEnds ==
  ASSUME ConfInv, NEW t \in CThreads, EndUpdate(t)
  PROVE  ConfInv'
<1>. DEFINE th == cthread[t]
<1>1. /\ ThreadType /\ LocksInv /\ FileInv /\ SearchInv /\ FileOf(th)
      /\ th.pc = "end" /\ mutex = t /\ mutex' = Nobody
      /\ sm' = IF sm = t THEN Nobody ELSE sm
      /\ docMutex' = IF docMutex = t THEN Nobody ELSE docMutex
      /\ UNCHANGED <<cfile, root, resources, document, storage>>
  BY DEF ConfInv, LocksInv, FileInv, EndUpdate, Locked
<1>2. PICK ans : /\ ans = IF th.error /\ th.op = "post" THEN <<"refused">> ELSE <<"ok">>
                 /\ cthread' = [cthread EXCEPT ![t].pc = "done", ![t].ans = ans]
  BY Zenon DEF EndUpdate, AnswerWith
<1>3. ans[1] \in {"ok", "refused"}
  BY <1>2
<1>4. /\ OnlyThread(t) /\ cthread'[t].pc = "done" /\ cthread'[t].op = th.op /\ cthread'[t].ans = ans
  BY <1>1, <1>2 DEF ThreadType, OnlyThread, ThreadFields
<1>5. \A u \in CThreads : u # Nobody
  BY ConfigurationAssumption
<1>6. LocksInv'
  BY <1>1, <1>4, <1>5 DEF LocksInv, OnlyThread, Locked
<1>7. FileInv'
  <2>1. FileIsInForce'
    BY <1>1 DEF FileOf, TakenOver, NamesOf, FileIsInForce
  <2>2. ASSUME NEW u \in CThreads PROVE FileOf(cthread[u])'
    <3>1. CASE u = t
      BY <1>4, <3>1 DEF FileOf
    <3>2. CASE u # t
      <4>1. cthread'[u] = cthread[u] /\ cthread[u].pc \notin Locked /\ FileOf(cthread[u])
        BY <1>1, <1>4, <3>2 DEF LocksInv, OnlyThread, FileInv
      <4>. QED BY <4>1 DEF FileOf, Locked
    <3>. QED BY <3>1, <3>2
  <2>. QED BY <2>1, <2>2 DEF FileInv
<1>8. SearchInv'
  BY <1>1, <1>3, <1>4, ChangeSearches DEF ObjectsKept
<1>. QED BY <1>1, <1>4, <1>6, <1>7, <1>8, OnlyThreadTypes DEF ConfInv

-----------------------------------------------------------------------------
LEMMA ConfStart == ConfInit("idle") => ConfInv
<1>. SUFFICES ASSUME ConfInit("idle") PROVE ConfInv
  OBVIOUS
<1>1. /\ mutex = Nobody /\ docMutex = Nobody /\ Loaded(cfile, root, resources)
      /\ document = IF Refused(cfile) THEN NoText ELSE cfile
      /\ cthread = [t \in CThreads |-> [NoThread EXCEPT !.pc = "idle"]]
  BY DEF ConfInit
<1>2. /\ DOMAIN cthread = CThreads
      /\ \A t \in CThreads : /\ DOMAIN cthread[t] = ThreadFields
                             /\ cthread[t].pc = "idle" /\ cthread[t].op = "none"
  BY <1>1 DEF NoThread, ThreadFields
<1>3. ThreadType /\ LocksInv
  BY <1>1, <1>2, ConfigurationAssumption DEF ThreadType, LocksInv, Locked
<1>4. FileIsInForce
  <2>. SUFFICES ASSUME ~Refused(cfile)
                PROVE  root = cfile.root /\ {r.name : r \in Range(cfile.resources)} \subseteq DOMAIN resources
    BY <1>1 DEF FileIsInForce
  <2>1. cfile.parses /\ cfile.object /\ cfile.array /\ Resources(cfile) = cfile.resources
    BY DEF Refused
  <2>2. root = cfile.root /\ resources = AddResources(<<>>, cfile.resources, 0)
    BY <1>1, <2>1 DEF Loaded
  <2>. QED BY <2>2 DEF AddResources
<1>5. FileInv
  BY <1>2, <1>4 DEF FileInv, FileOf
<1>6. SearchInv
  BY <1>2 DEF SearchInv, SearchOf, Truthful
<1>. QED BY <1>3, <1>5, <1>6 DEF ConfInv

LEMMA ConfStep == ConfInv /\ [ConfNext]_confVars => ConfInv'
<1>. SUFFICES ASSUME ConfInv, [ConfNext]_confVars PROVE ConfInv'
  OBVIOUS
<1>1. CASE UNCHANGED confVars
  <2>. USE <1>1 DEF confVars
  <2>1. ThreadType' /\ LocksInv'
    BY DEF ConfInv, ThreadType, LocksInv
  <2>2. FileInv'
    BY DEF ConfInv, FileInv, FileOf, FileIsInForce, TakenOver, NamesOf
  <2>3. SearchInv'
    BY DEF ConfInv, SearchInv, SearchOf, Truthful, Lives, Known, Putting, NoneStored
  <2>. QED BY <2>1, <2>2, <2>3 DEF ConfInv
<1>2. CASE ConfNext
  BY <1>2, AgentsPostKeeps, AgentPutKeeps, AgentGetKeeps, SearchServiceKeeps, GetFileDeviceKeeps,
     AgentsGetKeeps, UpdateConfKeeps, ReadFileKeeps, SetDocumentKeeps, WriteConfKeeps,
     ReloadKeeps, UpdateEnds, LookupServiceKeeps, UseServiceKeeps, Zenon DEF ConfNext
<1>. QED BY <1>1, <1>2

(* The file is what the agent works with, a search finds what is there,    *)
(* and an update is kept waiting only by one that waits for it             *)
(* (update_conf(), read_file(), add_resource(), get_service_by_name()).    *)
THEOREM FileServes == ConfInit("idle") /\ [][ConfNext]_confVars => []ConfigurationServes
<1>1. ConfInv => ConfigurationServes
  <2>. SUFFICES ASSUME ConfInv PROVE FileIsInForce /\ SearchIsTruthful /\ OnlyInversionBlocks
    BY DEF ConfigurationServes
  <2>1. FileIsInForce
    BY DEF ConfInv, FileInv
  <2>2. SearchIsTruthful
    <3>1. storage = "mongodb" => storage # "file"
      OBVIOUS
    <3>. QED BY <3>1 DEF ConfInv, SearchInv, Truthful, SearchIsTruthful, NoneStored, Putting
  <2>3. OnlyInversionBlocks
    <3>. SUFFICES ASSUME mutex # Nobody
                  PROVE  Moves(mutex) \/ (docMutex \notin {Nobody, mutex} /\ cthread[docMutex].pc = "update")
      BY DEF OnlyInversionBlocks
    <3>1. mutex \in CThreads /\ cthread[mutex].pc \in Locked /\ docMutex \in CThreads \cup {Nobody}
      BY DEF ConfInv, LocksInv
    <3>2. CASE docMutex \in {Nobody, mutex}
      BY <3>1, <3>2 DEF Moves, Locked
    <3>3. CASE docMutex \notin {Nobody, mutex}
      <4>1. cthread[docMutex].pc \in Locked \cup {"update"} /\ cthread[docMutex].pc \notin Locked
        BY <3>1, <3>3 DEF ConfInv, LocksInv
      <4>. QED BY <3>3, <4>1
    <3>. QED BY <3>2, <3>3
  <2>. QED BY <2>1, <2>2, <2>3
<1>. QED BY <1>1, ConfStart, ConfStep, PTL
=============================================================================
