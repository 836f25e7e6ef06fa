--------------------------- MODULE DevicesProofs ----------------------------
(***************************************************************************)
(* Devices that speak Thinking Things, for all messages, threads and       *)
(* writes of the applications: what a device is told and what is published *)
(* for it are its own, and what an application has set stands.  The        *)
(* plugins of the other devices, for all their files: what they work with  *)
(* is what is written there.  And the requests of the Context Broker for   *)
(* devices, for all documents and templates: a command is answered for,    *)
(* and leaves as it was provisioned.  And those that speak Ultralight, for *)
(* all contents and mappings: a message becomes one update of one entity,  *)
(* with all it says, or none.                                              *)
(***************************************************************************)
EXTENDS ThinkingThings, PluginFiles, NgsiRequests, Ultralight, FiniteSetTheorems,
        SequenceTheorems, WellFoundedInduction, TLAPS

-----------------------------------------------------------------------------
(* What the modules a device may send are turned into. *)

Results == {Transform(m) : m \in Modules} \ {Invalid}
Processed == {result[1].processed : result \in Results}
PlainOnes == {result[1].plain : result \in Results}

(* An attribute has a name, and a text or several for its value. *)
Proper(name, value) == name # <<"">> /\ value \in Seq(STRING)

LEMMA PartsAreModules ==
  ASSUME NEW msg \in TTMessages PROVE msg.parts \in Seq(Modules)
<1>. DEFINE own == {msg.parts[i] : i \in DOMAIN msg.parts}
<1>1. own \subseteq Modules
  BY DEF Modules
<1>2. msg.parts \in Seq(own)
  BY TTMessagesAssumption DEF TTMessagesAssumption
<1>. HIDE DEF own
<1>. QED BY <1>1, <1>2

LEMMA ModulesTyped ==
  ASSUME NEW m \in Modules
  PROVE  /\ m.params \in Seq(STRING)
         /\ m.kind = "GC" => m.params = <<>> \/ m.params[1] \in TTNames \cup {""}
<1>1. PICK msg \in TTMessages : m \in {msg.parts[i] : i \in DOMAIN msg.parts}
  BY DEF Modules
<1>2. PICK i \in DOMAIN msg.parts : m = msg.parts[i]
  BY <1>1
<1>. QED BY <1>2, TTMessagesAssumption DEF TTMessagesAssumption

LEMMA ParamTyped ==
  ASSUME NEW m \in Modules, NEW i \in Nat
  PROVE  /\ HasParam(m, i) => /\ i \in DOMAIN m.params /\ Param(m, i) = m.params[i]
                              /\ m.params[i] \in STRING
         /\ ~HasParam(m, i) => Param(m, i) = ""
<1>1. m.params \in Seq(STRING)
  BY ModulesTyped
<1>2. CASE i \in DOMAIN m.params
  <2>1. m.params[i] \in STRING
    BY <1>1, <1>2
  <2>. QED BY <1>2, <2>1 DEF Param, HasParam
<1>3. CASE i \notin DOMAIN m.params
  <2>1. Param(m, i) = "" /\ ~HasParam(m, i)
    BY <1>3 DEF Param, HasParam
  <2>. QED BY <2>1
<1>. QED BY <1>2, <1>3

LEMMA OneText == ASSUME NEW texts, NEW x \in texts PROVE <<x>> \in Seq(texts)
OBVIOUS

LEMMA TwoTexts == ASSUME NEW texts, NEW x \in texts, NEW y \in texts PROVE <<x, y>> \in Seq(texts)
OBVIOUS

(* The parameters of a closed module are a sequence. *)
LEMMA CloseTyped ==
  ASSUME NEW m \in Modules, m.kind \in {"P1", "B"}, TransformClose(m) # Invalid
  PROVE  /\ TransformClose(m) =
              Both(Attribute(<<m.kind>>,
                [i \in {j \in Mappings(m.kind) : HasParam(m, j)} |-> m.params[i]], m))
         /\ [i \in {j \in Mappings(m.kind) : HasParam(m, j)} |-> m.params[i]] \in Seq(STRING)
<1>. DEFINE there == {j \in Mappings(m.kind) : HasParam(m, j)}
<1>1. \A i \in Mandatory(m.kind) : HasParam(m, i)
  BY DEF TransformClose
<1>2. \E n \in Nat : there = 1..n
  <2>1. CASE m.kind = "B"
    <3>1. Mappings(m.kind) = 1..6 /\ Mandatory(m.kind) = 1..6
      BY <2>1 DEF Mappings, Mandatory
    <3>2. there = 1..6
      BY <3>1, <1>1
    <3>. QED BY <3>2
  <2>2. CASE m.kind = "P1"
    <3>1. Mappings(m.kind) = 1..5 /\ Mandatory(m.kind) = 1..4
      BY <2>2 DEF Mappings, Mandatory
    <3>2. CASE HasParam(m, 5)
      <4>1. there = 1..5
        BY <3>1, <3>2, <1>1
      <4>. QED BY <4>1
    <3>3. CASE ~HasParam(m, 5)
      <4>1. there = 1..4
        BY <3>1, <3>3, <1>1
      <4>. QED BY <4>1
    <3>. QED BY <3>2, <3>3
  <2>. QED BY <2>1, <2>2
<1>3. \A i \in there : m.params[i] \in STRING
  <2>. TAKE i \in there
  <2>1. i \in Nat /\ HasParam(m, i)
    BY DEF Mappings
  <2>. QED BY <2>1, ParamTyped
<1>4. [i \in there |-> m.params[i]] \in Seq(STRING)
  <2>. HIDE DEF there
  <2>. QED BY <1>2, <1>3
<1>5. TransformClose(m) = Both(Attribute(<<m.kind>>, [i \in there |-> m.params[i]], m))
  BY <1>1 DEF TransformClose
<1>. QED BY <1>4, <1>5

(* A module that is valid: its attribute under its own name, and under     *)
(* the prefix if it is a configuration module.                             *)
LEMMA TransformTyped ==
  ASSUME NEW m \in Modules, Transform(m) # Invalid
  PROVE  /\ m.kind \in {"GC", "GM", "GPS", "P1", "B"}
         /\ Proper(Transform(m)[1].processed.name, Transform(m)[1].processed.value)
         /\ Proper(Transform(m)[1].plain.name, Transform(m)[1].plain.value)
         /\ IF m.kind = "GC"
            THEN \E x : Transform(m)[1].processed.name = <<"_TTcurrent_", x>>
            ELSE Transform(m)[1].processed = Transform(m)[1].plain
<1>1. CASE m.kind = "GC"
  <2>1. Transform(m) = TransformGC(m)
    BY <1>1 DEF Transform
  <2>2. HasParam(m, 1) /\ HasParam(m, 2)
    BY <2>1 DEF TransformGC
  <2>3. /\ Transform(m)[1].processed.name = <<"_TTcurrent_", m.params[1]>>
        /\ Transform(m)[1].plain.name = <<m.params[1]>>
        /\ Transform(m)[1].processed.value = <<m.params[2]>>
        /\ Transform(m)[1].plain.value = <<m.params[2]>>
    BY <2>1, <2>2 DEF TransformGC, Attribute
  <2>4. m.params[1] # "" /\ m.params[2] \in STRING
    BY <2>2, ParamTyped DEF HasParam
  <2>5. <<m.params[1]>> # <<"">> /\ <<"_TTcurrent_", m.params[1]>> # <<"">>
    <3>1. <<m.params[1]>>[1] # <<"">>[1]
      BY <2>4
    <3>2. Len(<<"_TTcurrent_", m.params[1]>>) # Len(<<"">>)
      OBVIOUS
    <3>. QED BY <3>1, <3>2
  <2>6. <<m.params[2]>> \in Seq(STRING)
    BY <2>4, OneText
  <2>. QED BY <1>1, <2>3, <2>5, <2>6 DEF Proper
<1>2. CASE m.kind = "GM"
  <2>1. Transform(m) = TransformGM(m)
    BY <1>2 DEF Transform
  <2>2. HasParam(m, 1) /\ HasParam(m, 2)
    BY <2>1 DEF TransformGM
  <2>3. /\ Transform(m)[1].processed = Transform(m)[1].plain
        /\ Transform(m)[1].plain.name = <<m.params[1]>>
        /\ Transform(m)[1].plain.value = <<m.params[2]>>
    BY <2>1, <2>2 DEF TransformGM, Attribute, Both
  <2>4. m.params[1] # "" /\ m.params[2] \in STRING
    BY <2>2, ParamTyped DEF HasParam
  <2>5. <<m.params[1]>> # <<"">>
    <3>1. <<m.params[1]>>[1] # <<"">>[1]
      BY <2>4
    <3>. QED BY <3>1
  <2>6. <<m.params[2]>> \in Seq(STRING)
    BY <2>4, OneText
  <2>. QED BY <1>2, <2>3, <2>5, <2>6 DEF Proper
<1>3. CASE m.kind = "GPS"
  <2>1. Transform(m) = TransformGPS(m)
    BY <1>3 DEF Transform
  <2>2. HasParam(m, 1) /\ HasParam(m, 2)
    BY <2>1 DEF TransformGPS
  <2>3. /\ Transform(m)[1].processed = Transform(m)[1].plain
        /\ Transform(m)[1].plain.name = <<"position">>
        /\ Transform(m)[1].plain.value = <<m.params[1], m.params[2]>>
    BY <2>1, <2>2 DEF TransformGPS, Attribute, Both
  <2>4. m.params[1] \in STRING /\ m.params[2] \in STRING
    BY <2>2, ParamTyped DEF HasParam
  <2>5. <<m.params[1], m.params[2]>> \in Seq(STRING)
    BY <2>4, TwoTexts
  <2>6. <<"position">> # <<"">>
    <3>1. <<"position">>[1] # <<"">>[1]
      OBVIOUS
    <3>. QED BY <3>1
  <2>. QED BY <1>3, <2>3, <2>5, <2>6 DEF Proper
<1>4. CASE m.kind \in {"P1", "B"}
  <2>1. Transform(m) = TransformClose(m)
    BY <1>4 DEF Transform
  <2>. DEFINE value == [i \in {j \in Mappings(m.kind) : HasParam(m, j)} |-> m.params[i]]
  <2>2. Transform(m) = Both(Attribute(<<m.kind>>, value, m)) /\ value \in Seq(STRING)
    BY <1>4, <2>1, CloseTyped
  <2>. HIDE DEF value
  <2>3. /\ Transform(m)[1].processed = Transform(m)[1].plain
        /\ Transform(m)[1].plain.name = <<m.kind>>
        /\ Transform(m)[1].plain.value = value
    BY <2>2 DEF Attribute, Both
  <2>4. <<m.kind>> # <<"">>
    <3>1. <<m.kind>>[1] # <<"">>[1]
      BY <1>4
    <3>. QED BY <3>1
  <2>. QED BY <1>4, <2>2, <2>3, <2>4 DEF Proper
<1>5. m.kind \in {"GC", "GM", "GPS", "P1", "B"}
  BY DEF Transform
<1>. QED BY <1>1, <1>2, <1>3, <1>4, <1>5

LEMMA ResultsProper ==
  /\ \A a \in Processed : Proper(a.name, a.value)
  /\ \A a \in PlainOnes : Proper(a.name, a.value)
  /\ \A result \in Results : result[1].processed \in Processed /\ result[1].plain \in PlainOnes
BY TransformTyped DEF Results, Processed, PlainOnes

(* A value a device has sent does not go under the name of a configuration *)
(* module, but where the name is published for the first time.             *)
LEMMA ProcessedElsewhere ==
  ASSUME NEW a \in Processed, NEW n \in ConfigurationNames
  PROVE  a.name # <<n>>
<1>1. PICK m \in Modules : Transform(m) # Invalid /\ a = Transform(m)[1].processed
  BY DEF Processed, Results
<1>2. CASE m.kind = "GC"
  <2>1. PICK x : a.name = <<"_TTcurrent_", x>>
    BY <1>1, <1>2, TransformTyped
  <2>. QED BY <2>1
<1>3. CASE m.kind # "GC"
  <2>1. a = Transform(m)[1].plain
    BY <1>1, <1>3, TransformTyped
  <2>. QED BY <1>1, <1>3, <2>1 DEF ConfigurationNames
<1>. QED BY <1>2, <1>3

-----------------------------------------------------------------------------
(* What the broker has. *)

LEMMA LastOne ==
  ASSUME NEW n \in Nat, NEW D \in SUBSET (1..n), D # {}
  PROVE  \E m \in D : \A d \in D : d <= m
<1>. DEFINE mirror == {n - d : d \in D}
<1>0. \A d \in D : d \in Nat /\ n - d \in Nat
  <2>. TAKE d \in D
  <2>1. d \in 1..n
    OBVIOUS
  <2>. QED BY <2>1
<1>1. mirror \in SUBSET Nat /\ mirror # {}
  <2>1. \A x \in mirror : x \in Nat
    BY <1>0
  <2>2. PICK d \in D : TRUE
    OBVIOUS
  <2>3. n - d \in mirror
    OBVIOUS
  <2>. HIDE DEF mirror
  <2>. QED BY <2>1, <2>3
<1>2. PICK m \in mirror : \A d \in mirror : ~(<<d, m>> \in OpToRel(<, Nat))
  BY <1>1, NatLessThanWellFounded, WFMin
<1>3. \A d \in mirror : m <= d
  <2>. TAKE d \in mirror
  <2>1. m \in Nat /\ d \in Nat
    BY <1>1
  <2>2. ASSUME d < m PROVE <<d, m>> \in OpToRel(<, Nat)
    BY <2>1, <2>2 DEF OpToRel
  <2>3. ~(d < m)
    BY <1>2, <2>2, Zenon
  <2>. QED BY <2>1, <2>3
<1>4. PICK last \in D : m = n - last
  BY <1>2
<1>5. \A d \in D : d <= last
  <2>. TAKE d \in D
  <2>1. m <= n - d
    BY <1>3
  <2>2. d \in Nat /\ last \in Nat
    BY <1>0
  <2>. QED BY <1>4, <2>1, <2>2
<1>. QED BY <1>5

LEMMA NamedTyped ==
  ASSUME NEW S, NEW attributes \in Seq(S),
         NEW n \in {attributes[i].name : i \in DOMAIN attributes}
  PROVE  Named(attributes, n) \in S /\ Named(attributes, n).name = n
<1>. DEFINE places == {i \in DOMAIN attributes : attributes[i].name = n}
<1>1. Len(attributes) \in Nat /\ places \in SUBSET (1..Len(attributes)) /\ places # {}
  OBVIOUS
<1>2. PICK last \in places : \A d \in places : d <= last
  BY <1>1, LastOne
<1>. DEFINE IsLast(i) == /\ attributes[i].name = n
                         /\ \A j \in DOMAIN attributes : attributes[j].name = n => j <= i
<1>3. \E i \in DOMAIN attributes : IsLast(i)
  BY <1>2
<1>. DEFINE i == CHOOSE x \in DOMAIN attributes : IsLast(x)
<1>4. i \in DOMAIN attributes /\ IsLast(i)
  <2>. HIDE DEF IsLast
  <2>. QED BY <1>3
<1>5. Named(attributes, n) = attributes[i]
  BY DEF Named
<1>. HIDE DEF i
<1>. QED BY <1>4, <1>5

EntityOK(e) ==
  /\ \A n \in DOMAIN e.attributes : Proper(n, e.attributes[n].value)
  /\ e.there \in BOOLEAN
  /\ ~e.there => DOMAIN e.attributes = {}

LEMMA WrittenTyped ==
  ASSUME NEW e, EntityOK(e), NEW new, \A n \in DOMAIN new : Proper(n, new[n].value)
  PROVE  EntityOK(EntityWith(e, new))
<1>. DEFINE w == [n \in DOMAIN new \cup DOMAIN e.attributes |->
                    IF n \in DOMAIN new THEN new[n] ELSE e.attributes[n]]
<1>1. EntityWith(e, new).attributes = w /\ EntityWith(e, new).there = TRUE
  BY DEF EntityWith
<1>2. \A n \in DOMAIN w : Proper(n, w[n].value)
  BY DEF EntityOK
<1>. HIDE DEF w
<1>. QED BY <1>1, <1>2 DEF EntityOK

LEMMA AppendedTyped ==
  ASSUME NEW e, EntityOK(e), NEW S, \A a \in S : Proper(a.name, a.value),
         NEW attributes \in Seq(S)
  PROVE  /\ EntityOK(Appended(e, attributes))
         /\ \A n : (\A i \in DOMAIN attributes : attributes[i].name # n) =>
              /\ n \in DOMAIN Appended(e, attributes).attributes => n \in DOMAIN e.attributes
              /\ n \in DOMAIN e.attributes =>
                   Appended(e, attributes).attributes[n] = e.attributes[n]
<1>. DEFINE names == {attributes[i].name : i \in DOMAIN attributes}
            new == [n \in names |->
                      [value |-> Named(attributes, n).value,
                       sleep |-> Named(attributes, n).sleep, by |-> "device"]]
<1>1. \A n \in names : Proper(n, new[n].value)
  <2>. TAKE n \in names
  <2>1. Named(attributes, n) \in S /\ Named(attributes, n).name = n
    BY NamedTyped
  <2>2. new[n].value = Named(attributes, n).value
    OBVIOUS
  <2>. QED BY <2>1, <2>2
<1>2. Appended(e, attributes) = EntityWith(e, new)
  BY DEF Appended
<1>3. DOMAIN new = names
  OBVIOUS
<1>4. \A n : (\A i \in DOMAIN attributes : attributes[i].name # n) => n \notin names
  OBVIOUS
<1>. HIDE DEF names, new
<1>5. EntityOK(EntityWith(e, new))
  BY <1>1, <1>3, WrittenTyped
<1>6. /\ DOMAIN EntityWith(e, new).attributes = names \cup DOMAIN e.attributes
      /\ \A n \in DOMAIN e.attributes : n \notin names =>
           EntityWith(e, new).attributes[n] = e.attributes[n]
  BY <1>3 DEF EntityWith
<1>. QED BY <1>2, <1>4, <1>5, <1>6

-----------------------------------------------------------------------------
(***************************************************************************)
(* The invariant.  A thread at work has a device of the service and, of    *)
(* its parts before the current one, the attributes of the valid ones,     *)
(* except where it has met another at the postprocessor: the               *)
(* postprocessor holds the result of the part a thread has executed as     *)
(* long as no other thread has used it.  Who is at work has seen all the   *)
(* broker has of the configuration, and publishes for the first time only  *)
(* after an error or when there was no entity.                             *)
(***************************************************************************)

TTFields ==
  {"pc", "device", "parts", "at", "kept", "processed", "plain", "answers", "status",
   "told", "asked", "met", "seen"}

Working == {"modules", "take", "query", "first", "again", "publish"}
Asking == {"query", "first", "again", "publish"}

ThreadOK(r) ==
  /\ DOMAIN r = TTFields
  /\ r.at \in Nat
  /\ r.parts \in Seq(Modules)
  /\ r.kept \in Seq(Modules) /\ r.processed \in Seq(Processed) /\ r.plain \in Seq(PlainOnes)
  /\ r.pc \in Working \cup {"idle", "done"}
  /\ r.pc = "idle" => /\ r.at = 0 /\ r.parts = <<>> /\ r.met = {}
                      /\ r.processed = <<>> /\ r.plain = <<>>
  /\ r.met \subseteq Nat /\ \A i \in r.met : i < r.at
  /\ r.pc \notin {"publish", "done"} => r.answers = <<>>
  /\ r.pc \in Working => r.device \in TTDevices /\ r.at > 0
  /\ r.pc = "take" => r.at <= Len(r.parts) /\ r.parts[r.at].kind # NotThere
  /\ r.pc \in Asking => r.at > Len(r.parts)
  /\ r.pc = "first" => r.told = "error" \/ DOMAIN r.asked = {}

(* What DeviceIsToldDesired says of an answer. *)
ToldDesired(r) ==
  \A i \in DOMAIN r.answers :
    LET a == r.answers[i] IN
    a.kind = "GC" =>
      \/ <<a.fields[1], SubSeq(a.fields, 2, Len(a.fields))>> \in r.seen
      \/ /\ <<a.fields[1]>> \notin DOMAIN r.asked
         /\ a.fields[2] = Param(r.kept[i], 2)

ValidBefore(r) == {i \in Valid(r) : i < r.at}

OwnSoFar(t) ==
  tt[t].at > 0 => AttributesOfParts(tt[t], ValidBefore(tt[t]))

ResultStands(t) ==
  tt[t].pc = "take" /\ post.of = t => post.result = Transform(tt[t].parts[tt[t].at])

HasSeen(t) ==
  tt[t].pc \in Working => Configured(entities, tt[t].device) \subseteq tt[t].seen

ThreadInv(t) ==
  ThreadOK(tt[t]) /\ ToldDesired(tt[t]) /\ OwnSoFar(t) /\ ResultStands(t) /\ HasSeen(t)

EntitiesInv == DOMAIN entities = TTDevices /\ \A d \in TTDevices : EntityOK(entities[d])

TTInv ==
  /\ DOMAIN tt = TTThreads
  /\ post.result \in Results \cup {Invalid}
  /\ EntitiesInv
  /\ \A t \in TTThreads : ThreadInv(t)

(* The invariant says what the properties say. *)
LEMMA TTInvTells == TTInv => DeviceIsToldDesired /\ OwnUnlessMet
<1>. SUFFICES ASSUME TTInv PROVE DeviceIsToldDesired /\ OwnUnlessMet
  OBVIOUS
<1>1. DeviceIsToldDesired
  BY DEF TTInv, ThreadInv, ToldDesired, DeviceIsToldDesired
<1>2. OwnUnlessMet
  <2>. SUFFICES ASSUME NEW t \in TTThreads, tt[t].at > Len(tt[t].parts)
                PROVE  AttributesOfParts(tt[t], Valid(tt[t]))
    BY DEF OwnUnlessMet
  <2>1. ThreadOK(tt[t]) /\ (tt[t].at > 0 => AttributesOfParts(tt[t], ValidBefore(tt[t])))
    BY DEF TTInv, ThreadInv, OwnSoFar
  <2>2. /\ tt[t].at \in Nat /\ tt[t].at > 0
        /\ DOMAIN tt[t].parts = 1..Len(tt[t].parts) /\ Len(tt[t].parts) \in Nat
    BY <2>1 DEF ThreadOK
  <2>3. ValidBefore(tt[t]) = Valid(tt[t])
    BY <2>2 DEF ValidBefore, Valid
  <2>. QED BY <2>1, <2>2, <2>3
<1>. QED BY <1>1, <1>2

LEMMA InitTTInv == TTInit("idle") => TTInv
<1>. SUFFICES ASSUME TTInit("idle") PROVE TTInv
  OBVIOUS
<1>1. DOMAIN tt = TTThreads /\ post.result = Invalid
  BY DEF TTInit
<1>2. EntitiesInv
  BY DEF TTInit, EntitiesInv, EntityOK, NoAttributes
<1>3. ASSUME NEW t \in TTThreads PROVE ThreadInv(t)
  <2>1. /\ DOMAIN tt[t] = TTFields
        /\ tt[t].pc = "idle" /\ tt[t].at = 0 /\ tt[t].parts = <<>> /\ tt[t].kept = <<>>
        /\ tt[t].processed = <<>> /\ tt[t].plain = <<>> /\ tt[t].answers = <<>>
        /\ tt[t].met = {}
    BY DEF TTInit, NoRequestTT, TTFields
  <2>2. ThreadOK(tt[t])
    BY <2>1 DEF ThreadOK, Working, Asking
  <2>3. ToldDesired(tt[t])
    BY <2>1 DEF ToldDesired
  <2>. QED BY <2>1, <2>2, <2>3 DEF ThreadInv, OwnSoFar, ResultStands, HasSeen, Working
<1>. QED BY <1>1, <1>2, <1>3 DEF TTInv

(* More parts change nothing if the new ones were met. *)
LEMMA AttributesSkipped ==
  ASSUME NEW r, NEW q, NEW some, NEW all, AttributesOfParts(r, some),
         q.parts = r.parts, q.processed = r.processed, q.plain = r.plain,
         some \subseteq all, r.met \subseteq q.met, all \ q.met \subseteq some
  PROVE  AttributesOfParts(q, all)
<1>. DEFINE n == Len(r.processed)
<1>1. PICK place \in [1..n -> some \cup r.met] : AttributesAt(r, some, place)
  BY DEF AttributesOfParts
<1>2. place \in [1..n -> all \cup q.met]
  BY <1>1
<1>3. AttributesAt(q, all, place)
  BY <1>1 DEF AttributesAt
<1>. QED BY <1>2, <1>3 DEF AttributesOfParts

(* The attributes of a request do not depend on anything else. *)
LEMMA SameAttributes ==
  ASSUME NEW r, NEW q, NEW some, AttributesOfParts(r, some),
         q.parts = r.parts, q.processed = r.processed, q.plain = r.plain, q.met = r.met
  PROVE  AttributesOfParts(q, some)
BY DEF AttributesOfParts, AttributesAt

(* A thread that does nothing, but may see more of the configuration. *)
LEMMA ThreadKept ==
  ASSUME NEW t \in TTThreads, ThreadInv(t), DOMAIN tt'[t] = TTFields,
         \A x \in TTFields \ {"seen"} : tt'[t][x] = tt[t][x],
         tt[t].seen \subseteq tt'[t].seen,
         post' = post \/ post'.of # t,
         tt[t].pc \in Working =>
           Configured(entities', tt[t].device) \subseteq tt'[t].seen
  PROVE  ThreadInv(t)'
<1>1. /\ tt'[t].pc = tt[t].pc /\ tt'[t].device = tt[t].device /\ tt'[t].parts = tt[t].parts
      /\ tt'[t].at = tt[t].at /\ tt'[t].kept = tt[t].kept /\ tt'[t].plain = tt[t].plain
      /\ tt'[t].processed = tt[t].processed /\ tt'[t].answers = tt[t].answers
      /\ tt'[t].told = tt[t].told /\ tt'[t].asked = tt[t].asked /\ tt'[t].met = tt[t].met
  BY DEF TTFields
<1>2. ThreadOK(tt'[t])
  BY <1>1 DEF ThreadInv, ThreadOK
<1>3. ToldDesired(tt'[t])
  BY <1>1 DEF ThreadInv, ToldDesired
<1>4. OwnSoFar(t)'
  <2>. SUFFICES ASSUME tt'[t].at > 0
                PROVE  AttributesOfParts(tt'[t], ValidBefore(tt'[t]))
    BY DEF OwnSoFar
  <2>1. AttributesOfParts(tt[t], ValidBefore(tt[t]))
    BY <1>1 DEF ThreadInv, OwnSoFar
  <2>2. ValidBefore(tt'[t]) = ValidBefore(tt[t])
    BY <1>1 DEF ValidBefore, Valid
  <2>. QED BY <1>1, <2>1, <2>2, SameAttributes
<1>5. ResultStands(t)'
  BY <1>1 DEF ThreadInv, ResultStands
<1>6. HasSeen(t)'
  BY <1>1 DEF HasSeen
<1>. QED BY <1>2, <1>3, <1>4, <1>5, <1>6 DEF ThreadInv

LEMMA OthersKept ==
  ASSUME TTInv, NEW t \in TTThreads, \A u \in TTThreads \ {t} : tt'[u] = tt[u],
         entities' = entities, post' = post \/ post'.of = t
  PROVE  \A u \in TTThreads \ {t} : ThreadInv(u)'
<1>. SUFFICES ASSUME NEW u \in TTThreads, u # t PROVE ThreadInv(u)'
  OBVIOUS
<1>1. ThreadInv(u) /\ tt'[u] = tt[u]
  BY DEF TTInv
<1>2. DOMAIN tt'[u] = TTFields
  BY <1>1 DEF ThreadInv, ThreadOK
<1>3. tt[u].pc \in Working => Configured(entities', tt[u].device) \subseteq tt'[u].seen
  BY <1>1 DEF ThreadInv, HasSeen
<1>. QED BY <1>1, <1>2, <1>3, ThreadKept

-----------------------------------------------------------------------------
(* The steps: a request comes in. *)

LEMMA TTRequestKeeps ==
  ASSUME TTInv, NEW t \in TTThreads, TTRequest(t) PROVE TTInv'
<1>. DEFINE r == tt[t]
            q == tt'[t]
<1>1. /\ ThreadInv(t) /\ ThreadOK(r) /\ r.pc = "idle" /\ DOMAIN tt = TTThreads
      /\ UNCHANGED <<library, post, entities, writes>>
  BY DEF TTInv, ThreadInv, TTRequest
<1>2. PICK msg \in TTMessages :
        \/ \E status : Ends(t, status)
        \/ msg.device \in TTDevices /\ Starts(t, msg)
  BY Zenon DEF TTRequest
<1>3. DOMAIN tt' = TTThreads /\ \A u \in TTThreads \ {t} : tt'[u] = tt[u]
  BY <1>1, <1>2 DEF Ends, Starts
<1>4. \A u \in TTThreads \ {t} : ThreadInv(u)'
  BY <1>1, <1>3, OthersKept
<1>5. ThreadInv(t)'
  <2>1. CASE \E status : Ends(t, status)
    <3>1. /\ DOMAIN q = TTFields /\ q.pc = "done" /\ q.at = r.at /\ q.parts = r.parts
          /\ q.kept = r.kept /\ q.processed = r.processed /\ q.plain = r.plain
          /\ q.answers = r.answers /\ q.met = r.met
      BY <1>1, <2>1 DEF Ends, ThreadOK, TTFields
    <3>2. ThreadOK(q)
      BY <1>1, <3>1 DEF ThreadOK, Working, Asking
    <3>. QED BY <1>1, <3>1, <3>2
             DEF ThreadInv, ThreadOK, ToldDesired, OwnSoFar, ResultStands, HasSeen, Working
  <2>2. CASE msg.device \in TTDevices /\ Starts(t, msg)
    <3>1. /\ DOMAIN q = TTFields /\ q.pc = "modules" /\ q.at = 1 /\ q.parts = msg.parts
          /\ q.device = msg.device /\ q.seen = Configured(entities, msg.device)
          /\ q.kept = r.kept /\ q.processed = <<>> /\ q.plain = <<>>
          /\ q.answers = <<>> /\ q.met = {}
      BY <1>1, <2>2 DEF ThreadOK, TTFields, Starts
    <3>2. ThreadOK(q)
      BY <1>1, <2>2, <3>1, PartsAreModules DEF ThreadOK, Working, Asking
    <3>3. AttributesOfParts(q, ValidBefore(q))
      <4>1. \A i \in Valid(q) : i \in Nat \ {0}
        BY <3>1, PartsAreModules DEF Valid
      <4>2. ValidBefore(q) = {}
        BY <3>1, <4>1 DEF ValidBefore
      <4>3. [x \in 1..0 |-> x] \in [1..Len(q.processed) -> {} \cup q.met]
        BY <3>1
      <4>4. Len(q.plain) = Len(q.processed) /\ AttributesAt(q, {}, [x \in 1..0 |-> x])
        BY <3>1 DEF AttributesAt
      <4>. QED BY <4>2, <4>3, <4>4 DEF AttributesOfParts
    <3>4. ToldDesired(q)
      BY <3>1 DEF ToldDesired
    <3>. QED BY <1>1, <3>1, <3>2, <3>3, <3>4
             DEF ThreadInv, OwnSoFar, ResultStands, HasSeen
  <2>. QED BY <1>2, <2>1, <2>2
<1>. QED BY <1>1, <1>3, <1>4, <1>5 DEF TTInv, EntitiesInv

(* A module is executed. *)
LEMMA ExecuteKeeps ==
  ASSUME TTInv, NEW t \in TTThreads, Execute(t) PROVE TTInv'
<1>. DEFINE r == tt[t]
            q == tt'[t]
<1>1. /\ ThreadInv(t) /\ ThreadOK(r) /\ r.pc = "modules" /\ DOMAIN tt = TTThreads
      /\ r.at <= Len(r.parts) /\ UNCHANGED <<library, entities, writes>>
  BY DEF TTInv, ThreadInv, Execute
<1>2. r.parts[r.at] \in Modules
  BY <1>1 DEF ThreadOK, Working
<1>3. CASE Part(t).kind = NotThere
  <2>1. tt' = [tt EXCEPT ![t].at = @ + 1] /\ post' = post
    BY <1>3 DEF Execute
  <2>2. DOMAIN tt' = TTThreads /\ \A u \in TTThreads \ {t} : tt'[u] = tt[u]
    BY <1>1, <2>1
  <2>3. \A u \in TTThreads \ {t} : ThreadInv(u)'
    BY <1>1, <2>1, <2>2, OthersKept
  <2>4. /\ DOMAIN q = TTFields /\ q.pc = "modules" /\ q.at = r.at + 1 /\ q.parts = r.parts
        /\ q.device = r.device /\ q.seen = r.seen /\ q.asked = r.asked
        /\ q.kept = r.kept /\ q.processed = r.processed /\ q.plain = r.plain
        /\ q.answers = r.answers /\ q.met = r.met
    BY <1>1, <2>1 DEF ThreadOK, TTFields
  <2>5. ThreadOK(q)
    BY <1>1, <2>4 DEF ThreadOK, Working, Asking
  <2>6. ToldDesired(q)
    BY <1>1, <2>4 DEF ThreadInv, ToldDesired
  <2>7. OwnSoFar(t)'
    <3>. SUFFICES AttributesOfParts(q, ValidBefore(q))
      BY DEF OwnSoFar
    <3>1. AttributesOfParts(r, ValidBefore(r))
      BY <1>1 DEF ThreadInv, OwnSoFar, ThreadOK, Working
    <3>2. r.at \notin Valid(r) /\ Valid(q) = Valid(r) /\ r.at \in Nat /\ Valid(r) \subseteq Nat
      BY <1>1, <1>3, <2>4 DEF Valid, Part, ThreadOK
    <3>3. ValidBefore(q) = ValidBefore(r)
      BY <2>4, <3>2 DEF ValidBefore
    <3>. QED BY <2>4, <3>1, <3>3, SameAttributes
  <2>8. ResultStands(t)' /\ HasSeen(t)'
    BY <1>1, <2>4 DEF ThreadInv, ResultStands, HasSeen, Working
  <2>9. ThreadInv(t)'
    BY <2>5, <2>6, <2>7, <2>8 DEF ThreadInv
  <2>. QED BY <1>1, <2>1, <2>2, <2>3, <2>9 DEF TTInv, EntitiesInv
<1>4. CASE Part(t).kind # NotThere
  <2>1. /\ tt' = [tt EXCEPT ![t].pc = "take"]
        /\ post' = [result |-> Transform(Part(t)), of |-> t]
    BY <1>4 DEF Execute
  <2>2. DOMAIN tt' = TTThreads /\ \A u \in TTThreads \ {t} : tt'[u] = tt[u]
    BY <1>1, <2>1
  <2>3. \A u \in TTThreads \ {t} : ThreadInv(u)'
    BY <1>1, <2>1, <2>2, OthersKept
  <2>4. /\ DOMAIN q = TTFields /\ q.pc = "take" /\ q.at = r.at /\ q.parts = r.parts
        /\ q.device = r.device /\ q.seen = r.seen /\ q.asked = r.asked
        /\ q.kept = r.kept /\ q.processed = r.processed /\ q.plain = r.plain
        /\ q.answers = r.answers /\ q.met = r.met
    BY <1>1, <2>1 DEF ThreadOK, TTFields
  <2>5. ThreadOK(q)
    BY <1>1, <1>4, <2>4 DEF ThreadOK, Working, Asking, Part
  <2>6. ToldDesired(q)
    BY <1>1, <2>4 DEF ThreadInv, ToldDesired
  <2>7. OwnSoFar(t)'
    <3>. SUFFICES AttributesOfParts(q, ValidBefore(q))
      BY DEF OwnSoFar
    <3>1. AttributesOfParts(r, ValidBefore(r))
      BY <1>1 DEF ThreadInv, OwnSoFar, ThreadOK, Working
    <3>2. ValidBefore(q) = ValidBefore(r)
      BY <2>4 DEF ValidBefore, Valid
    <3>. QED BY <2>4, <3>1, <3>2, SameAttributes
  <2>8. ResultStands(t)' /\ HasSeen(t)'
    BY <1>1, <2>1, <2>4 DEF ThreadInv, ResultStands, HasSeen, Working, Part
  <2>9. ThreadInv(t)'
    BY <2>5, <2>6, <2>7, <2>8 DEF ThreadInv
  <2>10. post'.result \in Results \cup {Invalid}
    BY <1>2, <2>1 DEF Results, Part
  <2>. QED BY <1>1, <2>2, <2>3, <2>9, <2>10 DEF TTInv, EntitiesInv
<1>. QED BY <1>3, <1>4

(* The result is taken. *)

LEMMA AttributesAppended ==
  ASSUME NEW r, NEW q, NEW some \in SUBSET Nat, NEW all, NEW k \in Nat,
         \A i \in some \cup r.met : i < k, some \subseteq all, all \subseteq some \cup {k},
         AttributesOfParts(r, some), r.met \subseteq Nat,
         r.met \subseteq q.met, k \in all \cup q.met,
         r.processed \in Seq(Processed), r.plain \in Seq(PlainOnes),
         NEW a, NEW b,
         k \notin q.met => /\ a = Transform(r.parts[k])[1].processed
                           /\ b = Transform(r.parts[k])[1].plain,
         q.parts = r.parts, q.processed = Append(r.processed, a), q.plain = Append(r.plain, b)
  PROVE  AttributesOfParts(q, all)
<1>. DEFINE n == Len(r.processed)
<1>1. PICK place \in [1..n -> some \cup r.met] :
        /\ \A i, j \in 1..n : i < j => place[i] < place[j]
        /\ some \ r.met \subseteq {place[i] : i \in 1..n}
        /\ \A i \in 1..n : place[i] \notin r.met =>
             /\ r.processed[i] = Transform(r.parts[place[i]])[1].processed
             /\ r.plain[i] = Transform(r.parts[place[i]])[1].plain
  BY DEF AttributesOfParts, AttributesAt
<1>2. n \in Nat /\ Len(r.plain) = n
  BY DEF AttributesOfParts
<1>3. /\ Len(q.processed) = n + 1 /\ Len(q.plain) = n + 1
      /\ q.processed[n + 1] = a /\ q.plain[n + 1] = b
      /\ \A i \in 1..n : q.processed[i] = r.processed[i] /\ q.plain[i] = r.plain[i]
  BY <1>2
<1>. HIDE DEF n
<1>. DEFINE more == [i \in 1..(n + 1) |-> IF i = n + 1 THEN k ELSE place[i]]
<1>4. /\ more \in [1..(n + 1) -> all \cup q.met] /\ more[n + 1] = k
      /\ \A i \in 1..n : more[i] = place[i] /\ place[i] \in some \cup r.met
      /\ \A i \in 1..(n + 1) : i \in 1..n \/ i = n + 1
  <2>1. \A i \in 1..(n + 1) : i \in 1..n \/ i = n + 1
    BY <1>2
  <2>2. n + 1 \in 1..(n + 1) /\ \A i \in 1..n : i \in 1..(n + 1) /\ i # n + 1
    BY <1>2
  <2>3. \A i \in 1..n : more[i] = place[i] /\ place[i] \in some \cup r.met
    BY <1>1, <2>2
  <2>4. more[n + 1] = k
    BY <2>2
  <2>5. \A i \in 1..(n + 1) : more[i] \in all \cup q.met
    <3>. HIDE DEF more
    <3>. QED BY <2>1, <2>3, <2>4
  <2>6. more \in [1..(n + 1) -> all \cup q.met]
    BY <2>5
  <2>. QED BY <2>1, <2>3, <2>4, <2>6
<1>. HIDE DEF more
<1>5. \A i, j \in 1..(n + 1) : i < j => more[i] < more[j]
  <2>. TAKE i, j \in 1..(n + 1)
  <2>. HAVE i < j
  <2>1. i \in 1..n
    BY <1>2
  <2>2. CASE j \in 1..n
    BY <1>1, <1>4, <2>1, <2>2
  <2>3. CASE j = n + 1
    BY <1>4, <2>1, <2>3
  <2>. QED BY <1>4, <2>2, <2>3
<1>6. all \ q.met \subseteq {more[i] : i \in 1..(n + 1)}
  <2>1. \A x \in some \ r.met : \E i \in 1..(n + 1) : x = more[i]
    <3>. TAKE x \in some \ r.met
    <3>1. PICK i \in 1..n : x = place[i]
      BY <1>1
    <3>2. i \in 1..(n + 1) /\ x = more[i]
      BY <1>2, <1>4, <3>1
    <3>. QED BY <3>2
  <2>2. n + 1 \in 1..(n + 1)
    BY <1>2
  <2>3. \A x \in all \ q.met : x \in some \ r.met \/ x = k
    OBVIOUS
  <2>. QED BY <1>4, <2>1, <2>2, <2>3
<1>7. \A i \in 1..(n + 1) : more[i] \notin q.met =>
        /\ q.processed[i] = Transform(q.parts[more[i]])[1].processed
        /\ q.plain[i] = Transform(q.parts[more[i]])[1].plain
  <2>. TAKE i \in 1..(n + 1)
  <2>. HAVE more[i] \notin q.met
  <2>1. CASE i \in 1..n
    <3>1. more[i] = place[i] /\ place[i] \notin r.met
      BY <1>4, <2>1
    <3>. QED BY <1>1, <1>3, <2>1, <3>1
  <2>2. CASE i = n + 1
    BY <1>3, <1>4, <2>2
  <2>. QED BY <1>4, <2>1, <2>2
<1>8. AttributesAt(q, all, more)
  <2>1. DOMAIN more = 1..(n + 1)
    BY <1>4
  <2>. QED BY <1>5, <1>6, <1>7, <2>1 DEF AttributesAt
<1>. QED BY <1>3, <1>4, <1>8 DEF AttributesOfParts

(* What there is at the postprocessor are results. *)
LEMMA AtPostTyped ==
  ASSUME TTInv, NEW x \in AtPost
  PROVE  /\ x \in Results
         /\ \/ x = post.result
            \/ \E u \in TTThreads : tt[u].pc = "take" /\ x = Transform(Part(u))
<1>1. x # Invalid /\ (\/ x = post.result
                      \/ \E u \in TTThreads : tt[u].pc = "take" /\ x = Transform(Part(u)))
  BY DEF AtPost
<1>2. CASE x = post.result
  BY <1>1, <1>2 DEF TTInv
<1>3. ASSUME NEW u \in TTThreads, tt[u].pc = "take", x = Transform(Part(u))
      PROVE  x \in Results
  <2>1. ThreadOK(tt[u])
    BY DEF TTInv, ThreadInv
  <2>2. Part(u) \in Modules
    BY <1>3, <2>1 DEF ThreadOK, Part, Working
  <2>. QED BY <1>1, <1>3, <2>2 DEF Results
<1>. QED BY <1>1, <1>2, <1>3

LEMMA TakeKeeps ==
  ASSUME TTInv, NEW t \in TTThreads, Take(t) PROVE TTInv'
<1>. DEFINE r == tt[t]
            q == tt'[t]
            part == Part(t)
            next == [r EXCEPT !.pc = "modules", !.at = @ + 1]
            met == [next EXCEPT !.met = @ \cup {r.at}]
            result == post.result[1]
            Going(x) ==
              /\ DOMAIN x = TTFields /\ x.pc = "modules" /\ x.at = r.at + 1
              /\ x.parts = r.parts /\ x.device = r.device /\ x.seen = r.seen
              /\ x.asked = r.asked /\ x.answers = r.answers /\ x.kept = r.kept
              /\ x.processed = r.processed /\ x.plain = r.plain
<1>1. /\ ThreadInv(t) /\ ThreadOK(r) /\ r.pc = "take" /\ DOMAIN tt = TTThreads
      /\ post.result \in Results \cup {Invalid}
      /\ UNCHANGED <<library, post, entities, writes>>
  BY DEF TTInv, ThreadInv, Take
<1>2. /\ part \in Modules /\ part = r.parts[r.at] /\ part.kind # NotThere
      /\ r.at \in DOMAIN r.parts /\ r.at \in Nat /\ Valid(r) \subseteq Nat
  BY <1>1 DEF ThreadOK, Working, Part, Valid
<1>3. \/ /\ part.kind = "K1"
         /\ tt' = [tt EXCEPT ![t] = [next EXCEPT !.kept = Append(@, part)]]
      \/ /\ post.of = t /\ part.kind # "K1"
         /\ \/ post.result = Invalid /\ tt' = [tt EXCEPT ![t] = next]
            \/ /\ post.result # Invalid
               /\ tt' = [tt EXCEPT ![t] = WithTexts(next, part, result.processed, result.plain)]
      \/ tt' = [tt EXCEPT ![t] = met]
      \/ Ends(t, 500)
      \/ \E x, y \in AtPost :
           tt' = [tt EXCEPT ![t] = WithTexts(met, part, x[1].processed, y[1].plain)]
  BY DEF Take, Decoded
<1>4. DOMAIN tt' = TTThreads /\ \A u \in TTThreads \ {t} : tt'[u] = tt[u]
  BY <1>1, <1>3 DEF Ends
<1>5. \A u \in TTThreads \ {t} : ThreadInv(u)'
  BY <1>1, <1>4, OthersKept
<1>6. AttributesOfParts(r, ValidBefore(r)) /\ (post.of = t => post.result = Transform(part))
  BY <1>1, <1>2 DEF ThreadInv, ResultStands, OwnSoFar, ThreadOK, Working
<1>7. /\ r.kept \in Seq(Modules) /\ Append(r.kept, part) \in Seq(Modules)
      /\ r.processed \in Seq(Processed) /\ r.plain \in Seq(PlainOnes)
      /\ r.met \subseteq Nat /\ \A i \in ValidBefore(r) \cup r.met : i < r.at
      /\ ValidBefore(r) \in SUBSET Nat
  BY <1>1, <1>2 DEF ThreadOK, ValidBefore
<1>8. ASSUME q.parts = r.parts, q.at = r.at + 1
      PROVE  /\ ValidBefore(r) \subseteq ValidBefore(q)
             /\ ValidBefore(q) \subseteq ValidBefore(r) \cup {r.at}
             /\ r.at \in ValidBefore(q) <=> Transform(part) # Invalid
  <2>1. Valid(q) = Valid(r)
    BY <1>8 DEF Valid
  <2>2. r.at \in Valid(r) <=> Transform(part) # Invalid
    BY <1>2 DEF Valid
  <2>. HIDE DEF part, q, r
  <2>. QED BY <1>2, <1>8, <2>1, <2>2 DEF ValidBefore
<1>9. Going(next) /\ next.met = r.met /\ Going(met) /\ met.met = r.met \cup {r.at}
  <2>1. DOMAIN r = TTFields
    BY <1>1 DEF ThreadOK
  <2>2. Going(next) /\ next.met = r.met
    BY <2>1 DEF TTFields
  <2>. HIDE DEF next, r
  <2>. QED BY <2>2 DEF TTFields
<1>. HIDE DEF part, result, next, met
(* What is left to say of the thread when it goes on with the next part. *)
<1>10. ASSUME DOMAIN q = TTFields, q.pc = "modules", q.at = r.at + 1, q.parts = r.parts,
             q.device = r.device, q.seen = r.seen, q.asked = r.asked, q.answers = r.answers,
             q.met \in {r.met, r.met \cup {r.at}}, q.kept \in Seq(Modules),
             q.processed \in Seq(Processed), q.plain \in Seq(PlainOnes),
             AttributesOfParts(q, ValidBefore(q))
      PROVE  TTInv'
  <2>1. ThreadOK(q)
    <3>1. q.met \subseteq Nat /\ \A i \in q.met : i < q.at
      <4>. SUFFICES ASSUME NEW i \in q.met PROVE i \in Nat /\ i < q.at
        OBVIOUS
      <4>. DEFINE k == r.at
      <4>1. i \in r.met \/ i = k
        BY <1>10
      <4>2. k \in Nat /\ q.at = k + 1 /\ (i \in r.met => i \in Nat /\ i < k)
        BY <1>2, <1>7, <1>10
      <4>. HIDE DEF q, r, k
      <4>. QED BY <4>1, <4>2
    <3>. QED BY <1>1, <1>2, <1>10, <3>1 DEF ThreadOK, Working, Asking
  <2>2. ToldDesired(q) /\ ResultStands(t)' /\ HasSeen(t)' /\ OwnSoFar(t)'
    BY <1>1, <1>10 DEF ThreadInv, ThreadOK, ToldDesired, ResultStands, HasSeen, Working, OwnSoFar
  <2>. QED BY <1>1, <1>4, <1>5, <2>1, <2>2 DEF TTInv, EntitiesInv, ThreadInv
(* A part without a result, or whose result is not there. *)
<1>11. ASSUME \/ tt' = [tt EXCEPT ![t] = [next EXCEPT !.kept = Append(@, part)]] /\ part.kind = "K1"
              \/ tt' = [tt EXCEPT ![t] = next] /\ post.of = t /\ post.result = Invalid
              \/ tt' = [tt EXCEPT ![t] = met]
       PROVE  TTInv'
  <2>1. /\ DOMAIN q = TTFields /\ q.pc = "modules" /\ q.at = r.at + 1 /\ q.parts = r.parts
        /\ q.device = r.device /\ q.seen = r.seen /\ q.asked = r.asked /\ q.answers = r.answers
        /\ q.processed = r.processed /\ q.plain = r.plain
    BY <1>1, <1>11, <1>9 DEF TTFields
  <2>2. q.kept \in {r.kept, Append(r.kept, part)}
    BY <1>1, <1>11, <1>9 DEF TTFields
  <2>3. \/ q.met = r.met /\ Transform(part) = Invalid
        \/ q.met = r.met \cup {r.at}
    <3>1. part.kind = "K1" => Transform(part) = Invalid
      BY DEF Transform
    <3>. QED BY <1>1, <1>6, <1>11, <1>9, <3>1 DEF TTFields
  <2>4. AttributesOfParts(q, ValidBefore(q))
    <3>1. /\ ValidBefore(r) \subseteq ValidBefore(q) /\ r.met \subseteq q.met
          /\ ValidBefore(q) \ q.met \subseteq ValidBefore(r)
      BY <1>8, <2>1, <2>3
    <3>. QED BY <1>6, <2>1, <3>1, AttributesSkipped
  <2>. QED BY <1>7, <1>10, <2>1, <2>2, <2>3, <2>4
(* A part with texts, its own or others. *)
<1>12. ASSUME NEW x \in Results, NEW y \in Results,
              \/ /\ tt' = [tt EXCEPT ![t] = WithTexts(next, part, x[1].processed, y[1].plain)]
                 /\ x = Transform(part) /\ y = Transform(part)
              \/ tt' = [tt EXCEPT ![t] = WithTexts(met, part, x[1].processed, y[1].plain)]
       PROVE  TTInv'
  <2>. DEFINE u == x[1].processed
              v == y[1].plain
  <2>0. PICK z : /\ q = WithTexts(z, part, u, v) /\ Going(z)
                 /\ \/ z.met = r.met /\ x = Transform(part) /\ y = Transform(part)
                    \/ z.met = r.met \cup {r.at}
    <3>1. CASE /\ tt' = [tt EXCEPT ![t] = WithTexts(next, part, u, v)]
               /\ x = Transform(part) /\ y = Transform(part)
      <4>1. q = WithTexts(next, part, u, v)
        BY <1>1, <3>1
      <4>. QED BY <1>9, <3>1, <4>1
    <3>2. CASE tt' = [tt EXCEPT ![t] = WithTexts(met, part, u, v)]
      <4>1. q = WithTexts(met, part, u, v)
        BY <1>1, <3>2
      <4>. QED BY <1>9, <4>1
    <3>. QED BY <1>12, <3>1, <3>2
  <2>1. /\ DOMAIN q = TTFields /\ q.pc = "modules" /\ q.at = r.at + 1 /\ q.parts = r.parts
        /\ q.device = r.device /\ q.seen = r.seen /\ q.asked = r.asked /\ q.answers = r.answers
        /\ q.processed = Append(r.processed, u) /\ q.plain = Append(r.plain, v)
        /\ q.kept = Append(r.kept, part) /\ q.met = z.met
    <3>. HIDE DEF q, u, v
    <3>. QED BY <2>0 DEF WithTexts, TTFields
  <2>2. \/ q.met = r.met /\ x = Transform(part) /\ y = Transform(part)
        \/ q.met = r.met \cup {r.at}
    BY <2>0, <2>1
  <2>3. x[1].processed \in Processed /\ y[1].plain \in PlainOnes
    BY ResultsProper
  <2>4. q.processed \in Seq(Processed) /\ q.plain \in Seq(PlainOnes)
    BY <1>7, <2>1, <2>3
  <2>5. AttributesOfParts(q, ValidBefore(q))
    <3>. DEFINE k == r.at
    <3>1. /\ ValidBefore(r) \subseteq ValidBefore(q)
          /\ ValidBefore(q) \subseteq ValidBefore(r) \cup {k}
          /\ r.met \subseteq q.met
      BY <1>8, <2>1, <2>2
    <3>2. k \in ValidBefore(q) \cup q.met
      <4>1. x # Invalid
        BY DEF Results
      <4>. QED BY <1>8, <2>1, <2>2, <4>1
    <3>3. k \notin q.met => /\ x[1].processed = Transform(r.parts[k])[1].processed
                            /\ y[1].plain = Transform(r.parts[k])[1].plain
      BY <1>2, <2>2
    <3>4. k \in Nat
      BY <1>2
    <3>. HIDE DEF k
    <3>5. \A i \in ValidBefore(r) \cup r.met : i < k
      BY <1>7 DEF k
    <3>. QED BY <1>6, <1>7, <2>1, <3>1, <3>2, <3>3, <3>4, <3>5, AttributesAppended
  <2>. QED BY <1>7, <1>10, <2>1, <2>2, <2>4, <2>5
(* The decoder throws. *)
<1>13. ASSUME Ends(t, 500) PROVE TTInv'
  <2>1. /\ DOMAIN q = TTFields /\ q.pc = "done" /\ q.at = r.at /\ q.parts = r.parts
        /\ q.device = r.device /\ q.seen = r.seen /\ q.asked = r.asked
        /\ q.kept = r.kept /\ q.processed = r.processed /\ q.plain = r.plain
        /\ q.answers = r.answers /\ q.met = r.met
    BY <1>1, <1>13 DEF Ends, ThreadOK, TTFields
  <2>2. ThreadOK(q)
    BY <1>1, <2>1 DEF ThreadOK, Working, Asking
  <2>3. AttributesOfParts(q, ValidBefore(q))
    <3>1. ValidBefore(q) = ValidBefore(r)
      BY <2>1 DEF ValidBefore, Valid
    <3>. QED BY <1>6, <2>1, <3>1, SameAttributes
  <2>4. ToldDesired(q) /\ ResultStands(t)' /\ HasSeen(t)' /\ OwnSoFar(t)'
    BY <1>1, <2>1, <2>3
       DEF ThreadInv, ThreadOK, ToldDesired, ResultStands, HasSeen, Working, OwnSoFar
  <2>. QED BY <1>1, <1>4, <1>5, <2>2, <2>4 DEF TTInv, EntitiesInv, ThreadInv
<1>14. ASSUME post.of = t, post.result # Invalid,
              tt' = [tt EXCEPT ![t] = WithTexts(next, part, result.processed, result.plain)]
       PROVE  TTInv'
  <2>1. post.result \in Results /\ post.result = Transform(part)
    BY <1>1, <1>6, <1>14
  <2>. QED BY <1>12, <1>14, <2>1 DEF result
<1>15. ASSUME NEW x \in AtPost, NEW y \in AtPost,
              tt' = [tt EXCEPT ![t] = WithTexts(met, part, x[1].processed, y[1].plain)]
       PROVE  TTInv'
  BY <1>12, <1>15, AtPostTyped
<1>. QED BY <1>3, <1>11, <1>13, <1>14, <1>15

(* No module is left. *)
LEMMA ModulesEndKeeps ==
  ASSUME TTInv, NEW t \in TTThreads, ModulesEnd(t) PROVE TTInv'
<1>. DEFINE r == tt[t]
            q == tt'[t]
<1>1. /\ ThreadInv(t) /\ ThreadOK(r) /\ r.pc = "modules" /\ DOMAIN tt = TTThreads
      /\ r.at > Len(r.parts) /\ UNCHANGED <<library, post, entities, writes>>
  BY DEF TTInv, ThreadInv, ModulesEnd
<1>2. Ends(t, 200) \/ tt' = [tt EXCEPT ![t].pc = "query"]
  BY DEF ModulesEnd
<1>3. DOMAIN tt' = TTThreads /\ \A u \in TTThreads \ {t} : tt'[u] = tt[u]
  BY <1>1, <1>2 DEF Ends
<1>4. \A u \in TTThreads \ {t} : ThreadInv(u)'
  BY <1>1, <1>3, OthersKept
<1>5. /\ DOMAIN q = TTFields /\ q.pc \in {"query", "done"} /\ q.at = r.at
      /\ q.parts = r.parts /\ q.device = r.device /\ q.seen = r.seen /\ q.asked = r.asked
      /\ q.kept = r.kept /\ q.processed = r.processed /\ q.plain = r.plain
      /\ q.answers = r.answers /\ q.met = r.met
  BY <1>1, <1>2 DEF Ends, ThreadOK, TTFields
<1>6. ThreadOK(q)
  BY <1>1, <1>5 DEF ThreadOK, Working, Asking
<1>7. ToldDesired(q) /\ ResultStands(t)' /\ HasSeen(t)'
  BY <1>1, <1>5 DEF ThreadInv, ThreadOK, ToldDesired, ResultStands, HasSeen, Working
<1>8. OwnSoFar(t)'
  <2>. SUFFICES AttributesOfParts(q, ValidBefore(q))
    BY DEF OwnSoFar
  <2>1. AttributesOfParts(r, ValidBefore(r))
    BY <1>1 DEF ThreadInv, OwnSoFar, ThreadOK, Working
  <2>2. ValidBefore(q) = ValidBefore(r)
    BY <1>5 DEF ValidBefore, Valid
  <2>. QED BY <1>5, <2>1, <2>2, SameAttributes
<1>9. ThreadInv(t)'
  BY <1>6, <1>7, <1>8 DEF ThreadInv
<1>. QED BY <1>1, <1>3, <1>4, <1>9 DEF TTInv, EntitiesInv

(* The broker is asked, and the answer for the device made of what it has. *)

LEMMA AnswerKind ==
  ASSUME NEW e, NEW m PROVE ProcessContextElement(e, m).kind = m.kind
BY DEF ProcessContextElement, ParseResponse, ParseDefault, Answer

LEMMA AfterName ==
  ASSUME NEW texts, NEW value \in Seq(texts), NEW n, NEW f, f = <<n>> \o value
  PROVE  f[1] = n /\ SubSeq(f, 2, Len(f)) = value
<1>. DEFINE T == texts \cup {n}
            rest == SubSeq(f, 2, Len(f))
<1>1. <<n>> \in Seq(T) /\ value \in Seq(T)
  OBVIOUS
<1>. HIDE DEF T
<1>2. /\ f \in Seq(T) /\ Len(f) = 1 + Len(value) /\ f[1] = n
      /\ \A i \in 1..Len(value) : f[i + 1] = value[i]
  BY <1>1
<1>3. /\ rest \in Seq(T) /\ Len(rest) = Len(value)
      /\ \A i \in 1..Len(value) : rest[i] = f[i + 1]
  BY <1>1, <1>2
<1>4. rest = value
  BY <1>1, <1>2, <1>3
<1>. QED BY <1>2, <1>4

LEMMA AnswerTold ==
  ASSUME NEW e, EntityOK(e), NEW m \in Modules, m.kind = "GC", NEW seen,
         \A n \in TTNames : <<n>> \in DOMAIN e.attributes => <<n, e.attributes[<<n>>].value>> \in seen
  PROVE  LET a == ProcessContextElement(e.attributes, m) IN
         \/ <<a.fields[1], SubSeq(a.fields, 2, Len(a.fields))>> \in seen
         \/ /\ <<a.fields[1]>> \notin DOMAIN e.attributes
            /\ a.fields[2] = Param(m, 2)
<1>. DEFINE a == ProcessContextElement(e.attributes, m)
            n == Param(m, 1)
<1>1. Sought(m) = <<n>>
  BY DEF Sought
<1>2. CASE <<n>> \in DOMAIN e.attributes
  <2>1. a.fields = <<n>> \o e.attributes[<<n>>].value
    BY <1>1, <1>2 DEF ProcessContextElement, ParseResponse, Answer
  <2>2. <<n>> # <<"">> /\ e.attributes[<<n>>].value \in Seq(STRING)
    BY <1>2 DEF EntityOK, Proper
  <2>3. n # ""
    BY <2>2
  <2>4. n \in TTNames
    <3>1. HasParam(m, 1)
      BY <2>3 DEF HasParam
    <3>2. 1 \in DOMAIN m.params /\ n = m.params[1]
      BY <3>1, ParamTyped
    <3>3. m.params = <<>> \/ m.params[1] \in TTNames \cup {""}
      BY ModulesTyped
    <3>4. m.params # <<>>
      BY <3>2
    <3>. HIDE DEF n
    <3>. QED BY <2>3, <3>2, <3>3, <3>4
  <2>5. <<n, e.attributes[<<n>>].value>> \in seen
    BY <1>2, <2>4
  <2>6. a.fields[1] = n /\ SubSeq(a.fields, 2, Len(a.fields)) = e.attributes[<<n>>].value
    <3>. DEFINE value == e.attributes[<<n>>].value
                f == a.fields
    <3>1. value \in Seq(STRING) /\ f = <<n>> \o value
      BY <2>1, <2>2
    <3>. HIDE DEF value, f, n
    <3>2. f[1] = n /\ SubSeq(f, 2, Len(f)) = value
      BY <3>1, AfterName
    <3>. QED BY <3>2 DEF value, f
  <2>. QED BY <2>5, <2>6
<1>3. CASE <<n>> \notin DOMAIN e.attributes
  <2>1. a.fields = <<n, Param(m, 2)>>
    BY <1>1, <1>3 DEF ProcessContextElement, ParseDefault, Answer
  <2>. QED BY <1>3, <2>1
<1>. QED BY <1>2, <1>3

LEMMA QueryKeeps ==
  ASSUME TTInv, NEW t \in TTThreads, Query(t) PROVE TTInv'
<1>. DEFINE r == tt[t]
            q == tt'[t]
            e == entities[r.device]
<1>1. /\ ThreadInv(t) /\ ThreadOK(r) /\ r.pc \in {"query", "again"} /\ DOMAIN tt = TTThreads
      /\ r.device \in TTDevices /\ EntityOK(e)
      /\ UNCHANGED <<library, post, entities, writes>>
  BY DEF TTInv, ThreadInv, ThreadOK, Working, EntitiesInv, Query
<1>2. \/ Ends(t, 500)
      \/ /\ e.there
         /\ tt' = [tt EXCEPT ![t].pc = "publish", ![t].told = "entity",
                             ![t].asked = e.attributes,
                             ![t].answers = Answers200(e.attributes, tt[t].kept)]
      \/ /\ tt[t].pc = "query"
         /\ tt' = [tt EXCEPT ![t].pc = "first", ![t].asked = e.attributes,
                             ![t].told = IF e.there THEN "error" ELSE "absent"]
  BY DEF Query
<1>3. DOMAIN tt' = TTThreads /\ \A u \in TTThreads \ {t} : tt'[u] = tt[u]
  BY <1>1, <1>2 DEF Ends
<1>4. \A u \in TTThreads \ {t} : ThreadInv(u)'
  BY <1>1, <1>3, OthersKept
<1>5. /\ DOMAIN q = TTFields /\ q.pc \in {"publish", "first", "done"} /\ q.at = r.at
      /\ q.parts = r.parts /\ q.device = r.device /\ q.seen = r.seen
      /\ q.kept = r.kept /\ q.processed = r.processed /\ q.plain = r.plain
      /\ q.met = r.met
  BY <1>1, <1>2 DEF Ends, ThreadOK, TTFields
<1>6. /\ q.pc = "first" => q.told = "error" \/ DOMAIN q.asked = {}
      /\ q.pc = "first" => q.answers = <<>>
  <2>1. CASE q.pc = "first"
    <3>1. /\ q.asked = e.attributes /\ q.told = IF e.there THEN "error" ELSE "absent"
          /\ q.answers = r.answers /\ q.met = r.met
      BY <1>1, <1>2, <2>1 DEF Ends, ThreadOK, TTFields
    <3>2. r.answers = <<>> /\ (~e.there => DOMAIN e.attributes = {})
      BY <1>1 DEF ThreadOK, EntityOK
    <3>. QED BY <3>1, <3>2
  <2>. QED BY <2>1
<1>7. ThreadOK(q)
  BY <1>1, <1>5, <1>6 DEF ThreadOK, Working, Asking
<1>8. ToldDesired(q)
  <2>1. CASE q.pc # "publish"
    <3>1. q.answers = r.answers /\ r.answers = <<>>
      BY <1>1, <1>2, <2>1 DEF Ends, ThreadOK, TTFields
    <3>. QED BY <3>1 DEF ToldDesired
  <2>2. CASE q.pc = "publish"
    <3>1. q.asked = e.attributes /\ q.answers = Answers200(e.attributes, r.kept)
      BY <1>1, <1>2, <2>2 DEF Ends, ThreadOK, TTFields
    <3>2. \A n \in TTNames : <<n>> \in DOMAIN e.attributes =>
            <<n, e.attributes[<<n>>].value>> \in r.seen
      BY <1>1 DEF ThreadInv, HasSeen, Configured, Working
    <3>3. SUFFICES ASSUME NEW i \in DOMAIN q.answers, q.answers[i].kind = "GC"
                   PROVE  \/ <<q.answers[i].fields[1],
                               SubSeq(q.answers[i].fields, 2, Len(q.answers[i].fields))>> \in q.seen
                          \/ /\ <<q.answers[i].fields[1]>> \notin DOMAIN q.asked
                             /\ q.answers[i].fields[2] = Param(q.kept[i], 2)
      BY DEF ToldDesired
    <3>4. i \in DOMAIN r.kept /\ q.answers[i] = ProcessContextElement(e.attributes, r.kept[i])
      BY <3>1 DEF Answers200
    <3>5. r.kept[i] \in Modules
      BY <1>1, <3>4 DEF ThreadOK
    <3>6. r.kept[i].kind = "GC"
      BY <3>3, <3>4, AnswerKind
    <3>. DEFINE m == r.kept[i]
    <3>7. LET a == ProcessContextElement(e.attributes, m) IN
            \/ <<a.fields[1], SubSeq(a.fields, 2, Len(a.fields))>> \in r.seen
            \/ /\ <<a.fields[1]>> \notin DOMAIN e.attributes
               /\ a.fields[2] = Param(m, 2)
      <4>. HIDE DEF m, e, r
      <4>1. EntityOK(e) /\ m \in Modules /\ m.kind = "GC"
        BY <1>1, <3>5, <3>6 DEF m
      <4>. QED BY <4>1, <3>2, AnswerTold
    <3>. QED BY <1>5, <3>1, <3>4, <3>7
  <2>. QED BY <2>1, <2>2
<1>9. OwnSoFar(t)'
  <2>. SUFFICES AttributesOfParts(q, ValidBefore(q))
    BY DEF OwnSoFar
  <2>1. AttributesOfParts(r, ValidBefore(r))
    BY <1>1 DEF ThreadInv, OwnSoFar, ThreadOK, Working
  <2>2. ValidBefore(q) = ValidBefore(r)
    BY <1>5 DEF ValidBefore, Valid
  <2>. QED BY <1>5, <2>1, <2>2, SameAttributes
<1>10. ResultStands(t)' /\ HasSeen(t)'
  BY <1>1, <1>5 DEF ThreadInv, ResultStands, HasSeen, Working
<1>11. ThreadInv(t)'
  BY <1>7, <1>8, <1>9, <1>10 DEF ThreadInv
<1>. QED BY <1>1, <1>3, <1>4, <1>11 DEF TTInv, EntitiesInv

(* Something is written at the broker, and all at work see it. *)

LEMMA SeenTyped ==
  ASSUME NEW requests, NEW all, NEW d, NEW u \in TTThreads, DOMAIN requests[u] = TTFields
  PROVE  /\ DOMAIN Seen(requests, all, d) = TTThreads
         /\ DOMAIN Seen(requests, all, d)[u] = TTFields
         /\ \A x \in TTFields \ {"seen"} : Seen(requests, all, d)[u][x] = requests[u][x]
         /\ requests[u].seen \subseteq Seen(requests, all, d)[u].seen
         /\ requests[u].device = d => Configured(all, d) \subseteq Seen(requests, all, d)[u].seen
<1>. DEFINE q == Seen(requests, all, d)[u]
<1>1. /\ q = IF requests[u].device = d
             THEN [requests[u] EXCEPT !.seen = @ \cup Configured(all, d)]
             ELSE requests[u]
      /\ DOMAIN Seen(requests, all, d) = TTThreads
  BY DEF Seen
<1>2. "seen" \in TTFields
  BY DEF TTFields
<1>. HIDE DEF q
<1>3. CASE requests[u].device = d
  <2>1. q = [requests[u] EXCEPT !.seen = @ \cup Configured(all, d)]
    BY <1>1, <1>3
  <2>2. q.seen = requests[u].seen \cup Configured(all, d)
    BY <1>2, <2>1
  <2>. QED BY <1>1, <2>1, <2>2 DEF q
<1>4. CASE requests[u].device # d
  BY <1>1, <1>4 DEF q
<1>. QED BY <1>3, <1>4

(* What a write does to the threads that do nothing. *)
LEMMA WriteKeeps ==
  ASSUME TTInv, NEW d \in TTDevices, NEW requests, NEW u \in TTThreads,
         requests[u] = tt[u], tt' = Seen(requests, entities', d),
         \A x \in TTDevices \ {d} : entities'[x] = entities[x],
         UNCHANGED post
  PROVE  ThreadInv(u)'
<1>1. ThreadInv(u) /\ DOMAIN tt[u] = TTFields
  BY DEF TTInv, ThreadInv, ThreadOK
<1>2. /\ DOMAIN tt'[u] = TTFields
      /\ \A x \in TTFields \ {"seen"} : tt'[u][x] = tt[u][x]
      /\ tt[u].seen \subseteq tt'[u].seen
      /\ tt[u].device = d => Configured(entities', d) \subseteq tt'[u].seen
  BY <1>1, SeenTyped
<1>3. ASSUME tt[u].pc \in Working
      PROVE  Configured(entities', tt[u].device) \subseteq tt'[u].seen
  <2>1. tt[u].device \in TTDevices /\ Configured(entities, tt[u].device) \subseteq tt[u].seen
    BY <1>1, <1>3 DEF ThreadInv, ThreadOK, HasSeen
  <2>2. CASE tt[u].device # d
    <3>1. Configured(entities', tt[u].device) = Configured(entities, tt[u].device)
      BY <2>1, <2>2 DEF Configured
    <3>. QED BY <1>2, <2>1, <3>1
  <2>. QED BY <1>2, <2>2
<1>. QED BY <1>1, <1>2, <1>3, ThreadKept

LEMMA PublishedTyped ==
  ASSUME TTInv, NEW t \in TTThreads, tt[t].device \in TTDevices,
         NEW S, \A a \in S : Proper(a.name, a.value), NEW attributes \in Seq(S),
         PublishContextBroker(t, attributes)
  PROVE  /\ EntitiesInv'
         /\ \A x \in TTDevices \ {tt[t].device} : entities'[x] = entities[x]
<1>. DEFINE d == tt[t].device
<1>1. DOMAIN entities = TTDevices /\ \A x \in TTDevices : EntityOK(entities[x])
  BY DEF TTInv, EntitiesInv
<1>2. CASE entities' = [entities EXCEPT ![d] = Appended(@, attributes)]
  <2>1. /\ entities'[d] = Appended(entities[d], attributes)
        /\ \A x \in TTDevices \ {d} : entities'[x] = entities[x]
        /\ DOMAIN entities' = TTDevices
    BY <1>1, <1>2
  <2>2. EntityOK(entities'[d])
    BY <1>1, <2>1, AppendedTyped
  <2>. QED BY <1>1, <2>1, <2>2 DEF EntitiesInv
<1>3. CASE UNCHANGED entities
  BY <1>1, <1>3 DEF EntitiesInv
<1>. QED BY <1>2, <1>3 DEF PublishContextBroker

(* A publication, after which the thread asks again or has done its work. *)
LEMMA PublishKeeps ==
  ASSUME TTInv, NEW t \in TTThreads, NEW requests,
         NEW S, \A a \in S : Proper(a.name, a.value), NEW attributes \in Seq(S),
         PublishContextBroker(t, attributes),
         \/ tt[t].pc = "first" /\ requests = [tt EXCEPT ![t].pc = "again"]
         \/ tt[t].pc = "publish" /\ requests = [tt EXCEPT ![t].pc = "done", ![t].status = 200],
         tt' = Seen(requests, entities', tt[t].device),
         UNCHANGED <<library, post, writes>>
  PROVE  TTInv'
<1>. DEFINE r == tt[t]
            q == tt'[t]
            d == tt[t].device
<1>1. /\ ThreadInv(t) /\ ThreadOK(r) /\ r.pc \in {"first", "publish"} /\ DOMAIN tt = TTThreads
      /\ DOMAIN r = TTFields /\ d \in TTDevices
  BY DEF TTInv, ThreadInv, ThreadOK, Working
<1>2. EntitiesInv' /\ \A x \in TTDevices \ {d} : entities'[x] = entities[x]
  BY <1>1, PublishedTyped
<1>3. \A u \in TTThreads \ {t} : requests[u] = tt[u]
  BY <1>1
<1>4. \A u \in TTThreads \ {t} : ThreadInv(u)'
  BY <1>1, <1>2, <1>3, WriteKeeps
<1>5. /\ DOMAIN requests[t] = TTFields
      /\ requests[t].pc = IF r.pc = "first" THEN "again" ELSE "done"
      /\ \A x \in TTFields \ {"pc", "status"} : requests[t][x] = r[x]
  BY <1>1 DEF TTFields
<1>6. /\ DOMAIN tt' = TTThreads /\ DOMAIN q = TTFields
      /\ \A x \in TTFields \ {"seen"} : q[x] = requests[t][x]
      /\ requests[t].seen \subseteq q.seen
      /\ requests[t].device = d => Configured(entities', d) \subseteq q.seen
  BY <1>5, SeenTyped
<1>7. /\ q.pc = IF r.pc = "first" THEN "again" ELSE "done"
      /\ q.at = r.at /\ q.parts = r.parts /\ q.device = r.device /\ q.asked = r.asked
      /\ q.kept = r.kept /\ q.processed = r.processed /\ q.plain = r.plain
      /\ q.answers = r.answers /\ q.met = r.met /\ r.seen \subseteq q.seen
      /\ Configured(entities', d) \subseteq q.seen
  <2>. HIDE DEF q, r, d
  <2>1. r.device = d
    BY DEF r, d
  <2>. QED BY <1>5, <1>6, <2>1 DEF TTFields
<1>8. ThreadOK(q)
  BY <1>1, <1>6, <1>7 DEF ThreadOK, Working, Asking
<1>9. ToldDesired(q)
  BY <1>1, <1>7 DEF ThreadInv, ToldDesired
<1>10. OwnSoFar(t)'
  <2>. SUFFICES AttributesOfParts(q, ValidBefore(q))
    BY DEF OwnSoFar
  <2>1. AttributesOfParts(r, ValidBefore(r))
    BY <1>1 DEF ThreadInv, OwnSoFar, ThreadOK, Working
  <2>2. ValidBefore(q) = ValidBefore(r)
    BY <1>7 DEF ValidBefore, Valid
  <2>. QED BY <1>7, <2>1, <2>2, SameAttributes
<1>11. ResultStands(t)' /\ HasSeen(t)'
  BY <1>7 DEF ResultStands, HasSeen, Working
<1>12. ThreadInv(t)'
  BY <1>8, <1>9, <1>10, <1>11 DEF ThreadInv
<1>13. post'.result \in Results \cup {Invalid}
  BY DEF TTInv
<1>. QED BY <1>2, <1>4, <1>6, <1>12, <1>13 DEF TTInv

LEMMA PublishFirstKeeps ==
  ASSUME TTInv, NEW t \in TTThreads, PublishFirst(t) PROVE TTInv'
<1>1. tt[t].plain \in Seq(PlainOnes)
  BY DEF TTInv, ThreadInv, ThreadOK
<1>. DEFINE requests == [tt EXCEPT ![t].pc = "again"]
<1>2. /\ tt[t].pc = "first" /\ PublishContextBroker(t, tt[t].plain)
      /\ tt' = Seen(requests, entities', tt[t].device)
      /\ UNCHANGED <<library, post, writes>>
  BY DEF PublishFirst
<1>3. tt[t].pc = "first" /\ requests = [tt EXCEPT ![t].pc = "again"]
  BY <1>2
<1>. HIDE DEF requests
<1>. QED BY <1>1, <1>2, <1>3, ResultsProper, PublishKeeps

LEMMA PublishProcessedKeeps ==
  ASSUME TTInv, NEW t \in TTThreads, PublishProcessed(t) PROVE TTInv'
<1>1. tt[t].processed \in Seq(Processed)
  BY DEF TTInv, ThreadInv, ThreadOK
<1>. DEFINE requests == [tt EXCEPT ![t].pc = "done", ![t].status = 200]
<1>2. /\ tt[t].pc = "publish" /\ PublishContextBroker(t, tt[t].processed)
      /\ tt' = Seen(requests, entities', tt[t].device)
      /\ UNCHANGED <<library, post, writes>>
  BY DEF PublishProcessed
<1>3. tt[t].pc = "publish" /\ requests = [tt EXCEPT ![t].pc = "done", ![t].status = 200]
  BY <1>2
<1>. HIDE DEF requests
<1>. QED BY <1>1, <1>2, <1>3, ResultsProper, PublishKeeps

(* An application sets a value. *)
LEMMA ApplicationSetsKeeps ==
  ASSUME TTInv, ApplicationSets PROVE TTInv'
<1>1. PICK d \in TTDevices, n \in TTNames, v \in TTDesired :
        /\ entities' = [entities EXCEPT ![d] =
             EntityWith(@, [x \in {<<n>>} |->
                           [value |-> <<v>>, sleep |-> "", by |-> "application"]])]
        /\ tt' = Seen(tt, entities', d)
  BY DEF ApplicationSets
<1>. DEFINE new == [x \in {<<n>>} |-> [value |-> <<v>>, sleep |-> "", by |-> "application"]]
<1>2. \A x \in DOMAIN new : Proper(x, new[x].value)
  <2>1. n # "" /\ v \in STRING
    BY TTNamesAssumption DEF TTNamesAssumption
  <2>2. <<n>> # <<"">>
    <3>1. <<n>>[1] # <<"">>[1]
      BY <2>1
    <3>. QED BY <3>1
  <2>3. <<v>> \in Seq(STRING)
    BY <2>1, OneText
  <2>. QED BY <2>2, <2>3 DEF Proper
<1>3. DOMAIN entities = TTDevices /\ \A x \in TTDevices : EntityOK(entities[x])
  BY DEF TTInv, EntitiesInv
<1>4. /\ entities'[d] = EntityWith(entities[d], new) /\ DOMAIN entities' = TTDevices
      /\ \A x \in TTDevices \ {d} : entities'[x] = entities[x]
  BY <1>1, <1>3
<1>. HIDE DEF new
<1>5. EntitiesInv'
  <2>1. EntityOK(entities'[d])
    BY <1>2, <1>3, <1>4, WrittenTyped
  <2>. QED BY <1>3, <1>4, <2>1 DEF EntitiesInv
<1>6. \A u \in TTThreads : ThreadInv(u)'
  <2>1. UNCHANGED post
    BY DEF ApplicationSets
  <2>. QED BY <1>1, <1>4, <2>1, WriteKeeps
<1>7. DOMAIN tt' = TTThreads
  BY <1>1 DEF Seen
<1>8. post'.result \in Results \cup {Invalid}
  BY DEF TTInv, ApplicationSets
<1>. QED BY <1>5, <1>6, <1>7, <1>8 DEF TTInv

LEMMA StepTTInv == TTInv /\ [TTNext]_ttVars => TTInv'
<1>. SUFFICES ASSUME TTInv, [TTNext]_ttVars PROVE TTInv'
  OBVIOUS
<1>1. ASSUME NEW t \in TTThreads, TTRequest(t) PROVE TTInv'
  BY <1>1, TTRequestKeeps
<1>2. ASSUME NEW t \in TTThreads, Execute(t) PROVE TTInv'
  BY <1>2, ExecuteKeeps
<1>3. ASSUME NEW t \in TTThreads, Take(t) PROVE TTInv'
  BY <1>3, TakeKeeps
<1>4. ASSUME NEW t \in TTThreads, ModulesEnd(t) PROVE TTInv'
  BY <1>4, ModulesEndKeeps
<1>5. ASSUME NEW t \in TTThreads, Query(t) PROVE TTInv'
  BY <1>5, QueryKeeps
<1>6. ASSUME NEW t \in TTThreads, PublishFirst(t) PROVE TTInv'
  BY <1>6, PublishFirstKeeps
<1>7. ASSUME NEW t \in TTThreads, PublishProcessed(t) PROVE TTInv'
  BY <1>7, PublishProcessedKeeps
<1>8. CASE ApplicationSets
  BY <1>8, ApplicationSetsKeeps
<1>9. ASSUME UNCHANGED ttVars PROVE TTInv'
  <2>1. UNCHANGED <<post, tt, entities>>
    BY <1>9 DEF ttVars
  <2>. QED BY <2>1 DEF TTInv, EntitiesInv, ThreadInv, OwnSoFar, ResultStands, HasSeen
<1>. QED BY <1>1, <1>2, <1>3, <1>4, <1>5, <1>6, <1>7, <1>8, <1>9 DEF TTNext

LEMMA TTInvHolds == TTSpec => []TTInv
<1>1. TTInit("idle") => TTInv
  BY InitTTInv
<1>2. TTInv /\ [TTNext]_ttVars => TTInv'
  BY StepTTInv
<1>. QED BY <1>1, <1>2, PTL DEF TTSpec

-----------------------------------------------------------------------------
(***************************************************************************)
(* What is at the postprocessor, and what is published, was sent by some   *)
(* request: requests keep their parts, and only take() adds texts.         *)
(***************************************************************************)

SentInv == (post.result # Invalid => post.result[1] \in Sent) /\ PublishedWasSent

SameTexts(t) == tt'[t].processed = tt[t].processed /\ tt'[t].plain = tt[t].plain

LEMMA PartSent ==
  ASSUME NEW t \in TTThreads, ThreadOK(tt[t]), tt[t].at > 0, tt[t].at <= Len(tt[t].parts),
         Part(t).kind # NotThere, Transform(Part(t)) # Invalid
  PROVE  Transform(Part(t))[1] \in Sent
<1>1. tt[t].at \in Valid(tt[t])
  BY DEF Valid, Part, ThreadOK
<1>. QED BY <1>1 DEF Sent, Part

LEMMA SentGrows ==
  ASSUME \A u \in TTThreads : tt'[u].parts = tt[u].parts \/ tt[u].parts = <<>>
  PROVE  Sent \subseteq Sent'
<1>. SUFFICES ASSUME NEW u \in TTThreads, NEW j \in Valid(tt[u])
              PROVE  Transform(tt[u].parts[j])[1] \in Sent'
  BY DEF Sent
<1>1. tt[u].parts # <<>>
  BY DEF Valid
<1>2. tt'[u].parts = tt[u].parts
  BY <1>1
<1>3. j \in Valid(tt'[u])
  BY <1>2 DEF Valid
<1>. QED BY <1>2, <1>3 DEF Sent

(* A step that adds no text. *)
LEMMA TextsKept ==
  ASSUME SentInv, Sent \subseteq Sent', post'.result # Invalid => post'.result[1] \in Sent',
         \A u \in TTThreads : SameTexts(u) \/ (tt'[u].processed = <<>> /\ tt'[u].plain = <<>>)
  PROVE  SentInv'
<1>. SUFFICES ASSUME NEW u \in TTThreads
              PROVE  /\ \A i \in DOMAIN tt'[u].processed :
                          \E x \in Sent' : x.processed = tt'[u].processed[i]
                     /\ \A i \in DOMAIN tt'[u].plain : \E x \in Sent' : x.plain = tt'[u].plain[i]
  BY DEF SentInv, PublishedWasSent
<1>1. CASE SameTexts(u)
  BY <1>1 DEF SentInv, PublishedWasSent, SameTexts
<1>2. CASE tt'[u].processed = <<>> /\ tt'[u].plain = <<>>
  BY <1>2
<1>. QED BY <1>1, <1>2

(* A step of a thread that adds no text and keeps its parts. *)
LEMMA QuietStep ==
  ASSUME SentInv, NEW t \in TTThreads, \A u \in TTThreads \ {t} : tt'[u] = tt[u],
         tt'[t].parts = tt[t].parts \/ tt[t].parts = <<>>, SameTexts(t), UNCHANGED post
  PROVE  SentInv'
<1>1. Sent \subseteq Sent'
  BY SentGrows
<1>2. post'.result # Invalid => post'.result[1] \in Sent'
  BY <1>1 DEF SentInv
<1>. QED BY <1>1, <1>2, TextsKept DEF SameTexts

LEMMA TTRequestSent ==
  ASSUME TTInv, SentInv, NEW t \in TTThreads, TTRequest(t) PROVE SentInv'
<1>1. ThreadOK(tt[t]) /\ tt[t].pc = "idle" /\ DOMAIN tt = TTThreads /\ UNCHANGED post
  BY DEF TTInv, ThreadInv, TTRequest
<1>2. PICK msg \in TTMessages : (\E status : Ends(t, status)) \/ Starts(t, msg)
  BY Zenon DEF TTRequest
<1>3. \A u \in TTThreads \ {t} : tt'[u] = tt[u]
  BY <1>1, <1>2 DEF Ends, Starts
<1>4. SameTexts(t) /\ tt[t].parts = <<>>
  BY <1>1, <1>2 DEF Ends, Starts, SameTexts, ThreadOK, TTFields
<1>. QED BY <1>1, <1>3, <1>4, QuietStep

LEMMA ExecuteSent ==
  ASSUME TTInv, SentInv, NEW t \in TTThreads, Execute(t) PROVE SentInv'
<1>1. /\ ThreadOK(tt[t]) /\ tt[t].pc = "modules" /\ DOMAIN tt = TTThreads
      /\ tt[t].at > 0 /\ tt[t].at <= Len(tt[t].parts)
  BY DEF TTInv, ThreadInv, ThreadOK, Working, Execute
<1>2. \/ tt' = [tt EXCEPT ![t].at = @ + 1] /\ post' = post
      \/ /\ Part(t).kind # NotThere /\ tt' = [tt EXCEPT ![t].pc = "take"]
         /\ post' = [result |-> Transform(Part(t)), of |-> t]
  BY DEF Execute
<1>3. \A u \in TTThreads : tt'[u].parts = tt[u].parts /\ SameTexts(u)
  BY <1>1, <1>2 DEF SameTexts, ThreadOK, TTFields
<1>4. Sent \subseteq Sent'
  BY <1>3, SentGrows
<1>5. post'.result # Invalid => post'.result[1] \in Sent'
  <2>1. CASE post' = post
    BY <1>4, <2>1 DEF SentInv
  <2>2. CASE Part(t).kind # NotThere /\ post'.result = Transform(Part(t))
    BY <1>1, <1>4, <2>2, PartSent
  <2>. QED BY <1>2, <2>1, <2>2
<1>. QED BY <1>3, <1>4, <1>5, TextsKept

(* Everything at the postprocessor was sent. *)
LEMMA AtPostSent ==
  ASSUME TTInv, SentInv, NEW x \in AtPost PROVE x[1] \in Sent
<1>1. x # Invalid
  BY DEF AtPost
<1>2. CASE x = post.result
  BY <1>1, <1>2 DEF SentInv
<1>3. ASSUME NEW u \in TTThreads, tt[u].pc = "take", x = Transform(Part(u)) PROVE x[1] \in Sent
  <2>1. ThreadOK(tt[u])
    BY DEF TTInv, ThreadInv
  <2>2. tt[u].at > 0 /\ tt[u].at <= Len(tt[u].parts) /\ Part(u).kind # NotThere
    BY <1>3, <2>1 DEF ThreadOK, Working, Part
  <2>. QED BY <1>1, <1>3, <2>1, <2>2, PartSent
<1>. QED BY <1>2, <1>3, AtPostTyped

LEMMA TakeSent ==
  ASSUME TTInv, SentInv, NEW t \in TTThreads, Take(t) PROVE SentInv'
<1>. DEFINE r == tt[t]
            q == tt'[t]
            next == [r EXCEPT !.pc = "modules", !.at = @ + 1]
            met == [next EXCEPT !.met = @ \cup {r.at}]
            Same(x) == x.parts = r.parts /\ x.processed = r.processed /\ x.plain = r.plain
<1>1. /\ ThreadOK(r) /\ DOMAIN r = TTFields /\ DOMAIN tt = TTThreads /\ UNCHANGED post
      /\ r.processed \in Seq(Processed) /\ r.plain \in Seq(PlainOnes)
  BY DEF TTInv, ThreadInv, ThreadOK, Take
<1>2. /\ DOMAIN next = TTFields /\ Same(next) /\ DOMAIN met = TTFields /\ Same(met)
  <2>1. DOMAIN next = TTFields /\ Same(next)
    BY <1>1 DEF TTFields
  <2>. HIDE DEF next, r
  <2>. QED BY <2>1 DEF TTFields
<1>3. \/ tt' = [tt EXCEPT ![t] = [next EXCEPT !.kept = Append(@, Part(t))]]
      \/ tt' = [tt EXCEPT ![t] = next]
      \/ tt' = [tt EXCEPT ![t] = met]
      \/ Ends(t, 500)
      \/ /\ post.result # Invalid
         /\ tt' = [tt EXCEPT ![t] = WithTexts(next, Part(t), post.result[1].processed,
                                              post.result[1].plain)]
      \/ \E x, y \in AtPost :
           tt' = [tt EXCEPT ![t] = WithTexts(met, Part(t), x[1].processed, y[1].plain)]
  BY DEF Take, Decoded
<1>. HIDE DEF next, met
<1>4. \A u \in TTThreads \ {t} : tt'[u] = tt[u]
  BY <1>1, <1>3 DEF Ends
<1>5. ASSUME \/ tt' = [tt EXCEPT ![t] = [next EXCEPT !.kept = Append(@, Part(t))]]
             \/ tt' = [tt EXCEPT ![t] = next]
             \/ tt' = [tt EXCEPT ![t] = met]
             \/ Ends(t, 500)
      PROVE  SentInv'
  <2>1. Same(q)
    BY <1>1, <1>2, <1>5 DEF Ends, TTFields
  <2>. QED BY <1>1, <1>4, <2>1, QuietStep DEF SameTexts
<1>6. ASSUME NEW a \in Sent, NEW b \in Sent, NEW z, DOMAIN z = TTFields, Same(z),
             tt' = [tt EXCEPT ![t] = WithTexts(z, Part(t), a.processed, b.plain)]
      PROVE  SentInv'
  <2>. DEFINE v == a.processed
              w == b.plain
  <2>1. q = WithTexts(z, Part(t), v, w)
    BY <1>1, <1>6
  <2>2. /\ q.parts = r.parts
        /\ q.processed = Append(r.processed, v) /\ q.plain = Append(r.plain, w)
    <3>. HIDE DEF q, r, v, w
    <3>. QED BY <1>6, <2>1 DEF WithTexts, TTFields
  <2>3. Sent \subseteq Sent'
    BY <1>4, <2>2, SentGrows
  <2>4. \A u \in TTThreads \ {t} :
          /\ \A i \in DOMAIN tt'[u].processed : \E x \in Sent' : x.processed = tt'[u].processed[i]
          /\ \A i \in DOMAIN tt'[u].plain : \E x \in Sent' : x.plain = tt'[u].plain[i]
    BY <1>4, <2>3 DEF SentInv, PublishedWasSent
  <2>5. \A i \in DOMAIN q.processed : \E x \in Sent' : x.processed = q.processed[i]
    <3>1. \A i \in DOMAIN r.processed : \E x \in Sent' : x.processed = r.processed[i]
      BY <2>3 DEF SentInv, PublishedWasSent
    <3>2. \A i \in DOMAIN q.processed :
            \/ i \in DOMAIN r.processed /\ q.processed[i] = r.processed[i]
            \/ q.processed[i] = v
      <4>. HIDE DEF q, r, v
      <4>. QED BY <1>1, <2>2
    <3>. QED BY <2>3, <3>1, <3>2
  <2>6. \A i \in DOMAIN q.plain : \E x \in Sent' : x.plain = q.plain[i]
    <3>1. \A i \in DOMAIN r.plain : \E x \in Sent' : x.plain = r.plain[i]
      BY <2>3 DEF SentInv, PublishedWasSent
    <3>2. \A i \in DOMAIN q.plain :
            \/ i \in DOMAIN r.plain /\ q.plain[i] = r.plain[i]
            \/ q.plain[i] = w
      <4>. HIDE DEF q, r, w
      <4>. QED BY <1>1, <2>2
    <3>. QED BY <2>3, <3>1, <3>2
  <2>7. PublishedWasSent'
    BY <2>4, <2>5, <2>6 DEF PublishedWasSent
  <2>8. post'.result # Invalid => post'.result[1] \in Sent'
    BY <1>1, <2>3 DEF SentInv
  <2>. QED BY <2>7, <2>8 DEF SentInv
<1>7. ASSUME post.result # Invalid,
             tt' = [tt EXCEPT ![t] = WithTexts(next, Part(t), post.result[1].processed,
                                               post.result[1].plain)]
      PROVE  SentInv'
  <2>1. post.result[1] \in Sent
    BY <1>7 DEF SentInv
  <2>. QED BY <1>2, <1>6, <1>7, <2>1
<1>8. ASSUME NEW x \in AtPost, NEW y \in AtPost,
             tt' = [tt EXCEPT ![t] = WithTexts(met, Part(t), x[1].processed, y[1].plain)]
      PROVE  SentInv'
  <2>1. x[1] \in Sent /\ y[1] \in Sent
    BY AtPostSent
  <2>. QED BY <1>2, <1>6, <1>8, <2>1
<1>. QED BY <1>3, <1>5, <1>7, <1>8

LEMMA ModulesEndSent ==
  ASSUME TTInv, SentInv, NEW t \in TTThreads, ModulesEnd(t) \/ Query(t) PROVE SentInv'
<1>1. DOMAIN tt = TTThreads /\ DOMAIN tt[t] = TTFields /\ UNCHANGED post
  BY DEF TTInv, ThreadInv, ThreadOK, ModulesEnd, Query
<1>2. \/ \E status : Ends(t, status)
      \/ tt' = [tt EXCEPT ![t].pc = "query"]
      \/ \E asked, as : tt' = [tt EXCEPT ![t].pc = "publish", ![t].told = "entity",
                                              ![t].asked = asked, ![t].answers = as]
      \/ \E asked, told : tt' = [tt EXCEPT ![t].pc = "first", ![t].asked = asked,
                                           ![t].told = told]
  <2>1. CASE ModulesEnd(t)
    BY <2>1, Zenon DEF ModulesEnd
  <2>2. CASE Query(t)
    BY <2>2, Zenon DEF Query
  <2>. QED BY <2>1, <2>2
<1>3. \A u \in TTThreads \ {t} : tt'[u] = tt[u]
  BY <1>1, <1>2 DEF Ends
<1>4. tt'[t].parts = tt[t].parts /\ SameTexts(t)
  <2>1. CASE (\E status : Ends(t, status)) \/ tt' = [tt EXCEPT ![t].pc = "query"]
    BY <1>1, <2>1 DEF Ends, SameTexts, TTFields
  <2>2. ASSUME NEW asked, NEW as,
               tt' = [tt EXCEPT ![t].pc = "publish", ![t].told = "entity",
                                ![t].asked = asked, ![t].answers = as]
        PROVE  tt'[t].parts = tt[t].parts /\ SameTexts(t)
    BY <1>1, <2>2 DEF SameTexts, TTFields
  <2>3. ASSUME NEW asked, NEW told,
               tt' = [tt EXCEPT ![t].pc = "first", ![t].asked = asked, ![t].told = told]
        PROVE  tt'[t].parts = tt[t].parts /\ SameTexts(t)
    BY <1>1, <2>3 DEF SameTexts, TTFields
  <2>. QED BY <1>2, <2>1, <2>2, <2>3
<1>. QED BY <1>1, <1>3, <1>4, QuietStep

(* A write at the broker adds no text. *)
LEMMA WriteSent ==
  ASSUME TTInv, SentInv, NEW requests, NEW d, UNCHANGED post,
         tt' = Seen(requests, entities', d),
         \A u \in TTThreads : /\ DOMAIN requests[u] = TTFields
                              /\ requests[u].parts = tt[u].parts
                              /\ requests[u].processed = tt[u].processed
                              /\ requests[u].plain = tt[u].plain
  PROVE  SentInv'
<1>1. \A u \in TTThreads : tt'[u].parts = tt[u].parts /\ SameTexts(u)
  <2>. TAKE u \in TTThreads
  <2>1. \A x \in TTFields \ {"seen"} : tt'[u][x] = requests[u][x]
    BY SeenTyped
  <2>. QED BY <2>1 DEF SameTexts, TTFields
<1>2. Sent \subseteq Sent'
  BY <1>1, SentGrows
<1>3. post'.result # Invalid => post'.result[1] \in Sent'
  BY <1>2 DEF SentInv
<1>. QED BY <1>1, <1>2, <1>3, TextsKept

LEMMA PublishSent ==
  ASSUME TTInv, SentInv, NEW t \in TTThreads, PublishFirst(t) \/ PublishProcessed(t)
  PROVE  SentInv'
<1>1. DOMAIN tt = TTThreads /\ \A u \in TTThreads : DOMAIN tt[u] = TTFields
  BY DEF TTInv, ThreadInv, ThreadOK
<1>2. PICK requests :
        /\ \/ requests = [tt EXCEPT ![t].pc = "again"]
           \/ requests = [tt EXCEPT ![t].pc = "done", ![t].status = 200]
        /\ tt' = Seen(requests, entities', tt[t].device) /\ UNCHANGED post
  BY DEF PublishFirst, PublishProcessed
<1>3. \A u \in TTThreads : /\ DOMAIN requests[u] = TTFields
                           /\ requests[u].parts = tt[u].parts
                           /\ requests[u].processed = tt[u].processed
                           /\ requests[u].plain = tt[u].plain
  BY <1>1, <1>2 DEF TTFields
<1>. QED BY <1>2, <1>3, WriteSent

LEMMA ApplicationSetsSent ==
  ASSUME TTInv, SentInv, ApplicationSets PROVE SentInv'
<1>1. \A u \in TTThreads : DOMAIN tt[u] = TTFields
  BY DEF TTInv, ThreadInv, ThreadOK
<1>2. PICK d \in TTDevices : tt' = Seen(tt, entities', d)
  BY DEF ApplicationSets
<1>3. UNCHANGED post
  BY DEF ApplicationSets
<1>. QED BY <1>1, <1>2, <1>3, WriteSent

LEMMA InitSentInv == TTInit("idle") => SentInv
<1>. SUFFICES ASSUME TTInit("idle") PROVE SentInv
  OBVIOUS
<1>1. post.result = Invalid /\ \A t \in TTThreads : tt[t].processed = <<>> /\ tt[t].plain = <<>>
  BY DEF TTInit, NoRequestTT
<1>. QED BY <1>1 DEF SentInv, PublishedWasSent

LEMMA StepSentInv == TTInv /\ SentInv /\ [TTNext]_ttVars => SentInv'
<1>. SUFFICES ASSUME TTInv, SentInv, [TTNext]_ttVars PROVE SentInv'
  OBVIOUS
<1>1. ASSUME NEW t \in TTThreads, TTRequest(t) PROVE SentInv'
  BY <1>1, TTRequestSent
<1>2. ASSUME NEW t \in TTThreads, Execute(t) PROVE SentInv'
  BY <1>2, ExecuteSent
<1>3. ASSUME NEW t \in TTThreads, Take(t) PROVE SentInv'
  BY <1>3, TakeSent
<1>4. ASSUME NEW t \in TTThreads, ModulesEnd(t) \/ Query(t) PROVE SentInv'
  BY <1>4, ModulesEndSent
<1>5. ASSUME NEW t \in TTThreads, PublishFirst(t) \/ PublishProcessed(t) PROVE SentInv'
  BY <1>5, PublishSent
<1>6. CASE ApplicationSets
  BY <1>6, ApplicationSetsSent
<1>7. CASE UNCHANGED ttVars
  <2>1. UNCHANGED <<post, tt>>
    BY <1>7 DEF ttVars
  <2>. QED BY <2>1 DEF SentInv, PublishedWasSent, Sent
<1>. QED BY <1>1, <1>2, <1>3, <1>4, <1>5, <1>6, <1>7 DEF TTNext

(* What a device is told is what was wanted of it, whatever the threads,   *)
(* messages and writes of applications.  What is published for it is what  *)
(* it has sent, module by module and in order, with the exception of the   *)
(* very modules at which another thread used the shared postprocessor in   *)
(* between (service() of thinkingthings/ has no lock): of those only that  *)
(* some device has sent them is claimed.                                   *)
THEOREM DevicesHearTheirOwn == TTSpec => []AnswersAreOwn
<1>1. TTInit("idle") => SentInv
  BY InitSentInv
<1>2. TTInv /\ SentInv /\ [TTNext]_ttVars => SentInv'
  BY StepSentInv
<1>3. TTSpec => []SentInv
  BY <1>1, <1>2, TTInvHolds, PTL DEF TTSpec
<1>4. TTInv /\ SentInv => AnswersAreOwn
  BY TTInvTells DEF SentInv, AnswersAreOwn
<1>. QED BY <1>3, <1>4, TTInvHolds, PTL

-----------------------------------------------------------------------------
(* What an application has set of a configuration module. *)

ByApplication(d, n) ==
  <<n>> \in DOMAIN entities[d].attributes /\ entities[d].attributes[<<n>>].by = "application"

Excused(d, n) ==
  \E t \in TTThreads :
    /\ tt[t].pc = "first" /\ tt[t].device = d
    /\ tt[t].told = "error" \/ <<n>> \notin DOMAIN tt[t].asked

LEMMA FirstExcused ==
  ASSUME TTInv, NEW t \in TTThreads, NEW d \in TTDevices, NEW n \in ConfigurationNames,
         PublishFirst(t), ByApplication(d, n),
         entities'[d].attributes[<<n>>].by = "device"
  PROVE  Excused(d, n)
<1>1. tt[t].pc = "first" /\ ThreadOK(tt[t]) /\ DOMAIN entities = TTDevices
  BY DEF PublishFirst, TTInv, ThreadInv, EntitiesInv
<1>2. tt[t].told = "error" \/ DOMAIN tt[t].asked = {}
  BY <1>1 DEF ThreadOK
<1>3. CASE tt[t].device = d
  BY <1>1, <1>2, <1>3 DEF Excused
<1>4. CASE tt[t].device # d
  <2>1. entities'[d] = entities[d]
    BY <1>1, <1>4 DEF PublishFirst, PublishContextBroker
  <2>. QED BY <2>1 DEF ByApplication
<1>. QED BY <1>3, <1>4

LEMMA ProcessedStays ==
  ASSUME TTInv, NEW t \in TTThreads, NEW d \in TTDevices, NEW n \in ConfigurationNames,
         PublishProcessed(t), ByApplication(d, n)
  PROVE  ByApplication(d, n)'
<1>1. /\ tt[t].processed \in Seq(Processed) /\ tt[t].device \in TTDevices
      /\ DOMAIN entities = TTDevices /\ EntityOK(entities[d])
  BY DEF PublishProcessed, TTInv, ThreadInv, ThreadOK, Working, EntitiesInv
<1>. DEFINE attributes == tt[t].processed
<1>2. \A i \in DOMAIN attributes : attributes[i].name # <<n>>
  <2>. TAKE i \in DOMAIN attributes
  <2>1. attributes[i] \in Processed
    BY <1>1
  <2>. QED BY <2>1, ProcessedElsewhere
<1>3. CASE entities' = [entities EXCEPT ![tt[t].device] = Appended(@, attributes)]
  <2>1. CASE tt[t].device # d
    <3>1. entities'[d] = entities[d]
      BY <1>1, <1>3, <2>1
    <3>. QED BY <3>1 DEF ByApplication
  <2>2. CASE tt[t].device = d
    <3>1. entities'[d] = Appended(entities[d], attributes)
      BY <1>1, <1>3, <2>2
    <3>2. Appended(entities[d], attributes).attributes[<<n>>] = entities[d].attributes[<<n>>]
      <4>. HIDE DEF attributes
      <4>1. <<n>> \in DOMAIN entities[d].attributes
        BY DEF ByApplication
      <4>2. attributes \in Seq(Processed)
        BY <1>1 DEF attributes
      <4>3. \A x : (\A i \in DOMAIN attributes : attributes[i].name # x) =>
              (x \in DOMAIN entities[d].attributes =>
                 Appended(entities[d], attributes).attributes[x] = entities[d].attributes[x])
        BY <1>1, <4>2, ResultsProper, AppendedTyped
      <4>. QED BY <1>2, <4>1, <4>3
    <3>3. <<n>> \in DOMAIN Appended(entities[d], attributes).attributes
      BY DEF Appended, EntityWith, ByApplication
    <3>. HIDE DEF attributes
    <3>. QED BY <3>1, <3>2, <3>3 DEF ByApplication
  <2>. QED BY <2>1, <2>2
<1>4. CASE UNCHANGED entities
  BY <1>4 DEF ByApplication
<1>5. PublishContextBroker(t, attributes)
  BY DEF PublishProcessed
<1>. QED BY <1>3, <1>4, <1>5 DEF PublishContextBroker

LEMMA SetStays ==
  ASSUME TTInv, NEW d \in TTDevices, NEW n, ApplicationSets, ByApplication(d, n)
  PROVE  ByApplication(d, n)'
<1>1. PICK c \in TTDevices, m \in TTNames, v \in TTDesired :
        entities' = [entities EXCEPT ![c] =
          EntityWith(@, [x \in {<<m>>} |->
                        [value |-> <<v>>, sleep |-> "", by |-> "application"]])]
  BY DEF ApplicationSets
<1>. DEFINE new == [x \in {<<m>>} |-> [value |-> <<v>>, sleep |-> "", by |-> "application"]]
<1>2. DOMAIN entities = TTDevices
  BY DEF TTInv, EntitiesInv
<1>3. CASE c # d
  <2>1. entities'[d] = entities[d]
    BY <1>1, <1>2, <1>3
  <2>. QED BY <2>1 DEF ByApplication
<1>4. CASE c = d
  <2>1. entities'[d] = EntityWith(entities[d], new)
    BY <1>1, <1>2, <1>4
  <2>2. \A x \in DOMAIN new : new[x].by = "application"
    OBVIOUS
  <2>. HIDE DEF new
  <2>3. /\ <<n>> \in DOMAIN entities'[d].attributes
        /\ entities'[d].attributes[<<n>>] =
             IF <<n>> \in DOMAIN new THEN new[<<n>>] ELSE entities[d].attributes[<<n>>]
    BY <2>1 DEF EntityWith, ByApplication
  <2>. QED BY <2>2, <2>3 DEF ByApplication
<1>. QED BY <1>3, <1>4

LEMMA StepStands ==
  ASSUME TTInv, [TTNext]_ttVars, NEW d \in TTDevices, NEW n \in ConfigurationNames,
         ByApplication(d, n), entities'[d].attributes[<<n>>].by = "device"
  PROVE  Excused(d, n)
<1>1. ASSUME ByApplication(d, n)' PROVE FALSE
  BY <1>1 DEF ByApplication
<1>2. ASSUME UNCHANGED entities PROVE FALSE
  BY <1>1, <1>2 DEF ByApplication
<1>3. ASSUME NEW t \in TTThreads,
             TTRequest(t) \/ Execute(t) \/ Take(t) \/ ModulesEnd(t) \/ Query(t)
      PROVE  FALSE
  BY <1>2, <1>3 DEF TTRequest, Execute, Take, ModulesEnd, Query
<1>4. ASSUME NEW t \in TTThreads, PublishProcessed(t) PROVE FALSE
  BY <1>1, <1>4, ProcessedStays
<1>5. ASSUME ApplicationSets PROVE FALSE
  BY <1>1, <1>5, SetStays
<1>6. ASSUME UNCHANGED ttVars PROVE FALSE
  BY <1>2, <1>6 DEF ttVars
<1>7. ASSUME NEW t \in TTThreads, PublishFirst(t) PROVE Excused(d, n)
  BY <1>7, FirstExcused
<1>. QED BY <1>3, <1>4, <1>5, <1>6, <1>7 DEF TTNext

(* No device overwrites what an application has set of a configuration     *)
(* module, but after an error of the broker or if the application came     *)
(* after the query (the prefix _TTcurrent_ of TTModules.cpp and the first  *)
(* publication of service()).                                              *)
THEOREM ApplicationsAreKept == TTSpec => ApplicationsValueStands
<1>1. TTInv /\ [TTNext]_ttVars =>
        [\A d \in TTDevices, n \in ConfigurationNames :
           (/\ <<n>> \in DOMAIN entities[d].attributes
            /\ entities[d].attributes[<<n>>].by = "application"
            /\ entities'[d].attributes[<<n>>].by = "device")
           => \E t \in TTThreads :
                /\ tt[t].pc = "first" /\ tt[t].device = d
                /\ tt[t].told = "error" \/ <<n>> \notin DOMAIN tt[t].asked]_ttVars
  BY StepStands DEF ByApplication, Excused
<1>. QED BY <1>1, TTInvHolds, PTL DEF TTSpec, ApplicationsValueStands

-----------------------------------------------------------------------------
(* Every finite set can be put into an order that is total on it. *)

TotalOn(order, U) ==
  /\ \A x, y \in U : x # y => <<x, y>> \in order \/ <<y, x>> \in order
  /\ \A x, y, z \in U : <<x, y>> \in order /\ <<y, z>> \in order => <<x, z>> \in order

(* Of the numbers for which a set fails there is a least. *)
LEMMA LeastOf ==
  ASSUME NEW bad \in SUBSET Nat, bad # {}
  PROVE  \E n \in bad : \A m \in bad : n <= m
<1>1. PICK n \in bad : \A m \in bad : ~(<<m, n>> \in OpToRel(<, Nat))
  BY NatLessThanWellFounded, WFMin
<1>2. ASSUME NEW m \in bad PROVE n <= m
  <2>1. m \in Nat /\ n \in Nat
    OBVIOUS
  <2>2. ASSUME m < n PROVE <<m, n>> \in OpToRel(<, Nat)
    BY <2>1, <2>2 DEF OpToRel
  <2>3. ~(m < n)
    BY <1>1, <2>2, Zenon
  <2>. QED BY <2>1, <2>3
<1>. QED BY <1>2

HasLast(S, order) == \E m \in S : \A x \in S \ {m} : <<x, m>> \in order

LEMMA LastExists ==
  ASSUME NEW U, IsFiniteSet(U), NEW order, TotalOn(order, U), NEW S \in SUBSET U, S # {}
  PROVE  HasLast(S, order)
<1>. DEFINE bad == {n \in Nat : \E T \in SUBSET U : T # {} /\ Cardinality(T) = n /\ ~HasLast(T, order)}
<1>1. SUFFICES ASSUME ~HasLast(S, order) PROVE FALSE
  OBVIOUS
<1>2. \A T \in SUBSET U : IsFiniteSet(T) /\ Cardinality(T) \in Nat
  BY FS_Subset, FS_CardinalityType
<1>3. Cardinality(S) \in bad
  BY <1>1, <1>2
<1>4. PICK n \in bad : \A m \in bad : n <= m
  BY <1>3, LeastOf
<1>5. PICK T \in SUBSET U : T # {} /\ Cardinality(T) = n /\ ~HasLast(T, order)
  BY <1>4
<1>6. PICK x \in T : TRUE
  BY <1>5
<1>. DEFINE R == T \ {x}
<1>7. R \in SUBSET U /\ Cardinality(R) = n - 1 /\ n \in Nat
  BY <1>2, <1>5, <1>6, FS_RemoveElement
<1>8. CASE R = {}
  <2>1. \A y \in T \ {x} : <<y, x>> \in order
    BY <1>8
  <2>. QED BY <1>5, <1>6, <2>1 DEF HasLast
<1>9. CASE R # {}
  <2>1. HasLast(R, order)
    <3>1. ~(n <= n - 1)
      BY <1>7
    <3>2. n - 1 \notin bad
      BY <1>4, <3>1
    <3>3. n - 1 \in Nat
      BY <1>2, <1>7
    <3>. QED BY <1>7, <1>9, <3>2, <3>3
  <2>2. PICK m \in R : \A y \in R \ {m} : <<y, m>> \in order
    BY <2>1 DEF HasLast
  <2>3. m \in U /\ x \in U /\ m # x /\ m \in T
    BY <1>5, <1>6, <2>2
  <2>4. CASE <<x, m>> \in order
    <3>1. \A y \in T \ {m} : <<y, m>> \in order
      BY <2>2, <2>4
    <3>. QED BY <1>5, <2>3, <3>1 DEF HasLast
  <2>5. CASE <<m, x>> \in order
    <3>1. \A y \in T \ {x} : <<y, x>> \in order
      <4>. TAKE y \in T \ {x}
      <4>1. CASE y = m
        BY <2>5, <4>1
      <4>2. CASE y # m
        <5>1. <<y, m>> \in order
          BY <2>2, <4>2
        <5>2. y \in U
          BY <1>5
        <5>. QED BY <2>3, <2>5, <5>1, <5>2 DEF TotalOn
      <4>. QED BY <4>1, <4>2
    <3>. QED BY <1>5, <1>6, <3>1 DEF HasLast
  <2>6. <<x, m>> \in order \/ <<m, x>> \in order
    BY <2>3 DEF TotalOn
  <2>. QED BY <2>4, <2>5, <2>6
<1>. QED BY <1>8, <1>9

Arranges(f, S, order) ==
  /\ f \in [1..Cardinality(S) -> S]
  /\ S = {f[i] : i \in DOMAIN f}
  /\ \A i, j \in DOMAIN f : i < j => <<f[i], f[j]>> \in order

LEMMA ArrangedExists ==
  ASSUME NEW U, IsFiniteSet(U), NEW order, TotalOn(order, U), NEW S \in SUBSET U
  PROVE  \E f : Arranges(f, S, order)
<1>. DEFINE bad == {n \in Nat : \E T \in SUBSET U : Cardinality(T) = n /\ ~\E f : Arranges(f, T, order)}
<1>1. SUFFICES ASSUME ~\E f : Arranges(f, S, order) PROVE FALSE
  OBVIOUS
<1>2. \A T \in SUBSET U : IsFiniteSet(T) /\ Cardinality(T) \in Nat
  BY FS_Subset, FS_CardinalityType
<1>3. Cardinality(S) \in bad
  BY <1>1, <1>2
<1>4. PICK n \in bad : \A m \in bad : n <= m
  BY <1>3, LeastOf
<1>5. PICK T \in SUBSET U : Cardinality(T) = n /\ ~\E f : Arranges(f, T, order)
  BY <1>4
<1>6. CASE T = {}
  <2>1. Cardinality(T) = 0
    BY <1>6, FS_EmptySet
  <2>2. Arranges([i \in 1..0 |-> i], T, order)
    BY <1>6, <2>1 DEF Arranges
  <2>. QED BY <1>5, <2>2
<1>7. CASE T # {}
  <2>1. PICK m \in T : \A x \in T \ {m} : <<x, m>> \in order
    BY <1>7, LastExists DEF HasLast
  <2>. DEFINE R == T \ {m}
  <2>2. R \in SUBSET U /\ Cardinality(R) = n - 1 /\ n \in Nat /\ n - 1 \in Nat
    <3>1. IsFiniteSet(T) /\ R \in SUBSET U
      BY <1>2
    <3>2. Cardinality(R) = n - 1 /\ Cardinality(R) \in Nat
      BY <1>2, <1>5, <3>1, FS_RemoveElement
    <3>. QED BY <1>2, <1>5, <3>1, <3>2
  <2>3. PICK f : Arranges(f, R, order)
    <3>1. ~(n <= n - 1)
      BY <2>2
    <3>2. n - 1 \notin bad
      BY <1>4, <3>1
    <3>. QED BY <2>2, <3>2
  <2>. DEFINE g == [i \in 1..n |-> IF i = n THEN m ELSE f[i]]
  <2>4. /\ f \in [1..(n - 1) -> R] /\ R = {f[i] : i \in 1..(n - 1)}
        /\ \A i, j \in 1..(n - 1) : i < j => <<f[i], f[j]>> \in order
    BY <2>2, <2>3 DEF Arranges
  <2>5. n \in 1..n /\ \A i \in 1..n : i = n \/ i \in 1..(n - 1)
    <3>1. n # 0
      BY <2>2
    <3>. QED BY <2>2, <3>1
  <2>6. /\ g \in [1..n -> T] /\ g[n] = m /\ DOMAIN g = 1..n
        /\ \A i \in 1..(n - 1) : i \in 1..n /\ g[i] = f[i] /\ f[i] \in R
    <3>1. \A i \in 1..(n - 1) : f[i] \in R /\ i # n /\ i \in 1..n
      BY <2>2, <2>4
    <3>2. \A i \in 1..n : (IF i = n THEN m ELSE f[i]) \in T
      BY <2>5, <3>1
    <3>. QED BY <2>5, <3>1, <3>2
  <2>. HIDE DEF g
  <2>7. T = {g[i] : i \in 1..n}
    <3>1. \A x \in T : \E i \in 1..n : x = g[i]
      <4>. TAKE x \in T
      <4>1. CASE x = m
        BY <2>5, <2>6, <4>1
      <4>2. CASE x # m
        <5>1. PICK i \in 1..(n - 1) : x = f[i]
          BY <2>4, <4>2
        <5>. QED BY <2>6, <5>1
      <4>. QED BY <4>1, <4>2
    <3>. QED BY <2>6, <3>1
  <2>8. \A i, j \in 1..n : i < j => <<g[i], g[j]>> \in order
    <3>. TAKE i, j \in 1..n
    <3>. HAVE i < j
    <3>1. i \in 1..(n - 1)
      BY <2>2, <2>5
    <3>2. CASE j = n
      BY <2>1, <2>6, <3>1, <3>2
    <3>3. CASE j # n
      BY <2>4, <2>5, <2>6, <3>1, <3>3
    <3>. QED BY <3>2, <3>3
  <2>9. Arranges(g, T, order)
    BY <1>5, <2>6, <2>7, <2>8 DEF Arranges
  <2>. QED BY <1>5, <2>9
<1>. QED BY <1>6, <1>7

LEMMA InOrderArranges ==
  ASSUME NEW S, IsFiniteSet(S), NEW order, TotalOn(order, S)
  PROVE  Arranges(InOrder(S, order), S, order) /\ Cardinality(S) \in Nat
<1>1. PICK f : Arranges(f, S, order)
  BY ArrangedExists
<1>2. \E g \in [1..Cardinality(S) -> S] :
        /\ S = {g[i] : i \in DOMAIN g}
        /\ \A i, j \in DOMAIN g : i < j => <<g[i], g[j]>> \in order
  BY <1>1 DEF Arranges
<1>3. Cardinality(S) \in Nat
  BY FS_CardinalityType
<1>. QED BY <1>2, <1>3 DEF InOrder, Arranges

(* Numbers in their order. *)
LEMMA AscendingTotal ==
  ASSUME NEW S \in SUBSET Nat PROVE TotalOn(Ascending(S), S)
BY DEF TotalOn, Ascending

LEMMA PlacesOf ==
  ASSUME NEW s, NEW places \in SUBSET Nat, IsFiniteSet(places)
  PROVE  /\ DOMAIN AtPlaces(s, places) = 1..Cardinality(places)
         /\ Cardinality(places) \in Nat
         /\ \A n \in DOMAIN AtPlaces(s, places) : \E i \in places : AtPlaces(s, places)[n] = s[i]
         /\ \A i \in places : \E n \in DOMAIN AtPlaces(s, places) : AtPlaces(s, places)[n] = s[i]
<1>. DEFINE place == InOrder(places, Ascending(places))
            part == [i \in DOMAIN place |-> s[place[i]]]
<1>1. Arranges(place, places, Ascending(places)) /\ Cardinality(places) \in Nat
  BY AscendingTotal, InOrderArranges
<1>2. /\ place \in [1..Cardinality(places) -> places]
      /\ places = {place[i] : i \in DOMAIN place}
  BY <1>1 DEF Arranges
<1>3. AtPlaces(s, places) = part
  BY DEF AtPlaces
<1>. HIDE DEF place
<1>4. /\ DOMAIN part = 1..Cardinality(places)
      /\ \A n \in DOMAIN part : part[n] = s[place[n]] /\ place[n] \in places
      /\ \A i \in places : \E n \in DOMAIN part : place[n] = i
  BY <1>2
<1>. HIDE DEF part
<1>5. \A n \in DOMAIN part : \E i \in places : part[n] = s[i]
  BY <1>4
<1>6. \A i \in places : \E n \in DOMAIN part : part[n] = s[i]
  <2>. TAKE i \in places
  <2>1. PICK n \in DOMAIN part : place[n] = i
    BY <1>4
  <2>2. part[n] = s[i]
    BY <1>4, <2>1
  <2>. QED BY <2>2
<1>. QED BY <1>1, <1>3, <1>4, <1>5, <1>6
-----------------------------------------------------------------------------
(***************************************************************************)
(* The operations: who comes from a command reads what the parameters of   *)
(* that command cover, and its labels are their names, unless an operation *)
(* has its name, too.                                                      *)
(***************************************************************************)

LabelsOf(map) == [i \in 1..Cardinality(DOMAIN map) |-> MappedParameters(map)[i].name]

MapOK(map) == DOMAIN map \in SUBSET Nat /\ DOMAIN map # {} /\ IsFiniteSet(DOMAIN map)

OpInv ==
  /\ ofile \in OpFiles /\ oat \in Nat \ {0}
  /\ \A n \in DOMAIN oparams : MapOK(oparams[n])
  /\ \A n \in DOMAIN oops :
       /\ oops[n].from = "operation" => NamedTwice(n)
       /\ oops[n].from # "operation" =>
            /\ n \in DOMAIN oparams
            /\ oops[n].registers = Cardinality(DOMAIN oparams[n])
            /\ oops[n].base = BaseAddress(oparams[n])
            /\ ~NamedTwice(n) => n \in DOMAIN olabels
  /\ \A n \in DOMAIN olabels :
       ~NamedTwice(n) => n \in DOMAIN oparams /\ olabels[n] = LabelsOf(oparams[n])

LEMMA MinOf ==
  ASSUME NEW S \in SUBSET Nat, S # {} PROVE Min(S) \in S /\ \A x \in S : Min(S) <= x
<1>1. \E m \in S : \A x \in S : m <= x
  BY LeastOf
<1>. QED BY <1>1 DEF Min

LEMMA ParamsOfCommand ==
  ASSUME NEW f \in OpFiles, NEW i \in DOMAIN f.commands, Complete(f.commands[i].params),
         f.commands[i].params # <<>>
  PROVE  MapOK(ByAddress(f.commands[i].params))
<1>. DEFINE params == f.commands[i].params
            addresses == {params[k].address : k \in DOMAIN params}
            g == [k \in DOMAIN params |-> params[k].address]
<1>1. /\ params \in Seq({params[k] : k \in DOMAIN params})
      /\ \A k \in DOMAIN params : params[k].address \in Nat \cup {NoAddress}
  BY OpFilesAssumption DEF OpFilesAssumption
<1>2. Len(params) \in Nat /\ DOMAIN params = 1..Len(params) /\ DOMAIN params # {}
  BY <1>1
<1>3. \A k \in DOMAIN params : params[k].address \in Nat
  BY <1>1 DEF Complete
<1>4. IsFiniteSet(DOMAIN params)
  BY <1>2, FS_Interval
<1>5. g \in Surjection(DOMAIN params, addresses)
  BY DEF Surjection
<1>6. IsFiniteSet(addresses)
  BY <1>4, <1>5, FS_Surjection
<1>7. DOMAIN ByAddress(params) = addresses
  BY DEF ByAddress
<1>8. addresses \in SUBSET Nat /\ addresses # {}
  BY <1>2, <1>3
<1>. QED BY <1>6, <1>7, <1>8 DEF MapOK

LEMMA InitOpInv == OpInit("operations") => OpInv
BY DEF OpInit, OpInv, NoFields

LEMMA StepOpInv == OpInv /\ [OpNext]_opVars => OpInv'
<1>. SUFFICES ASSUME OpInv, [OpNext]_opVars PROVE OpInv'
  OBVIOUS
<1>1. CASE UNCHANGED opVars
  BY <1>1 DEF opVars, OpInv, NamedTwice
<1>2. CASE ReadCommands \/ EndOfFile
  BY <1>2 DEF ReadCommands, EndOfFile, OpInv, NamedTwice
<1>3. CASE ReadOperation
  <2>. DEFINE o == ofile.operations[oat]
              op == [from |-> "operation", entry |-> oat, base |-> o.address,
                     registers |-> o.registers, positions |-> o.registers]
  <2>1. /\ UNCHANGED <<ofile, ocmds, oparams>> /\ oat \in DOMAIN ofile.operations
        /\ oat' \in Nat \ {0}
    <3>1. ofile.operations \in Seq({ofile.operations[i] : i \in DOMAIN ofile.operations})
      BY OpFilesAssumption DEF OpFilesAssumption, OpInv
    <3>2. DOMAIN ofile.operations = 1..Len(ofile.operations)
      BY <3>1
    <3>. QED BY <1>3, <3>2 DEF ReadOperation, OpInv
  <2>2. CASE UNCHANGED <<oops, olabels>>
    BY <2>1, <2>2 DEF OpInv, NamedTwice
  <2>3. CASE /\ oops' = Put(oops, o.name, op)
             /\ olabels' = IF o.labels = <<>> THEN olabels ELSE Put(olabels, o.name, o.labels)
    <3>1. NamedTwice(o.name)
      BY <2>1 DEF NamedTwice
    <3>2. /\ DOMAIN oops' = DOMAIN oops \cup {o.name}
          /\ \A n \in DOMAIN oops : oops'[n] = oops[n]
          /\ o.name \notin DOMAIN oops => oops'[o.name].from = "operation"
      <4>1. op.from = "operation"
        OBVIOUS
      <4>. HIDE DEF op
      <4>. QED BY <2>3, <4>1 DEF Put
    <3>3. /\ DOMAIN olabels' \in {DOMAIN olabels, DOMAIN olabels \cup {o.name}}
          /\ \A n \in DOMAIN olabels : olabels'[n] = olabels[n]
      <4>1. CASE o.labels = <<>>
        BY <2>3, <4>1
      <4>2. CASE o.labels # <<>>
        BY <2>3, <4>2 DEF Put
      <4>. QED BY <4>1, <4>2
    <3>4. \A n : NamedTwice(n)' <=> NamedTwice(n)
      BY <2>1 DEF NamedTwice
    <3>. HIDE DEF o, op
    <3>. QED BY <2>1, <3>1, <3>2, <3>3, <3>4 DEF OpInv
  <2>. QED BY <1>3, <2>2, <2>3 DEF ReadOperation
<1>4. CASE ReadCommand
  <2>. DEFINE c == ofile.commands[oat]
              params == TakenParams(c)
  <2>1. ofile' = ofile /\ oat \in DOMAIN ofile.commands /\ oat' \in Nat \ {0}
    <3>1. ofile.commands \in Seq({ofile.commands[i] : i \in DOMAIN ofile.commands})
      BY OpFilesAssumption DEF OpFilesAssumption, OpInv
    <3>2. DOMAIN ofile.commands = 1..Len(ofile.commands)
      BY <3>1
    <3>. QED BY <1>4, <3>2 DEF ReadCommand, OpInv
  <2>2. \A n : NamedTwice(n)' <=> NamedTwice(n)
    BY <2>1 DEF NamedTwice
  <2>3. CASE UNCHANGED <<oops, oparams, olabels>>
    BY <2>1, <2>2, <2>3 DEF OpInv
  <2>4. /\ \A n \in DOMAIN params : MapOK(params[n])
        /\ DOMAIN oparams \subseteq DOMAIN params
        /\ \A n \in DOMAIN oparams : params[n] = oparams[n]
    <3>1. CASE Complete(c.params) /\ c.params # <<>>
      <4>1. params = Put(oparams, c.name, ByAddress(c.params))
        BY <3>1 DEF TakenParams
      <4>2. MapOK(ByAddress(c.params))
        BY <2>1, <3>1, ParamsOfCommand DEF OpInv
      <4>. HIDE DEF params, c
      <4>. QED BY <4>1, <4>2 DEF OpInv, Put
    <3>2. CASE ~(Complete(c.params) /\ c.params # <<>>)
      <4>1. params = oparams
        BY <3>2 DEF TakenParams
      <4>. QED BY <4>1 DEF OpInv
    <3>. QED BY <3>1, <3>2
  <2>5. CASE oparams' = params /\ UNCHANGED <<oops, olabels>>
    <3>. HIDE DEF params
    <3>. QED BY <2>1, <2>2, <2>4, <2>5 DEF OpInv
  <2>6. ASSUME c.name \in DOMAIN params, oparams' = params,
               oops' = Put(oops, c.name, AsOperation(oat, params[c.name])),
               olabels' = Put(olabels, c.name,
                 [i \in 1..Cardinality(DOMAIN params[c.name]) |->
                    MappedParameters(params[c.name])[i].name])
        PROVE  OpInv'
    <3>1. olabels' = Put(olabels, c.name, LabelsOf(params[c.name]))
      BY <2>6 DEF LabelsOf
    <3>2. LET op == AsOperation(oat, params[c.name])
          IN  /\ op.from = "command" /\ op.base = BaseAddress(params[c.name])
              /\ op.registers = Cardinality(DOMAIN params[c.name])
      BY DEF AsOperation
    <3>. DEFINE op == AsOperation(oat, params[c.name])
    <3>3. /\ DOMAIN oops' = DOMAIN oops \cup {c.name}
          /\ \A n \in DOMAIN oops : oops'[n] = oops[n]
          /\ c.name \notin DOMAIN oops => oops'[c.name] = op
      <4>. HIDE DEF op
      <4>. QED BY <2>6 DEF op, Put
    <3>4. /\ DOMAIN olabels' = DOMAIN olabels \cup {c.name}
          /\ \A n \in DOMAIN olabels : olabels'[n] = olabels[n]
          /\ c.name \notin DOMAIN olabels => olabels'[c.name] = LabelsOf(params[c.name])
      BY <3>1 DEF Put
    <3>5. op.from = "command" /\ op.base = BaseAddress(params[c.name])
          /\ op.registers = Cardinality(DOMAIN params[c.name])
      BY <3>2
    <3>. DEFINE name == c.name
    <3>. HIDE DEF op, params, c
    <3>6. \A n \in DOMAIN oops' :
            /\ oops'[n].from = "operation" => NamedTwice(n)
            /\ oops'[n].from # "operation" =>
                 /\ n \in DOMAIN params
                 /\ oops'[n].registers = Cardinality(DOMAIN params[n])
                 /\ oops'[n].base = BaseAddress(params[n])
                 /\ ~NamedTwice(n) => n \in DOMAIN olabels'
      <4>. TAKE n \in DOMAIN oops'
      <4>1. CASE n \in DOMAIN oops
        BY <2>4, <3>3, <3>4, <4>1 DEF OpInv
      <4>2. CASE n \notin DOMAIN oops
        <5>1. n = c.name /\ oops'[n] = op
          BY <3>3, <4>2
        <5>. QED BY <2>6, <3>4, <3>5, <5>1
      <4>. QED BY <4>1, <4>2
    <3>7. \A n \in DOMAIN olabels' :
            ~NamedTwice(n) => n \in DOMAIN params /\ olabels'[n] = LabelsOf(params[n])
      BY <2>4, <2>6, <3>4 DEF OpInv
    <3>. QED BY <2>1, <2>2, <2>4, <2>6, <3>6, <3>7 DEF OpInv
  <2>. HIDE DEF c, params
  <2>7. \/ UNCHANGED <<oops, oparams, olabels>>
        \/ oparams' = params /\ UNCHANGED <<oops, olabels>>
        \/ /\ c.name \in DOMAIN params /\ oparams' = params
           /\ oops' = Put(oops, c.name, AsOperation(oat, params[c.name]))
           /\ olabels' = Put(olabels, c.name,
                [i \in 1..Cardinality(DOMAIN params[c.name]) |->
                   MappedParameters(params[c.name])[i].name])
    BY <1>4 DEF ReadCommand, c, params
  <2>. QED BY <2>3, <2>5, <2>6, <2>7
<1>. QED BY <1>1, <1>2, <1>3, <1>4 DEF OpNext

(* Addresses that follow one another are taken one by one. *)
LEMMA Consecutive ==
  ASSUME NEW b \in Nat, NEW n \in Nat, NEW f \in [1..n -> b..(b + n - 1)],
         b..(b + n - 1) = {f[i] : i \in 1..n},
         \A i, j \in 1..n : i < j => f[i] < f[j]
  PROVE  \A i \in 1..n : f[i] = b + i - 1
<1>. DEFINE bad == {i \in 1..n : f[i] # b + i - 1}
<1>1. SUFFICES ASSUME bad # {} PROVE FALSE
  OBVIOUS
<1>2. bad \in SUBSET Nat
  OBVIOUS
<1>3. PICK i \in bad : \A j \in bad : i <= j
  BY <1>1, <1>2, LeastOf
<1>4. /\ i \in 1..n /\ f[i] # b + i - 1 /\ f[i] \in b..(b + n - 1)
      /\ \A j \in 1..n : j < i => f[j] = b + j - 1
  <2>1. \A j \in 1..n : j < i => j \notin bad
    BY <1>3
  <2>. QED BY <1>3, <2>1
<1>5. b + i - 1 \in b..(b + n - 1)
  BY <1>4
<1>6. PICK m \in 1..n : f[m] = b + i - 1
  BY <1>5
<1>7. i < m
  <2>1. ~(m < i)
    BY <1>4, <1>6
  <2>2. m # i
    BY <1>4, <1>6
  <2>. QED BY <1>4, <2>1, <2>2
<1>8. f[i] < b + i - 1
  BY <1>4, <1>6, <1>7
<1>. DEFINE k == f[i] - b + 1
<1>9. k \in 1..n /\ k < i /\ k \in Nat
  BY <1>4, <1>8
<1>10. f[k] = f[i]
  BY <1>4, <1>9
<1>11. f[k] < f[i]
  BY <1>4, <1>9
<1>12. f[i] \in Int
  BY <1>4
<1>. QED BY <1>10, <1>11, <1>12

LEMMA OpInvTells == OpInv => LabelsFitRegisters
<1>. SUFFICES ASSUME OpInv, NEW n \in ocmds \cap DOMAIN oops, oops[n].from = "command",
                     ~NamedTwice(n)
              PROVE  /\ Len(olabels[n]) = oops[n].registers
                     /\ Contiguous(oparams[n]) =>
                          \A i \in 1..oops[n].registers :
                            olabels[n][i] = oparams[n][oops[n].base + i - 1].name
  BY DEF LabelsFitRegisters
<1>. DEFINE map == oparams[n]
            k == Cardinality(DOMAIN map)
<1>1. /\ n \in DOMAIN oparams /\ oops[n].registers = k
      /\ oops[n].base = BaseAddress(map) /\ olabels[n] = LabelsOf(map) /\ MapOK(map)
  BY DEF OpInv
<1>. HIDE DEF map
<1>2. k \in Nat
  BY <1>1, FS_CardinalityType DEF MapOK
<1>3. Len(olabels[n]) = k
  BY <1>1, <1>2 DEF LabelsOf
<1>4. ASSUME Contiguous(map), NEW i \in 1..k
      PROVE  olabels[n][i] = map[BaseAddress(map) + i - 1].name
  <2>. DEFINE place == InOrder(DOMAIN map, Ascending(DOMAIN map))
              b == BaseAddress(map)
  <2>1. Arranges(place, DOMAIN map, Ascending(DOMAIN map))
    BY <1>1, AscendingTotal, InOrderArranges DEF MapOK
  <2>2. b \in Nat
    BY <1>1, MinOf DEF BaseAddress, MapOK
  <2>3. DOMAIN map = b..(b + k - 1)
    BY <1>4 DEF Contiguous
  <2>. HIDE DEF place, b
  <2>4. /\ place \in [1..k -> b..(b + k - 1)]
        /\ b..(b + k - 1) = {place[j] : j \in 1..k}
        /\ \A x, y \in 1..k : x < y => place[x] < place[y]
    <3>1. /\ place \in [1..k -> DOMAIN map]
          /\ DOMAIN map = {place[j] : j \in DOMAIN place}
          /\ \A x, y \in DOMAIN place : x < y => <<place[x], place[y]>> \in Ascending(DOMAIN map)
      BY <2>1 DEF Arranges
    <3>. HIDE DEF k
    <3>. QED BY <2>3, <3>1 DEF Ascending
  <2>5. place[i] = b + i - 1 /\ i \in DOMAIN place
    <3>. HIDE DEF k
    <3>. QED BY <1>2, <2>2, <2>4, Consecutive
  <2>6. MappedParameters(map)[i] = map[place[i]]
    BY <2>5 DEF MappedParameters, AtPlaces, place
  <2>. QED BY <1>1, <2>5, <2>6 DEF LabelsOf, b
<1>. QED BY <1>1, <1>3, <1>4 DEF map

-----------------------------------------------------------------------------
(***************************************************************************)
(* The sensor: each section is read once, from the file the sensor is made *)
(* of, and stays; there is a sensor when the options are read if one of    *)
(* the files was a sensor's.                                               *)
(***************************************************************************)

Options == UNION {{options[i] : i \in DOMAIN options} : options \in SensorOptions}

AskedAt(kind, elements) == {i \in DOMAIN elements : Asked(kind, elements[i])}

(* The sections. *)
PluginsRead == splugins = AtPlaces(sfile.plugins, Known(sfile.plugins))
PostsRead == sposts = AtPlaces(sfile.postprocessors,
                               AskedAt("pluginpostprocessor", sfile.postprocessors))
InputsRead == DOMAIN sinputs = 1..Cardinality(AskedAt("plugininput", sfile.inputs))
OutputsRead == \A i \in DOMAIN soutputs : IsList(soutputs[i].names)
CommandsRead ==
  "main" \in DOMAIN scommands =>
    scommands["main"] \in DOMAIN sfile.commands /\ sfile.commands[scommands["main"]] = "main"
PostsAssigned == \A i \in DOMAIN soutputs : soutputs[i].posts = PostprocessorsOf(soutputs[i].names)

Sections == {"plugins", "postprocessors", "inputs", "outputs", "commands", "assign", "create"}
Serving == {"options", "start", "started"}

(* The section that is read at a step and all before it. *)
ReadAt(steps) == sstep \in steps \/ (sensors = {1} /\ sstep \in Serving)

SensorInv ==
  /\ soptions \in Seq(Options) /\ FileOK(sfile)
  /\ sensors \in {{}, {1}} /\ (sensors = {1} => idsensor = 1)
  /\ sstep \in {"load"} \cup Sections => sensors = {}
  /\ sstep \in Sections => sfile.xml = "sensor"
  /\ sensors = {1} /\ sstep \in Serving => sfile.xml = "sensor"
  /\ sstep \in Serving /\ sfile.xml = "sensor" => sensors = {1}
  /\ ReadAt({"postprocessors", "inputs", "outputs", "commands", "assign", "create"}) => PluginsRead
  /\ ReadAt({"inputs", "outputs", "commands", "assign", "create"}) => PostsRead
  /\ ReadAt({"outputs", "commands", "assign", "create"}) => InputsRead
  /\ ReadAt({"commands", "assign", "create"}) => OutputsRead
  /\ ReadAt({"assign", "create"}) => CommandsRead
  /\ ReadAt({"create"}) => PostsAssigned
  /\ srunners # Nobody => sensors = {1} /\ sstep \in {"started", "ending"}
  /\ sstep \in {"start", "started"} /\ sensors = {1} => idsensor \in publisher
  /\ sstep = "started" /\ sensors = {1} =>
       /\ srunners = [i \in DOMAIN sinputs |-> Runner(sinputs[i])]
       /\ srunners # Nobody => "main" \in DOMAIN scommands

LEMMA ListPlaces ==
  ASSUME NEW s, IsList(s)
  PROVE  DOMAIN s \in SUBSET Nat /\ IsFiniteSet(DOMAIN s) /\ DOMAIN s = 1..Len(s)
<1>1. Len(s) \in Nat /\ DOMAIN s = 1..Len(s)
  BY DEF IsList
<1>. QED BY <1>1, FS_Interval

LEMMA PlacesInList ==
  ASSUME NEW s, IsList(s), NEW places \in SUBSET (DOMAIN s)
  PROVE  places \in SUBSET Nat /\ IsFiniteSet(places)
<1>1. DOMAIN s \in SUBSET Nat /\ IsFiniteSet(DOMAIN s)
  BY ListPlaces
<1>. QED BY <1>1, FS_Subset

(* What is created is what the file asks for. *)
LEMMA CreatedAsAsked ==
  ASSUME FileOK(sfile), sfile.xml = "sensor", PluginsRead, NEW kind, NEW elements
  PROVE  Created(kind, elements) = AtPlaces(elements, AskedAt(kind, elements))
<1>. DEFINE plugins == sfile.plugins
<1>1. Known(plugins) \in SUBSET Nat /\ IsFiniteSet(Known(plugins))
  <2>1. IsList(plugins) /\ Known(plugins) \in SUBSET (DOMAIN plugins)
    BY DEF FileOK, Known
  <2>. QED BY <2>1, PlacesInList
<1>2. /\ \A n \in DOMAIN splugins : \E i \in Known(plugins) : splugins[n] = plugins[i]
      /\ \A i \in Known(plugins) : \E n \in DOMAIN splugins : splugins[n] = plugins[i]
  BY <1>1, PlacesOf DEF PluginsRead
<1>3. ASSUME NEW e PROVE CreatedFromPlugins(kind, e) <=> Asked(kind, e)
  BY <1>2 DEF CreatedFromPlugins, Asked, Known
<1>4. {i \in DOMAIN elements : CreatedFromPlugins(kind, elements[i])} = AskedAt(kind, elements)
  BY <1>3 DEF AskedAt
<1>. QED BY <1>4 DEF Created

LEMMA InitSensorInv == SensorInit("options") => SensorInv
<1>. SUFFICES ASSUME SensorInit("options") PROVE SensorInv
  OBVIOUS
<1>1. soptions \in Seq(Options)
  <2>1. soptions \in SensorOptions /\ IsList(soptions)
    BY SensorOptionsAssumption DEF SensorOptionsAssumption, SensorInit
  <2>. DEFINE own == {soptions[i] : i \in DOMAIN soptions}
  <2>2. own \subseteq Options /\ soptions \in Seq(own)
    BY <2>1 DEF Options, IsList
  <2>. HIDE DEF own
  <2>. QED BY <2>2
<1>2. sfile.xml = "none"
  BY DEF SensorInit, NoFile
<1>3. FileOK(sfile)
  BY <1>2 DEF FileOK
<1>. QED BY <1>1, <1>2, <1>3 DEF SensorInit, SensorInv, ReadAt, Sections, Serving, Nobody

LEMMA OptionsTyped == \A o \in Options : FileOK(o.file)
BY SensorOptionsAssumption DEF Options, SensorOptionsAssumption

(* The postprocessors of the names: all that have one of them, name by     *)
(* name.                                                                   *)
LEMMA PostprocessorsFound ==
  ASSUME NEW names, IsList(names), DOMAIN sposts \in SUBSET Nat, IsFiniteSet(DOMAIN sposts),
         NEW posts, posts = PostprocessorsOf(names)
  PROVE  /\ \A j \in DOMAIN names, k \in DOMAIN sposts :
              sposts[k].name = names[j] => \E n \in DOMAIN posts : posts[n] = sposts[k]
         /\ \A m, n \in DOMAIN posts : m < n =>
              \E j, k \in DOMAIN names :
                j <= k /\ names[j] = posts[m].name /\ names[k] = posts[n].name
<1>. DEFINE pairs == {p \in (DOMAIN names) \X (DOMAIN sposts) : sposts[p[2]].name = names[p[1]]}
            pair == InOrder(pairs, NameByName(pairs))
<1>1. posts = [i \in DOMAIN pair |-> sposts[pair[i][2]]]
  BY DEF PostprocessorsOf
<1>2. IsFiniteSet(pairs)
  <2>1. IsFiniteSet((DOMAIN names) \X (DOMAIN sposts))
    BY ListPlaces, FS_Product
  <2>. QED BY <2>1, FS_Subset
<1>3. \A p \in pairs : /\ p = <<p[1], p[2]>> /\ p[1] \in DOMAIN names /\ p[2] \in DOMAIN sposts
                       /\ p[1] \in Nat /\ p[2] \in Nat /\ sposts[p[2]].name = names[p[1]]
  BY ListPlaces
<1>4. \A j \in DOMAIN names, k \in DOMAIN sposts : sposts[k].name = names[j] => <<j, k>> \in pairs
  OBVIOUS
<1>. HIDE DEF pairs
<1>5. TotalOn(NameByName(pairs), pairs)
  <2>1. \A x, y : <<x, y>> \in NameByName(pairs) <=>
          x \in pairs /\ y \in pairs /\ (x[1] < y[1] \/ (x[1] = y[1] /\ x[2] < y[2]))
    BY DEF NameByName
  <2>2. ASSUME NEW x \in pairs, NEW y \in pairs, x # y
        PROVE  <<x, y>> \in NameByName(pairs) \/ <<y, x>> \in NameByName(pairs)
    <3>1. x[1] # y[1] \/ x[2] # y[2]
      BY <1>3, <2>2
    <3>. QED BY <1>3, <2>1, <3>1
  <2>3. ASSUME NEW x \in pairs, NEW y \in pairs, NEW z \in pairs,
               <<x, y>> \in NameByName(pairs), <<y, z>> \in NameByName(pairs)
        PROVE  <<x, z>> \in NameByName(pairs)
    <3>1. /\ x[1] < y[1] \/ (x[1] = y[1] /\ x[2] < y[2])
          /\ y[1] < z[1] \/ (y[1] = z[1] /\ y[2] < z[2])
      BY <2>1, <2>3
    <3>2. x[1] < z[1] \/ (x[1] = z[1] /\ x[2] < z[2])
      BY <1>3, <3>1
    <3>. QED BY <2>1, <3>2
  <2>. QED BY <2>2, <2>3 DEF TotalOn
<1>6. Arranges(pair, pairs, NameByName(pairs)) /\ Cardinality(pairs) \in Nat
  BY <1>2, <1>5, InOrderArranges
<1>. HIDE DEF pair
<1>7. /\ pair \in [1..Cardinality(pairs) -> pairs]
      /\ pairs = {pair[i] : i \in DOMAIN pair}
      /\ \A i, j \in DOMAIN pair : i < j => <<pair[i], pair[j]>> \in NameByName(pairs)
  BY <1>6 DEF Arranges
<1>8. ASSUME NEW j \in DOMAIN names, NEW k \in DOMAIN sposts, sposts[k].name = names[j]
      PROVE  \E n \in DOMAIN posts : posts[n] = sposts[k]
  <2>1. PICK n \in DOMAIN pair : pair[n] = <<j, k>>
    BY <1>4, <1>7, <1>8
  <2>2. pair[n][2] = k
    BY <2>1
  <2>. QED BY <1>1, <2>1, <2>2
<1>9. ASSUME NEW m \in DOMAIN posts, NEW n \in DOMAIN posts, m < n
      PROVE  \E j, k \in DOMAIN names :
               j <= k /\ names[j] = posts[m].name /\ names[k] = posts[n].name
  <2>1. /\ m \in DOMAIN pair /\ n \in DOMAIN pair
        /\ posts[m] = sposts[pair[m][2]] /\ posts[n] = sposts[pair[n][2]]
    BY <1>1
  <2>2. pair[m] \in pairs /\ pair[n] \in pairs
    BY <1>7, <2>1
  <2>3. <<pair[m], pair[n]>> \in NameByName(pairs)
    BY <1>7, <1>9, <2>1
  <2>. DEFINE x == pair[m]
              y == pair[n]
  <2>4. x[1] < y[1] \/ (x[1] = y[1] /\ x[2] < y[2])
    BY <2>3 DEF NameByName
  <2>5. x[1] <= y[1]
    BY <1>3, <2>2, <2>4
  <2>6. /\ x[1] \in DOMAIN names /\ names[x[1]] = posts[m].name
        /\ y[1] \in DOMAIN names /\ names[y[1]] = posts[n].name
    BY <1>3, <2>1, <2>2
  <2>. QED BY <2>5, <2>6
<1>. QED BY <1>8, <1>9

(* What does not touch the file and the sensor's elements keeps what was   *)
(* read.                                                                   *)
AllRead == PluginsRead /\ PostsRead /\ InputsRead /\ OutputsRead /\ CommandsRead /\ PostsAssigned

LEMMA SamePosts == ASSUME sposts' = sposts, NEW n
                   PROVE  PostprocessorsOf(n)' = PostprocessorsOf(n)
BY DEF PostprocessorsOf

LEMMA ReadKept ==
  ASSUME UNCHANGED <<sfile, parsed>>
  PROVE  /\ PluginsRead' = PluginsRead /\ PostsRead' = PostsRead /\ InputsRead' = InputsRead
         /\ OutputsRead' = OutputsRead /\ CommandsRead' = CommandsRead
         /\ PostsAssigned' = PostsAssigned
<1>1. PostsAssigned' = PostsAssigned
  BY SamePosts DEF PostsAssigned, parsed
<1>. QED BY <1>1 DEF parsed, PluginsRead, PostsRead, InputsRead, OutputsRead, CommandsRead,
                     AskedAt, Asked

LEMMA StepSensorInv == SensorInv /\ [SensorNext]_sensorVars => SensorInv'
<1>. SUFFICES ASSUME SensorInv, [SensorNext]_sensorVars PROVE SensorInv'
  OBVIOUS
<1>. USE DEF SensorInv, ReadAt, Sections, Serving
<1>1. CASE UNCHANGED sensorVars
  <2>1. UNCHANGED <<sfile, parsed>> /\ \A i : Runner(i)' = Runner(i)
    BY <1>1 DEF sensorVars, parsed, Runner
  <2>. QED BY <1>1, <2>1, ReadKept DEF sensorVars
<1>2. CASE SetOption
  <2>. DEFINE o == Head(soptions)
  <2>1. o \in Options /\ soptions' \in Seq(Options) /\ FileOK(o.file)
    BY <1>2, OptionsTyped DEF SetOption
  <2>2. srunners = Nobody /\ srunners' = Nobody /\ sensors' = sensors /\ idsensor' = idsensor
    BY <1>2 DEF SetOption
  <2>3. CASE UNCHANGED <<sstep, sfile>>
    <3>1. UNCHANGED <<sfile, parsed>>
      BY <1>2, <2>3 DEF SetOption
    <3>. QED BY <1>2, <2>1, <2>2, <2>3, <3>1, ReadKept DEF SetOption
  <2>4. CASE sensors = {} /\ sstep' = "load" /\ sfile' = o.file
    BY <2>1, <2>2, <2>4
  <2>. HIDE DEF o
  <2>. QED BY <1>2, <2>3, <2>4 DEF SetOption, InitESPLib, o
<1>3. CASE LoadFromFile
  BY <1>3 DEF LoadFromFile
<1>4. CASE ParsePlugins
  <2>1. sstep' = "crashed" \/ (sstep' = "postprocessors" /\ PluginsRead')
    BY <1>4 DEF ParsePlugins, PluginsRead
  <2>. QED BY <1>4, <2>1 DEF ParsePlugins
<1>5. CASE ParsePostprocessors
  <2>1. PluginsRead /\ FileOK(sfile) /\ sfile.xml = "sensor" /\ PluginsRead'
    BY <1>5 DEF ParsePostprocessors, PluginsRead
  <2>2. sposts' = AtPlaces(sfile.postprocessors,
                           AskedAt("pluginpostprocessor", sfile.postprocessors))
    BY <1>5, <2>1, CreatedAsAsked DEF ParsePostprocessors
  <2>3. PostsRead'
    BY <1>5, <2>2 DEF ParsePostprocessors, PostsRead, AskedAt, Asked
  <2>. QED BY <1>5, <2>1, <2>3 DEF ParsePostprocessors
<1>6. CASE ParseInputs
  <2>. DEFINE made == Created("plugininput", sfile.inputs)
              places == AskedAt("plugininput", sfile.inputs)
  <2>1. PluginsRead /\ PostsRead /\ FileOK(sfile) /\ sfile.xml = "sensor"
    BY <1>6 DEF ParseInputs
  <2>2. PluginsRead' /\ PostsRead'
    BY <1>6, <2>1 DEF ParseInputs, PluginsRead, PostsRead, AskedAt, Asked
  <2>3. made = AtPlaces(sfile.inputs, places)
    BY <2>1, CreatedAsAsked
  <2>4. places \in SUBSET Nat /\ IsFiniteSet(places)
    BY <2>1, PlacesInList DEF FileOK, AskedAt
  <2>5. DOMAIN made = 1..Cardinality(places)
    BY <2>3, <2>4, PlacesOf
  <2>6. DOMAIN sinputs' = DOMAIN made
    BY <1>6 DEF ParseInputs
  <2>7. InputsRead'
    BY <1>6, <2>5, <2>6 DEF ParseInputs, InputsRead, AskedAt, Asked
  <2>. QED BY <1>6, <2>2, <2>7 DEF ParseInputs
<1>7. CASE ParseOutputs
  <2>. DEFINE made == Created("pluginoutput", sfile.outputs)
              places == AskedAt("pluginoutput", sfile.outputs)
  <2>1. PluginsRead /\ PostsRead /\ InputsRead /\ FileOK(sfile) /\ sfile.xml = "sensor"
    BY <1>7 DEF ParseOutputs
  <2>2. PluginsRead' /\ PostsRead' /\ InputsRead'
    BY <1>7, <2>1 DEF ParseOutputs, PluginsRead, PostsRead, InputsRead, AskedAt, Asked
  <2>3. made = AtPlaces(sfile.outputs, places)
    BY <2>1, CreatedAsAsked
  <2>4. places \in SUBSET Nat /\ IsFiniteSet(places) /\ places \subseteq DOMAIN sfile.outputs
    <3>1. IsList(sfile.outputs) /\ places \in SUBSET (DOMAIN sfile.outputs)
      BY <2>1 DEF FileOK, AskedAt
    <3>. HIDE DEF places
    <3>2. places \in SUBSET Nat /\ IsFiniteSet(places)
      BY <3>1, PlacesInList
    <3>. QED BY <3>1, <3>2
  <2>5. \A n \in DOMAIN made : \E i \in places : made[n] = sfile.outputs[i]
    BY <2>3, <2>4, PlacesOf
  <2>6. \A n \in DOMAIN made : IsList(made[n].names)
    BY <2>1, <2>4, <2>5 DEF FileOK
  <2>7. soutputs' = [i \in DOMAIN made |-> Output(made[i])]
    BY <1>7 DEF ParseOutputs
  <2>. HIDE DEF made
  <2>8. \A i \in DOMAIN soutputs' : soutputs'[i].names = made[i].names /\ i \in DOMAIN made
    BY <2>7 DEF Output
  <2>9. OutputsRead'
    BY <2>6, <2>8 DEF OutputsRead
  <2>. QED BY <1>7, <2>2, <2>9 DEF ParseOutputs
<1>8. CASE ParseCommands
  <2>1. PluginsRead /\ PostsRead /\ InputsRead /\ OutputsRead /\ FileOK(sfile) /\ sfile.xml = "sensor"
    BY <1>8 DEF ParseCommands
  <2>2. PluginsRead' /\ PostsRead' /\ InputsRead' /\ OutputsRead'
    BY <1>8, <2>1 DEF ParseCommands, PluginsRead, PostsRead, InputsRead, OutputsRead, AskedAt, Asked
  <2>3. CommandsRead'
    <3>. DEFINE commands == sfile.commands
                First(n, i) == /\ commands[i] = n
                               /\ \A j \in 1..(i - 1) : commands[j] # n
                there == {i \in DOMAIN commands : commands[i] = "main"}
    <3>1. SUFFICES ASSUME "main" \in DOMAIN scommands'
                   PROVE  /\ scommands'["main"] \in DOMAIN commands
                          /\ commands[scommands'["main"]] = "main"
      BY <1>8 DEF ParseCommands, CommandsRead
    <3>2. scommands' = [n \in ToSet(commands) |-> CHOOSE i \in DOMAIN commands : First(n, i)]
      BY <1>8 DEF ParseCommands
    <3>3. DOMAIN commands \in SUBSET Nat /\ DOMAIN commands = 1..Len(commands)
      BY <2>1, ListPlaces DEF FileOK
    <3>4. there # {} /\ there \in SUBSET Nat
      BY <3>1, <3>2, <3>3 DEF ToSet
    <3>5. PICK i \in there : \A j \in there : i <= j
      BY <3>4, LeastOf
    <3>6. \A j \in 1..(i - 1) : commands[j] # "main"
      <4>. TAKE j \in 1..(i - 1)
      <4>1. i \in Nat /\ ~(i <= j)
        BY <3>4, <3>5
      <4>2. j \in DOMAIN commands
        BY <3>3, <3>5, <4>1
      <4>. QED BY <3>5, <4>1, <4>2
    <3>7. \E k \in DOMAIN commands : First("main", k)
      BY <3>5, <3>6
    <3>8. scommands'["main"] = CHOOSE k \in DOMAIN commands : First("main", k)
      BY <3>1, <3>2
    <3>. QED BY <3>7, <3>8
  <2>. QED BY <1>8, <2>2, <2>3 DEF ParseCommands
<1>9. CASE AssignPostprocessors
  <2>1. PluginsRead /\ PostsRead /\ InputsRead /\ OutputsRead /\ CommandsRead
    BY <1>9 DEF AssignPostprocessors
  <2>2. PluginsRead' /\ PostsRead' /\ InputsRead' /\ CommandsRead'
    BY <1>9, <2>1 DEF AssignPostprocessors, PluginsRead, PostsRead, InputsRead, CommandsRead,
                      AskedAt, Asked
  <2>3. DOMAIN soutputs' = DOMAIN soutputs
    BY <1>9 DEF AssignPostprocessors
  <2>4. ASSUME NEW i \in DOMAIN soutputs'
        PROVE  /\ IsList(soutputs'[i].names)
               /\ soutputs'[i].posts = PostprocessorsOf(soutputs'[i].names)
    <3>. DEFINE o == soutputs[i]
    <3>1. i \in DOMAIN soutputs /\ IsList(o.names)
      BY <2>1, <2>3, <2>4 DEF OutputsRead
    <3>2. soutputs'[i] = [o EXCEPT !.posts = PostprocessorsOf(o.names)]
      BY <1>9, <3>1 DEF AssignPostprocessors
    <3>. QED BY <3>1, <3>2
  <2>5. OutputsRead' /\ PostsAssigned'
    <3>1. \A n : PostprocessorsOf(n)' = PostprocessorsOf(n)
      BY <1>9, SamePosts DEF AssignPostprocessors
    <3>. QED BY <2>4, <3>1 DEF OutputsRead, PostsAssigned
  <2>. QED BY <1>9, <2>2, <2>5 DEF AssignPostprocessors
<1>10. ASSUME AllRead, UNCHANGED <<sfile, parsed>> PROVE AllRead'
  BY <1>10, ReadKept DEF AllRead
<1>11. CASE CreateSensor
  <2>1. AllRead /\ AllRead'
    <3>1. AllRead
      BY <1>11 DEF CreateSensor, AllRead
    <3>. QED BY <1>10, <1>11, <3>1 DEF CreateSensor
  <2>. QED BY <1>11, <2>1 DEF CreateSensor, AllRead
<1>12. sensors = {1} /\ sstep \in Serving => AllRead
  BY DEF AllRead
<1>13. CASE StartService
  <2>1. sensors = {1} => AllRead'
    BY <1>10, <1>12, <1>13 DEF StartService
  <2>2. sensors = {1} => idsensor \in publisher'
    BY <1>13 DEF StartService, PublisherSet, HasSensor
  <2>. QED BY <1>13, <2>1, <2>2 DEF StartService, AllRead
<1>14. CASE StartESP
  <2>1. sensors = {1} => AllRead'
    BY <1>10, <1>12, <1>14 DEF StartESP
  <2>2. srunners = Nobody
    BY <1>14 DEF StartESP
  <2>3. CASE HasSensor /\ Run
    <3>1. sensors = {1}
      BY <2>3 DEF HasSensor
    <3>2. CASE sstep' = "crashed" /\ UNCHANGED srunners
      BY <1>14, <2>2, <3>1, <3>2 DEF StartESP
    <3>3. CASE /\ ~(sinputs # <<>> /\ "main" \notin DOMAIN scommands)
               /\ srunners' = [i \in DOMAIN sinputs |-> Runner(sinputs[i])]
               /\ sstep' = "started"
      <4>1. srunners' # Nobody => "main" \in DOMAIN scommands
        <5>1. ASSUME sinputs = <<>> PROVE srunners' = Nobody
          BY <3>3, <5>1 DEF Nobody
        <5>. QED BY <3>3, <5>1
      <4>2. srunners' = [i \in DOMAIN sinputs |-> Runner(sinputs[i])]'
        BY <1>14, <3>3 DEF StartESP, parsed, Runner
      <4>. QED BY <1>14, <2>1, <3>1, <3>3, <4>1, <4>2 DEF StartESP, AllRead, parsed
    <3>. QED BY <2>3, <3>2, <3>3 DEF Run
  <2>4. CASE ~HasSensor /\ sstep' = "started" /\ UNCHANGED srunners
    <3>1. sensors = {}
      BY <2>4 DEF HasSensor
    <3>. QED BY <1>14, <2>2, <2>4, <3>1 DEF StartESP
  <2>. QED BY <1>14, <2>3, <2>4 DEF StartESP
<1>15. CASE DeletePublisher
  BY <1>15 DEF DeletePublisher
<1>16. CASE ResetESPSensor
  <2>1. sensors' = {} /\ sstep' = "ended" /\ UNCHANGED <<soptions, sfile>>
    BY <1>16 DEF ResetESPSensor
  <2>2. srunners' = Nobody
    BY <1>16 DEF ResetESPSensor
  <2>. QED BY <2>1, <2>2
<1>. QED BY <1>1, <1>2, <1>3, <1>4, <1>5, <1>6, <1>7, <1>8, <1>9, <1>11, <1>13, <1>14, <1>15,
            <1>16 DEF SensorNext

LEMMA SensorInvTells == SensorInv => RunsAsWritten /\ RunnersServed
<1>. SUFFICES ASSUME SensorInv PROVE RunsAsWritten /\ RunnersServed
  OBVIOUS
<1>1. RunnersServed
  BY DEF SensorInv, RunnersServed, Serving
<1>2. ASSUME sstep = "started", idsensor \in sensors
      PROVE  /\ Len(srunners) =
                  Cardinality({i \in DOMAIN sfile.inputs : Asked("plugininput", sfile.inputs[i])})
             /\ \A i \in DOMAIN srunners : sfile.commands[srunners[i].command] = "main"
             /\ \A i \in DOMAIN soutputs :
                  LET o == soutputs[i] IN
                  /\ \A j \in DOMAIN o.names, k \in DOMAIN sfile.postprocessors :
                       k \in AskedPosts(o.names[j]) =>
                         \E n \in DOMAIN o.posts : o.posts[n] = sfile.postprocessors[k]
                  /\ \A m, n \in DOMAIN o.posts : m < n =>
                       \E j, k \in DOMAIN o.names :
                         j <= k /\ o.names[j] = o.posts[m].name /\ o.names[k] = o.posts[n].name
  <2>1. sensors = {1} /\ sfile.xml = "sensor" /\ FileOK(sfile)
    BY <1>2 DEF SensorInv, Serving
  <2>2. PluginsRead /\ PostsRead /\ InputsRead /\ OutputsRead /\ CommandsRead /\ PostsAssigned
    BY <1>2, <2>1 DEF SensorInv, ReadAt, Serving
  <2>3. /\ srunners = [i \in DOMAIN sinputs |-> Runner(sinputs[i])]
        /\ srunners # Nobody => "main" \in DOMAIN scommands
    BY <1>2, <2>1 DEF SensorInv
  <2>. DEFINE places == AskedAt("plugininput", sfile.inputs)
              shown == AskedAt("pluginpostprocessor", sfile.postprocessors)
  <2>4. Cardinality(places) \in Nat
    <3>1. places \in SUBSET (DOMAIN sfile.inputs) /\ IsList(sfile.inputs)
      BY <2>1 DEF AskedAt, FileOK
    <3>2. IsFiniteSet(places)
      BY <3>1, PlacesInList
    <3>. QED BY <3>2, FS_CardinalityType
  <2>5. Len(srunners) = Cardinality(places)
    <3>1. DOMAIN sinputs = 1..Cardinality(places)
      BY <2>2 DEF InputsRead
    <3>. HIDE DEF places
    <3>. QED BY <2>3, <2>4, <3>1
  <2>6. ASSUME NEW i \in DOMAIN srunners PROVE sfile.commands[srunners[i].command] = "main"
    <3>1. srunners # Nobody
      BY <2>6 DEF Nobody
    <3>2. srunners[i].command = scommands["main"]
      BY <2>3, <2>6 DEF Runner
    <3>. QED BY <2>2, <2>3, <3>1, <3>2 DEF CommandsRead
  <2>7. shown \in SUBSET Nat /\ IsFiniteSet(shown)
    <3>1. shown \in SUBSET (DOMAIN sfile.postprocessors) /\ IsList(sfile.postprocessors)
      BY <2>1 DEF AskedAt, FileOK
    <3>. QED BY <3>1, PlacesInList
  <2>8. /\ DOMAIN sposts = 1..Cardinality(shown) /\ Cardinality(shown) \in Nat
        /\ \A i \in shown : \E n \in DOMAIN sposts : sposts[n] = sfile.postprocessors[i]
    BY <2>2, <2>7, PlacesOf DEF PostsRead
  <2>9. DOMAIN sposts \in SUBSET Nat /\ IsFiniteSet(DOMAIN sposts)
    BY <2>8, FS_Interval
  <2>10. ASSUME NEW i \in DOMAIN soutputs
         PROVE  LET o == soutputs[i] IN
                  /\ \A j \in DOMAIN o.names, k \in DOMAIN sfile.postprocessors :
                       k \in AskedPosts(o.names[j]) =>
                         \E n \in DOMAIN o.posts : o.posts[n] = sfile.postprocessors[k]
                  /\ \A m, n \in DOMAIN o.posts : m < n =>
                       \E j, k \in DOMAIN o.names :
                         j <= k /\ o.names[j] = o.posts[m].name /\ o.names[k] = o.posts[n].name
    <3>. DEFINE names == soutputs[i].names
                posts == soutputs[i].posts
    <3>1. posts = PostprocessorsOf(names) /\ IsList(names)
      BY <2>2, <2>10 DEF PostsAssigned, OutputsRead
    <3>. HIDE DEF names, posts
    <3>2. /\ \A j \in DOMAIN names, k \in DOMAIN sposts :
              sposts[k].name = names[j] => \E n \in DOMAIN posts : posts[n] = sposts[k]
          /\ \A m, n \in DOMAIN posts : m < n =>
              \E j, k \in DOMAIN names :
                j <= k /\ names[j] = posts[m].name /\ names[k] = posts[n].name
      BY <2>9, <3>1, PostprocessorsFound
    <3>3. ASSUME NEW j \in DOMAIN names, NEW k \in DOMAIN sfile.postprocessors,
                 k \in AskedPosts(names[j])
          PROVE  \E n \in DOMAIN posts : posts[n] = sfile.postprocessors[k]
      <4>1. k \in shown /\ sfile.postprocessors[k].name = names[j]
        BY <3>3 DEF AskedPosts, AskedAt
      <4>2. PICK q \in DOMAIN sposts : sposts[q] = sfile.postprocessors[k]
        BY <2>8, <4>1
      <4>. QED BY <3>2, <4>1, <4>2
    <3>. QED BY <3>2, <3>3 DEF names, posts
  <2>. QED BY <2>5, <2>6, <2>10 DEF AskedAt
<1>. QED BY <1>1, <1>2 DEF RunsAsWritten

(* What a plugin reads from its files at the start is what it works with,  *)
(* whatever the files and the options are: the labels of a Modbus          *)
(* operation fit its registers (Modbus.cc, modbus_operations.cc), and the  *)
(* MQTT sensor has the runners and the postprocessors its file asks for    *)
(* (TDA.cpp, ESPLib.cpp, MqttService.cc).                                  *)
THEOREM FilesAreRead == FilesSpec => []FilesAsWritten
<1>1. OpInit("operations") /\ SensorInit("options") => OpInv /\ SensorInv
  BY InitOpInv, InitSensorInv
<1>2. OpInv /\ [OpNext]_opVars => OpInv'
  BY StepOpInv
<1>3. SensorInv /\ [SensorNext]_sensorVars => SensorInv'
  BY StepSensorInv
<1>4. OpInv /\ SensorInv => FilesAsWritten
  BY OpInvTells, SensorInvTells DEF FilesAsWritten
<1>. QED BY <1>1, <1>2, <1>3, <1>4, PTL DEF FilesSpec

-----------------------------------------------------------------------------
(* The n-th of finitely many numbers is one of them, and they ascend. *)

LEMMA NthOne ==
  ASSUME NEW S \in SUBSET Nat, IsFiniteSet(S), NEW n \in 1..Cardinality(S)
  PROVE  Nth(S, n) \in S /\ Cardinality({q \in S : q <= Nth(S, n)}) = n
<1>. DEFINE k == Cardinality(S)
<1>1. k \in Nat
  BY FS_CardinalityType
<1>2. PICK f : Arranges(f, S, Ascending(S))
  BY AscendingTotal, ArrangedExists
<1>3. /\ f \in [1..k -> S] /\ S = {f[i] : i \in 1..k}
      /\ \A i, j \in 1..k : i < j => f[i] < f[j]
  <2>1. DOMAIN f = 1..k
    BY <1>2 DEF Arranges
  <2>2. \A i, j \in 1..k : i < j => <<f[i], f[j]>> \in Ascending(S)
    BY <1>2, <2>1 DEF Arranges
  <2>3. \A i, j \in 1..k : i < j => f[i] < f[j]
    BY <2>2 DEF Ascending
  <2>. QED BY <1>2, <2>1, <2>3 DEF Arranges
<1>. DEFINE up == {q \in S : q <= f[n]}
            g == [i \in 1..n |-> f[i]]
<1>. HIDE DEF k
<1>4. n \in 1..k /\ n \in Nat
  BY <1>1 DEF k
<1>5. \A i \in 1..k : f[i] \in Nat /\ (f[i] <= f[n] <=> i <= n)
  <2>. TAKE i \in 1..k
  <2>1. f[i] \in Nat /\ f[n] \in Nat
    BY <1>3, <1>4
  <2>2. CASE i < n
    BY <1>3, <1>4, <2>1, <2>2
  <2>3. CASE n < i
    BY <1>3, <1>4, <2>1, <2>3
  <2>4. CASE i = n
    BY <2>1, <1>4, <2>4
  <2>. QED BY <1>1, <1>4, <2>2, <2>3, <2>4
<1>6. g \in Bijection(1..n, up)
  <2>1. \A i \in 1..n : i \in 1..k /\ g[i] = f[i] /\ f[i] \in up
    <3>. TAKE i \in 1..n
    <3>1. i \in 1..k /\ i <= n
      BY <1>1, <1>4
    <3>2. f[i] \in S /\ f[i] <= f[n]
      BY <1>3, <1>5, <3>1
    <3>. QED BY <3>1, <3>2
  <2>2. \A x \in up : \E i \in 1..n : x = g[i]
    <3>. TAKE x \in up
    <3>1. PICK i \in 1..k : x = f[i]
      BY <1>3
    <3>2. i \in 1..n
      BY <1>1, <1>4, <1>5, <3>1
    <3>. QED BY <3>1, <3>2
  <2>3. \A i, j \in 1..n : i # j => g[i] # g[j]
    <3>. TAKE i, j \in 1..n
    <3>. HAVE i # j
    <3>1. i < j \/ j < i
      BY <1>4
    <3>2. f[i] < f[j] \/ f[j] < f[i]
      BY <1>3, <2>1, <3>1
    <3>3. f[i] \in Nat /\ f[j] \in Nat
      BY <1>5, <2>1
    <3>. QED BY <2>1, <3>2, <3>3
  <2>4. g \in [1..n -> up]
    BY <2>1
  <2>. HIDE DEF g, up
  <2>5. g \in Injection(1..n, up)
    BY <2>3, <2>4 DEF Injection, IsInjective
  <2>6. g \in Surjection(1..n, up)
    BY <2>2, <2>4 DEF Surjection
  <2>. QED BY <2>5, <2>6 DEF Bijection
<1>7. Cardinality(up) = n
  <2>1. IsFiniteSet(1..n) /\ Cardinality(1..n) = n
    BY <1>4, FS_Interval
  <2>2. ExistsBijection(1..n, up)
    BY <1>6 DEF ExistsBijection
  <2>. QED BY <2>1, <2>2, FS_Bijection
<1>8. \E p \in S : Cardinality({q \in S : q <= p}) = n
  BY <1>3, <1>4, <1>7
<1>. QED BY <1>8 DEF Nth

LEMMA NthAscend ==
  ASSUME NEW S \in SUBSET Nat, IsFiniteSet(S), NEW n \in 1..(Cardinality(S) - 1)
  PROVE  Nth(S, n) \in S /\ Nth(S, n + 1) \in S /\ Nth(S, n) < Nth(S, n + 1)
<1>1. Cardinality(S) \in Nat
  BY FS_CardinalityType
<1>2. n \in 1..Cardinality(S) /\ n + 1 \in 1..Cardinality(S)
  BY <1>1
<1>. DEFINE a == Nth(S, n)
            b == Nth(S, n + 1)
            A == {q \in S : q <= a}
            B == {q \in S : q <= b}
<1>3. a \in S /\ Cardinality(A) = n
  BY <1>2, NthOne
<1>4. b \in S /\ Cardinality(B) = n + 1
  BY <1>2, NthOne
<1>5. ASSUME b <= a PROVE FALSE
  <2>1. B \in SUBSET A
    <3>1. a \in Nat /\ b \in Nat
      BY <1>3, <1>4
    <3>. HIDE DEF a, b
    <3>2. \A q \in S : q <= b => q <= a
      BY <1>5, <3>1
    <3>. QED BY <3>2
  <2>2. IsFiniteSet(A)
    BY FS_Subset
  <2>3. Cardinality(B) <= Cardinality(A)
    BY <2>1, <2>2, FS_Subset
  <2>. QED BY <1>2, <1>3, <1>4, <2>3
<1>6. a \in Nat /\ b \in Nat
  BY <1>3, <1>4
<1>. HIDE DEF a, b
<1>7. a < b
  BY <1>5, <1>6
<1>. QED BY <1>3, <1>4, <1>7 DEF a, b

(* What is between separators. *)
LEMMA TokensTyped ==
  ASSUME NEW S, NEW str \in Seq(S), NEW sep, NEW tokens, tokens = riot_tokenizer(str, sep)
  PROVE  /\ Len(tokens) \in Nat /\ DOMAIN tokens = 1..Len(tokens)
         /\ \A i \in 1..Len(tokens) : tokens[i] \in Seq(S)
<1>. DEFINE L == Len(str)
            cuts == {0, L + 1} \cup {i \in 1..L : str[i] = sep}
            k == Cardinality(cuts)
<1>1. L \in Nat
  OBVIOUS
<1>2. cuts \in SUBSET (0..(L + 1)) /\ cuts \in SUBSET Nat
  BY <1>1
<1>3. IsFiniteSet(cuts) /\ k \in Nat /\ k >= 1
  <2>1. IsFiniteSet(0..(L + 1))
    BY <1>1, FS_Interval
  <2>2. IsFiniteSet(cuts)
    BY <1>2, <2>1, FS_Subset
  <2>3. k \in Nat /\ k # 0
    BY <2>2, FS_CardinalityType, FS_EmptySet
  <2>. QED BY <2>2, <2>3
<1>4. tokens = [i \in 1..(k - 1) |-> SubSeq(str, Nth(cuts, i) + 1, Nth(cuts, i + 1) - 1)]
  BY DEF riot_tokenizer
<1>. HIDE DEF cuts, k
<1>5. ASSUME NEW i \in 1..(k - 1)
      PROVE  SubSeq(str, Nth(cuts, i) + 1, Nth(cuts, i + 1) - 1) \in Seq(S)
  <2>. DEFINE a == Nth(cuts, i) + 1
              b == Nth(cuts, i + 1) - 1
  <2>1. Nth(cuts, i) \in cuts /\ Nth(cuts, i + 1) \in cuts
    BY <1>2, <1>3, <1>5, NthAscend DEF k
  <2>2. a \in Int /\ b \in Int /\ 1 <= a /\ b <= L
    <3>1. Nth(cuts, i) \in 0..(L + 1) /\ Nth(cuts, i + 1) \in 0..(L + 1)
      BY <1>2, <2>1
    <3>. QED BY <1>1, <3>1
  <2>. HIDE DEF a, b
  <2>3. \A j \in a..b : str[j] \in S
    BY <1>1, <2>2
  <2>4. SubSeq(str, a, b) \in Seq(S)
    BY <2>2, <2>3, SubSeqProperties
  <2>. QED BY <2>4 DEF a, b
<1>6. Len(tokens) = k - 1
  BY <1>3, <1>4
<1>7. k - 1 \in Nat
  BY <1>3
<1>8. DOMAIN tokens = 1..(k - 1) /\ \A i \in 1..(k - 1) : tokens[i] \in Seq(S)
  BY <1>4, <1>5
<1>. QED BY <1>6, <1>7, <1>8

-----------------------------------------------------------------------------
(* What is read of texts is a text, and what is read from a place on is    *)
(* the text of the place and what is read from the next one on.            *)

Reads(w, texts, next) ==
  w = [i \in 1..(Len(texts) + 1) |->
         IF i > Len(texts) THEN <<>> ELSE texts[i] \o w[next[i]]]

LEMMA ReadsExists ==
  ASSUME NEW S, NEW texts \in Seq(Seq(S)), NEW next \in [1..Len(texts) -> 1..(Len(texts) + 1)],
         \A i \in 1..Len(texts) : i < next[i]
  PROVE  \E w : Reads(w, texts, next)
<1>. DEFINE N == Len(texts)
            Upto(w, k) == /\ w \in [1..(N + 1) -> Seq(S)] /\ w[N + 1] = <<>>
                          /\ \A i \in 1..N : N - k < i => w[i] = texts[i] \o w[next[i]]
            bad == {k \in 0..N : ~\E w : Upto(w, k)}
<1>1. /\ N \in Nat /\ \A i \in 1..N : /\ texts[i] \in Seq(S) /\ i < next[i]
                                     /\ next[i] \in 1..(N + 1)
  OBVIOUS
<1>. HIDE DEF N
<1>2. bad = {}
  <2>1. SUFFICES ASSUME bad # {} PROVE FALSE
    OBVIOUS
  <2>2. bad \in SUBSET Nat
    <3>. HIDE DEF Upto
    <3>. QED BY <1>1
  <2>3. PICK k \in bad : \A m \in bad : k <= m
    <3>. HIDE DEF bad
    <3>. QED BY <2>1, <2>2, LeastOf
  <2>4. k \in 0..N /\ ~\E w : Upto(w, k)
    BY <2>3
  <2>5. CASE k = 0
    <3>. DEFINE w == [i \in 1..(N + 1) |-> <<>>]
    <3>1. w \in [1..(N + 1) -> Seq(S)] /\ w[N + 1] = <<>>
      BY <1>1
    <3>2. \A i \in 1..N : ~(N - 0 < i)
      BY <1>1
    <3>3. Upto(w, 0)
      BY <3>1, <3>2
    <3>. QED BY <2>4, <2>5, <3>3
  <2>6. CASE k # 0
    <3>1. k - 1 \in 0..N /\ ~(k <= k - 1)
      BY <1>1, <2>4, <2>6
    <3>2. k - 1 \notin bad
      BY <2>3, <3>1
    <3>3. PICK w : Upto(w, k - 1)
      BY <3>1, <3>2
    <3>. DEFINE p == N - k + 1
                v == [w EXCEPT ![p] = texts[p] \o w[next[p]]]
    <3>4. p \in 1..N
      BY <1>1, <2>4, <2>6
    <3>5. next[p] \in 1..(N + 1) /\ texts[p] \in Seq(S)
      BY <1>1, <3>4
    <3>6. texts[p] \o w[next[p]] \in Seq(S)
      <4>1. w[next[p]] \in Seq(S)
        BY <3>3, <3>5
      <4>. QED BY <3>5, <4>1, ConcatProperties
    <3>7. /\ v \in [1..(N + 1) -> Seq(S)]
          /\ v[p] = texts[p] \o w[next[p]]
          /\ \A i \in 1..(N + 1) : i # p => v[i] = w[i]
      <4>1. w \in [1..(N + 1) -> Seq(S)] /\ p \in 1..(N + 1)
        BY <1>1, <3>3, <3>4
      <4>. HIDE DEF p
      <4>. QED BY <3>6, <4>1
    <3>. HIDE DEF v
    <3>8. v[N + 1] = <<>>
      <4>1. N + 1 # p /\ N + 1 \in 1..(N + 1) /\ w[N + 1] = <<>>
        BY <1>1, <3>3, <3>4
      <4>. HIDE DEF p
      <4>. QED BY <3>7, <4>1
    <3>9. ASSUME NEW i \in 1..N, N - k < i
          PROVE  v[i] = texts[i] \o v[next[i]]
      <4>1. next[i] \in 1..(N + 1) /\ i < next[i]
        BY <1>1
      <4>2. next[i] # p /\ v[next[i]] = w[next[i]]
        BY <1>1, <2>4, <3>4, <3>7, <3>9, <4>1
      <4>3. CASE i = p
        BY <3>7, <4>2, <4>3
      <4>4. CASE i # p
        <5>1. N - (k - 1) < i
          <6>1. N \in Nat /\ k \in Nat /\ i \in Nat /\ i # N - k + 1
            BY <1>1, <2>4, <4>4
          <6>. QED BY <3>9, <6>1
        <5>2. w[i] = texts[i] \o w[next[i]]
          BY <3>3, <5>1
        <5>3. v[i] = w[i]
          BY <1>1, <3>7, <4>4
        <5>. QED BY <4>2, <5>2, <5>3
      <4>. QED BY <4>3, <4>4
    <3>10. Upto(v, k)
      BY <3>7, <3>8, <3>9
    <3>. QED BY <2>4, <3>10
  <2>. QED BY <2>5, <2>6
<1>3. N \in 0..N
  BY <1>1
<1>4. PICK w : Upto(w, N)
  BY <1>2, <1>3
<1>5. \A i \in 1..(N + 1) : w[i] = IF i > N THEN <<>> ELSE texts[i] \o w[next[i]]
  <2>. TAKE i \in 1..(N + 1)
  <2>1. CASE i = N + 1
    BY <1>1, <1>4, <2>1
  <2>2. CASE i \in 1..N
    <3>1. N - N < i /\ ~(i > N)
      BY <1>1, <2>2
    <3>. QED BY <1>4, <2>2, <3>1
  <2>. QED BY <1>1, <2>1, <2>2
<1>6. w = [i \in 1..(N + 1) |-> w[i]]
  BY <1>4
<1>7. w = [i \in 1..(N + 1) |-> IF i > N THEN <<>> ELSE texts[i] \o w[next[i]]]
  BY <1>5, <1>6
<1>. QED BY <1>7 DEF Reads, N

IsRead(S, N, texts, next, w) ==
  /\ w \in [1..(N + 1) -> Seq(S)] /\ w[N + 1] = <<>>
  /\ \A i \in 1..N : w[i] = texts[i] \o w[next[i]]

LEMMA WalkReads ==
  ASSUME NEW S, NEW texts \in Seq(Seq(S)), NEW N, N = Len(texts),
         NEW next \in [1..N -> 1..(N + 1)], \A i \in 1..N : i < next[i]
  PROVE  IsRead(S, N, texts, next, Walk(texts, next))
<1>. DEFINE w == Walk(texts, next)
<1>1. /\ N \in Nat /\ \A i \in 1..N : /\ texts[i] \in Seq(S) /\ i < next[i]
                                     /\ next[i] \in 1..(N + 1)
  <2>1. N \in Nat /\ \A i \in 1..N : i < next[i] /\ next[i] \in 1..(N + 1)
    OBVIOUS
  <2>2. \A i \in 1..N : texts[i] \in Seq(S)
    OBVIOUS
  <2>. QED BY <2>1, <2>2
<1>2. w = CHOOSE f : Reads(f, texts, next)
  BY DEF Walk, Reads
<1>3. Reads(w, texts, next)
  <2>. HIDE DEF w
  <2>1. \E f : Reads(f, texts, next)
    BY ReadsExists
  <2>. QED BY <1>2, <2>1
<1>. HIDE DEF w
<1>4. /\ DOMAIN w = 1..(N + 1) /\ w[N + 1] = <<>>
      /\ \A i \in 1..N : w[i] = texts[i] \o w[next[i]]
  <2>1. w = [i \in 1..(N + 1) |-> IF i > N THEN <<>> ELSE texts[i] \o w[next[i]]]
    BY <1>3 DEF Reads
  <2>2. N + 1 \in 1..(N + 1) /\ N + 1 > N /\ \A i \in 1..N : i \in 1..(N + 1) /\ ~(i > N)
    BY <1>1
  <2>. QED BY <2>1, <2>2
<1>. DEFINE bad == {k \in 0..N : w[N + 1 - k] \notin Seq(S)}
<1>5. bad = {}
  <2>1. SUFFICES ASSUME bad # {} PROVE FALSE
    OBVIOUS
  <2>2. bad \in SUBSET Nat
    BY <1>1
  <2>3. PICK k \in bad : \A m \in bad : k <= m
    BY <2>1, <2>2, LeastOf
  <2>. DEFINE p == N + 1 - k
  <2>4. k \in 0..N /\ w[p] \notin Seq(S)
    BY <2>3
  <2>5. p # N + 1
    <3>1. <<>> \in Seq(S)
      OBVIOUS
    <3>. QED BY <1>4, <2>4, <3>1
  <2>6. p \in 1..N
    BY <1>1, <2>4, <2>5
  <2>7. next[p] \in 1..(N + 1) /\ p < next[p] /\ texts[p] \in Seq(S)
    BY <1>1, <2>6
  <2>. DEFINE m == N + 1 - next[p]
  <2>8. m \in 0..N /\ m < k /\ N + 1 - m = next[p]
    BY <1>1, <2>4, <2>7
  <2>9. m \notin bad
    BY <2>3, <2>4, <2>8
  <2>10. w[next[p]] \in Seq(S)
    BY <2>8, <2>9
  <2>11. texts[p] \o w[next[p]] \in Seq(S)
    BY <2>7, <2>10, ConcatProperties
  <2>. QED BY <1>4, <2>4, <2>6, <2>11
<1>6. \A i \in 1..(N + 1) : w[i] \in Seq(S)
  <2>. TAKE i \in 1..(N + 1)
  <2>1. N + 1 - i \in 0..N /\ N + 1 - (N + 1 - i) = i
    BY <1>1
  <2>. QED BY <1>5, <2>1
<1>7. w \in [1..(N + 1) -> Seq(S)]
  <2>1. w = [i \in 1..(N + 1) |-> w[i]]
    BY <1>3 DEF Reads
  <2>. QED BY <1>6, <2>1
<1>. QED BY <1>4, <1>7 DEF IsRead, w

LEMMA JoinedTyped ==
  ASSUME NEW S, NEW texts \in Seq(Seq(S))
  PROVE  Joined(texts) \in Seq(S)
<1>. DEFINE next == [i \in 1..Len(texts) |-> i + 1]
            w == Walk(texts, next)
<1>1. /\ Len(texts) \in Nat /\ next \in [1..Len(texts) -> 1..(Len(texts) + 1)]
      /\ \A i \in 1..Len(texts) : i < next[i]
  OBVIOUS
<1>2. w \in [1..(Len(texts) + 1) -> Seq(S)]
  <2>1. IsRead(S, Len(texts), texts, next, w)
    BY <1>1, WalkReads
  <2>. QED BY <2>1 DEF IsRead
<1>. QED BY <1>1, <1>2 DEF Joined

-----------------------------------------------------------------------------
(* A filled template is what it means: both read it from its beginning to  *)
(* its end.                                                                *)

Shifts(t, a, p, x) == ((t \o a) \o p) \o x = t \o ((a \o p) \o x)

LEMMA FourTexts ==
  ASSUME NEW S, NEW t \in Seq(S), NEW a \in Seq(S), NEW p \in Seq(S), NEW x \in Seq(S)
  PROVE  Shifts(t, a, p, x)
<1>1. (t \o a) \o p = t \o (a \o p)
  BY ConcatAssociative
<1>2. a \o p \in Seq(S)
  BY ConcatProperties
<1>3. (t \o (a \o p)) \o x = t \o ((a \o p) \o x)
  BY <1>2, ConcatAssociative
<1>. QED BY <1>1, <1>3 DEF Shifts

LEMMA FirstIs ==
  ASSUME NEW X \in SUBSET Nat, X # {}
  PROVE  FirstOf(X) \in X /\ \A k \in X : FirstOf(X) <= k
<1>1. \E m \in X : \A k \in X : m <= k
  BY LeastOf
<1>. QED BY <1>1 DEF FirstOf

LEMMA MarksTyped ==
  ASSUME NEW S, NEW template \in Seq(S)
  PROVE  /\ MarksIn(template) \in SUBSET Nat /\ IsFiniteSet(MarksIn(template))
         /\ \A m \in MarksIn(template) :
              /\ m \in 1..Len(template) /\ m + 2 \in 1..(Len(template) + 1)
              /\ NumberOf(template, m) \in 1..Cardinality(MarksIn(template))
<1>. DEFINE marks == MarksIn(template)
            N == Len(template)
<1>1. N \in Nat
  OBVIOUS
<1>. HIDE DEF N
<1>2. \A m \in marks : m \in 1..(N - 1) /\ m \in 1..N /\ m + 2 \in 1..(N + 1)
  BY <1>1 DEF MarksIn, N
<1>3. IsFiniteSet(1..N) /\ marks \in SUBSET (1..N) /\ marks \in SUBSET Nat
  BY <1>1, <1>2, FS_Interval
<1>. HIDE DEF marks
<1>4. IsFiniteSet(marks) /\ Cardinality(marks) \in Nat
  BY <1>3, FS_Subset, FS_CardinalityType
<1>5. ASSUME NEW m \in marks PROVE NumberOf(template, m) \in 1..Cardinality(marks)
  <2>. DEFINE upto == {k \in marks : k <= m}
  <2>1. upto \in SUBSET marks /\ upto # {}
    BY <1>3
  <2>2. IsFiniteSet(upto) /\ Cardinality(upto) <= Cardinality(marks)
    BY <1>4, <2>1, FS_Subset
  <2>3. Cardinality(upto) \in Nat /\ Cardinality(upto) # 0
    BY <2>1, <2>2, FS_CardinalityType, FS_EmptySet
  <2>4. NumberOf(template, m) = Cardinality(upto)
    BY DEF NumberOf, marks
  <2>. QED BY <1>4, <2>2, <2>3, <2>4
<1>. QED BY <1>2, <1>3, <1>4, <1>5 DEF marks, N

TextsOf(S, params) ==
  Len(params) \in Nat /\ \A i \in 1..Len(params) : params[i] \in Seq(S)

LEMMA FillMeans ==
  ASSUME NEW S, NEW template \in Seq(S), NEW params, TextsOf(S, params),
         Cardinality(MarksIn(template)) <= Len(params)
  PROVE  Replaced(template, params) = Meaning(template, params)
<1>. DEFINE N == Len(template)
            marks == MarksIn(template)
            from(i) == MarksFrom(template, i)
            m(i) == FirstOf(from(i))
            param(k) == params[NumberOf(template, k)]
            part == [i \in 1..N |-> IF from(i) = {} THEN SubSeq(template, i, N)
                                    ELSE SubSeq(template, i, m(i) - 1) \o param(m(i))]
            jump == [i \in 1..N |-> IF from(i) = {} THEN N + 1 ELSE m(i) + 2]
            symbol == [i \in 1..N |-> IF i \in marks THEN param(i) ELSE <<template[i]>>]
            step == [i \in 1..N |-> IF i \in marks THEN i + 2 ELSE i + 1]
<1>1. N \in Nat /\ \A i \in 1..N : template[i] \in S
  OBVIOUS
<1>2. /\ marks \in SUBSET Nat
      /\ \A k \in marks : /\ k \in 1..N /\ k + 2 \in 1..(N + 1)
                          /\ NumberOf(template, k) \in 1..Cardinality(marks)
  BY MarksTyped
<1>3. \A k \in marks : param(k) \in Seq(S)
  <2>1. Cardinality(marks) \in Nat
    BY MarksTyped, FS_CardinalityType
  <2>. QED BY <1>2, <2>1 DEF TextsOf
<1>4. \A i : from(i) = {k \in marks : k >= i}
  BY DEF MarksFrom
<1>. HIDE DEF marks, param, from, N
<1>5. \A i \in 1..N : from(i) # {} =>
        m(i) \in marks /\ m(i) >= i /\ \A k \in marks : k >= i => m(i) <= k
  <2>. TAKE i \in 1..N
  <2>. HAVE from(i) # {}
  <2>1. from(i) \in SUBSET Nat
    BY <1>2, <1>4
  <2>2. m(i) \in from(i) /\ \A k \in from(i) : m(i) <= k
    BY <2>1, FirstIs
  <2>. QED BY <1>4, <2>2
<1>. HIDE DEF m
<1>6. \A i \in 1..N, n \in 0..N : SubSeq(template, i, n) \in Seq(S)
  <2>. TAKE i \in 1..N, n \in 0..N
  <2>1. i \in Int /\ n \in Int /\ \A j \in i..n : template[j] \in S
    BY <1>1
  <2>. QED BY <2>1, SubSeqProperties
<1>7. \A i \in 1..N : /\ part[i] \in Seq(S) /\ jump[i] \in 1..(N + 1) /\ i < jump[i]
                      /\ symbol[i] \in Seq(S) /\ step[i] \in 1..(N + 1) /\ i < step[i]
  <2>. TAKE i \in 1..N
  <2>1. CASE from(i) = {}
    <3>1. SubSeq(template, i, N) \in Seq(S)
      BY <1>1, <1>6
    <3>2. part[i] \in Seq(S) /\ jump[i] \in 1..(N + 1) /\ i < jump[i]
      BY <1>1, <2>1, <3>1
    <3>3. i \notin marks
      <4>1. i >= i
        BY <1>1
      <4>. QED BY <1>4, <2>1, <4>1
    <3>4. symbol[i] \in Seq(S) /\ step[i] \in 1..(N + 1) /\ i < step[i]
      BY <1>1, <3>3
    <3>. QED BY <3>2, <3>4
  <2>2. CASE from(i) # {}
    <3>1. m(i) \in marks /\ m(i) >= i /\ m(i) \in 1..N /\ m(i) + 2 \in 1..(N + 1)
      BY <1>2, <1>5, <2>2
    <3>2. SubSeq(template, i, m(i) - 1) \in Seq(S) /\ param(m(i)) \in Seq(S)
      <4>1. m(i) - 1 \in 0..N
        BY <1>1, <3>1
      <4>. QED BY <1>3, <1>6, <3>1, <4>1
    <3>3. SubSeq(template, i, m(i) - 1) \o param(m(i)) \in Seq(S)
      BY <3>2, ConcatProperties
    <3>4. part[i] \in Seq(S) /\ jump[i] \in 1..(N + 1) /\ i < jump[i]
      BY <1>1, <2>2, <3>1, <3>3
    <3>5. CASE i \in marks
      BY <1>1, <1>2, <1>3, <3>4, <3>5
    <3>6. CASE i \notin marks
      BY <1>1, <3>4, <3>6
    <3>. QED BY <3>5, <3>6
  <2>. QED BY <2>1, <2>2
<1>. DEFINE w == Walk(part, jump)
            v == Walk(symbol, step)
<1>8. part \in Seq(Seq(S)) /\ Len(part) = N /\ symbol \in Seq(Seq(S)) /\ Len(symbol) = N
  <2>1. DOMAIN part = 1..N /\ DOMAIN symbol = 1..N
    OBVIOUS
  <2>2. part \in [1..N -> Seq(S)] /\ symbol \in [1..N -> Seq(S)]
    BY <1>7
  <2>. HIDE DEF part, symbol
  <2>. QED BY <1>1, <2>1, <2>2
<1>9. jump \in [1..N -> 1..(N + 1)] /\ step \in [1..N -> 1..(N + 1)]
  BY <1>7
<1>10. \A i \in 1..N :
         /\ part[i] = IF from(i) = {} THEN SubSeq(template, i, N)
                      ELSE SubSeq(template, i, m(i) - 1) \o param(m(i))
         /\ jump[i] = IF from(i) = {} THEN N + 1 ELSE m(i) + 2
         /\ symbol[i] = IF i \in marks THEN param(i) ELSE <<template[i]>>
         /\ step[i] = IF i \in marks THEN i + 2 ELSE i + 1
  OBVIOUS
<1>11. Replaced(template, params) = w[1] /\ Meaning(template, params) = v[1]
  BY DEF Replaced, Meaning, m, from, param, marks, N
<1>. HIDE DEF part, jump, symbol, step
<1>12. /\ w \in [1..(N + 1) -> Seq(S)] /\ w[N + 1] = <<>>
       /\ \A i \in 1..N : w[i] = part[i] \o w[jump[i]]
  <2>1. \A i \in 1..N : i < jump[i]
    BY <1>7
  <2>2. N = Len(part) /\ part \in Seq(Seq(S))
    BY <1>8
  <2>3. IsRead(S, N, part, jump, w)
    BY <1>9, <2>1, <2>2, WalkReads
  <2>. QED BY <2>3 DEF IsRead
<1>13. /\ v \in [1..(N + 1) -> Seq(S)] /\ v[N + 1] = <<>>
       /\ \A i \in 1..N : v[i] = symbol[i] \o v[step[i]]
  <2>1. \A i \in 1..N : i < step[i]
    BY <1>7
  <2>2. N = Len(symbol) /\ symbol \in Seq(Seq(S))
    BY <1>8
  <2>3. IsRead(S, N, symbol, step, v)
    BY <1>9, <2>1, <2>2, WalkReads
  <2>. QED BY <2>3 DEF IsRead
<1>. HIDE DEF w, v
<1>. DEFINE bad == {d \in 0..N : w[N + 1 - d] # v[N + 1 - d]}
<1>14. bad = {}
  <2>1. SUFFICES ASSUME bad # {} PROVE FALSE
    OBVIOUS
  <2>2. bad \in SUBSET Nat
    BY <1>1
  <2>3. PICK d \in bad : \A e \in bad : d <= e
    BY <2>1, <2>2, LeastOf
  <2>. DEFINE i == N + 1 - d
  <2>4. d \in 0..N /\ w[i] # v[i]
    BY <2>3
  <2>5. i \in 1..N
    <3>1. i # N + 1
      BY <1>12, <1>13, <2>4
    <3>. QED BY <1>1, <2>4, <3>1
  <2>6. \A j \in 1..(N + 1) : i < j => w[j] = v[j]
    <3>. TAKE j \in 1..(N + 1)
    <3>. HAVE i < j
    <3>1. N + 1 - j \in 0..N /\ N + 1 - j < d /\ N + 1 - (N + 1 - j) = j
      BY <1>1, <2>4
    <3>2. N + 1 - j \notin bad
      BY <2>3, <2>4, <3>1
    <3>. QED BY <3>1, <3>2
  <2>. HIDE DEF i
  <2>7. CASE i \in marks
    <3>1. from(i) # {} /\ m(i) = i
      <4>1. from(i) # {}
        <5>1. i >= i
          BY <1>1, <2>5
        <5>. QED BY <1>4, <2>7, <5>1
      <4>2. m(i) \in marks /\ m(i) >= i /\ m(i) <= i
        BY <1>5, <2>5, <2>7, <4>1
      <4>. QED BY <1>2, <2>5, <4>1, <4>2
    <3>2. SubSeq(template, i, i - 1) = <<>>
      BY <2>5, SubSeqEmpty
    <3>3. param(i) \in Seq(S) /\ i + 2 \in 1..(N + 1)
      BY <1>2, <1>3, <2>7
    <3>4. part[i] = param(i)
      <4>1. <<>> \o param(i) = param(i)
        BY <3>3, ConcatEmptySeq
      <4>. QED BY <1>10, <2>5, <3>1, <3>2, <4>1
    <3>5. jump[i] = i + 2 /\ symbol[i] = param(i) /\ step[i] = i + 2
      BY <1>10, <2>5, <2>7, <3>1
    <3>6. w[i + 2] = v[i + 2]
      BY <2>5, <2>6, <3>3
    <3>. QED BY <1>12, <1>13, <2>4, <2>5, <3>4, <3>5, <3>6 DEF i
  <2>8. CASE i \notin marks
    <3>1. /\ i + 1 \in 1..(N + 1) /\ w[i + 1] = v[i + 1]
          /\ v[i] = <<template[i]>> \o w[i + 1]
      <4>1. i + 1 \in 1..(N + 1) /\ i < i + 1
        BY <1>1, <2>5
      <4>. QED BY <1>10, <1>13, <2>5, <2>6, <2>8, <4>1
    <3>2. from(i + 1) = from(i)
      <4>1. \A k \in marks : k >= i + 1 <=> k >= i
        BY <1>2, <2>5, <2>8
      <4>. QED BY <1>4, <4>1
    <3>3. <<template[i]>> \in Seq(S) /\ i \in 1..Len(template)
      BY <1>1, <2>5 DEF N
    <3>4. CASE from(i) = {}
      <4>1. w[i] = SubSeq(template, i, N)
        <5>1. part[i] = SubSeq(template, i, N) /\ jump[i] = N + 1
          BY <1>10, <2>5, <3>4
        <5>2. part[i] \in Seq(S)
          BY <1>7, <2>5
        <5>3. part[i] \o <<>> = part[i]
          BY <5>2, ConcatEmptySeq
        <5>. QED BY <1>12, <2>5, <5>1, <5>3
      <4>2. w[i + 1] = SubSeq(template, i + 1, N)
        <5>1. CASE i = N
          <6>1. SubSeq(template, i + 1, N) = <<>>
            BY <1>1, <5>1, SubSeqEmpty
          <6>. QED BY <1>12, <5>1, <6>1
        <5>2. CASE i # N
          <6>1. i + 1 \in 1..N
            BY <1>1, <2>5, <5>2
          <6>2. part[i + 1] = SubSeq(template, i + 1, N) /\ jump[i + 1] = N + 1
            BY <1>10, <3>2, <3>4, <6>1
          <6>3. part[i + 1] \in Seq(S)
            BY <1>7, <6>1
          <6>4. part[i + 1] \o <<>> = part[i + 1]
            BY <6>3, ConcatEmptySeq
          <6>. QED BY <1>12, <6>1, <6>2, <6>4
        <5>. QED BY <5>1, <5>2
      <4>3. SubSeq(template, i, N) = <<template[i]>> \o SubSeq(template, i + 1, N)
        <5>1. N \in i..Len(template)
          BY <1>1, <2>5 DEF N
        <5>. QED BY <3>3, <5>1, SubSeqRecursiveFirst
      <4>. QED BY <2>4, <3>1, <4>1, <4>2, <4>3 DEF i
    <3>5. CASE from(i) # {}
      <4>. DEFINE q == m(i)
      <4>1. q \in marks /\ q >= i /\ q # i /\ q \in 1..N
        BY <1>2, <1>5, <2>5, <2>8, <3>5
      <4>2. i + 1 \in 1..N /\ q >= i + 1 /\ q - 1 \in i..N
        BY <1>1, <2>5, <4>1
      <4>3. m(i + 1) = q
        BY <3>2 DEF m
      <4>. HIDE DEF q
      <4>4. /\ part[i] = SubSeq(template, i, q - 1) \o param(q) /\ jump[i] = q + 2
            /\ part[i + 1] = SubSeq(template, i + 1, q - 1) \o param(q) /\ jump[i + 1] = q + 2
        BY <1>10, <2>5, <3>2, <3>5, <4>2, <4>3 DEF q
      <4>. DEFINE a == SubSeq(template, i + 1, q - 1)
                  x == w[q + 2]
      <4>5. SubSeq(template, i, q - 1) = <<template[i]>> \o a
        <5>1. q - 1 \in i..Len(template)
          BY <4>2 DEF N
        <5>. QED BY <3>3, <5>1, SubSeqRecursiveFirst
      <4>6. a \in Seq(S) /\ param(q) \in Seq(S) /\ x \in Seq(S)
        <5>1. q - 1 \in 0..N
          BY <1>1, <2>5, <4>2
        <5>. QED BY <1>2, <1>3, <1>6, <1>12, <4>1, <4>2, <5>1
      <4>7. w[i] = ((<<template[i]>> \o a) \o param(q)) \o x
        BY <1>12, <2>5, <4>4, <4>5
      <4>8. w[i + 1] = (a \o param(q)) \o x
        BY <1>12, <4>2, <4>4
      <4>. HIDE DEF a, x
      <4>9. ((<<template[i]>> \o a) \o param(q)) \o x = <<template[i]>> \o ((a \o param(q)) \o x)
        <5>. DEFINE t == <<template[i]>>
                    p == param(q)
        <5>1. /\ t \in Seq(S) /\ a \in Seq(S) /\ p \in Seq(S)
              /\ x \in Seq(S)
          BY <3>3, <4>6
        <5>. HIDE DEF t, p
        <5>2. Shifts(t, a, p, x)
          BY <5>1, FourTexts
        <5>. QED BY <5>2 DEF Shifts, t, p
      <4>. QED BY <2>4, <3>1, <4>7, <4>8, <4>9 DEF i
    <3>. QED BY <3>4, <3>5
  <2>. QED BY <2>7, <2>8
<1>15. N \in 0..N /\ N + 1 - N = 1
  BY <1>1
<1>16. w[1] = v[1]
  BY <1>14, <1>15
<1>. QED BY <1>11, <1>16

-----------------------------------------------------------------------------
(* The command a device is sent for an attribute.                          *)

AttributeOK(a) == a.value.kind \in {"text", "object"} /\ ValueOK(a.value)

Fits(dev, a, id, body) ==
  /\ id = Before(body, "|") /\ Contains(id, "@")
  /\ dev.commands[a.name] \notin {<<>>, RAW} =>
       body = Meaning(dev.commands[a.name], riot_tokenizer(UlValue(a.value), "|"))

LEMMA ValueTyped ==
  ASSUME NEW v, v.kind \in {"text", "object"}, ValueOK(v)
  PROVE  UlValue(v) \in Seq(Symbols)
<1>1. CASE v.kind = "text"
  BY <1>1 DEF UlValue, ValueOK
<1>2. CASE v.kind = "object"
  <2>. DEFINE name(i) == (IF i = 1 THEN <<>> ELSE <<"|">>) \o <<v.members[i].name, "=">>
              text(i) == name(i) \o v.members[i].text
              texts == [i \in 1..Len(v.members) |-> text(i)]
  <2>1. "=" \in Symbols /\ "|" \in Symbols
    BY DEF Symbols
  <2>2. /\ Len(v.members) \in Nat
        /\ \A i \in 1..Len(v.members) :
             v.members[i].name \in Symbols /\ v.members[i].text \in Seq(Symbols)
    <3>1. IsList(v.members) /\ DOMAIN v.members = 1..Len(v.members)
      BY <1>2, ListPlaces DEF ValueOK
    <3>2. Len(v.members) \in Nat
      BY <3>1 DEF IsList
    <3>. QED BY <1>2, <3>1, <3>2 DEF ValueOK
  <2>3. ASSUME NEW i \in 1..Len(v.members) PROVE text(i) \in Seq(Symbols)
    <3>. DEFINE sep == IF i = 1 THEN <<>> ELSE <<"|">>
                head == <<v.members[i].name, "=">>
    <3>1. head \in Seq(Symbols)
      BY <2>1, <2>2, TwoTexts
    <3>2. sep \in Seq(Symbols)
      <4>1. <<"|">> \in Seq(Symbols)
        BY <2>1, OneText
      <4>2. <<>> \in Seq(Symbols)
        OBVIOUS
      <4>. QED BY <4>1, <4>2
    <3>3. name(i) \in Seq(Symbols)
      <4>1. name(i) = sep \o head
        OBVIOUS
      <4>. HIDE DEF sep, head, name
      <4>2. sep \o head \in Seq(Symbols)
        BY <3>1, <3>2, ConcatProperties
      <4>. QED BY <4>1, <4>2
    <3>4. v.members[i].text \in Seq(Symbols)
      BY <2>2
    <3>. HIDE DEF name
    <3>. QED BY <3>3, <3>4, ConcatProperties
  <2>4. texts \in Seq(Seq(Symbols))
    <3>. HIDE DEF text
    <3>1. texts \in [1..Len(v.members) -> Seq(Symbols)]
      BY <2>3
    <3>. HIDE DEF texts
    <3>. QED BY <2>2, <3>1
  <2>5. UlValue(v) = Joined(texts)
    BY <1>2 DEF UlValue
  <2>. HIDE DEF texts
  <2>. QED BY <2>4, <2>5, JoinedTyped
<1>. QED BY <1>1, <1>2

LEMMA FillOK ==
  ASSUME NEW template \in Seq(Symbols), NEW value \in Seq(Symbols),
         NEW made, made = Fill(template, value)
  PROVE  /\ made.why \in {"ok", "400"}
         /\ made.why = "ok" => made.body = Meaning(template, riot_tokenizer(value, "|"))
<1>. DEFINE N == Len(template)
            signs == {i \in 1..N : template[i] = "%"}
            marks == MarksIn(template)
            params == riot_tokenizer(value, "|")
<1>1. N \in Nat
  OBVIOUS
<1>2. IsFiniteSet(signs) /\ marks \in SUBSET signs
  <2>1. IsFiniteSet(1..N) /\ signs \in SUBSET (1..N)
    BY <1>1, FS_Interval
  <2>. HIDE DEF N
  <2>2. marks \in SUBSET signs
    BY <1>1 DEF MarksIn, N
  <2>. QED BY <2>1, <2>2, FS_Subset
<1>3. /\ Cardinality(signs) \in Nat /\ Cardinality(marks) \in Nat
      /\ Cardinality(marks) <= Cardinality(signs)
  <2>. HIDE DEF signs, marks
  <2>. QED BY <1>2, FS_Subset, FS_CardinalityType
<1>4. Len(params) \in Nat /\ TextsOf(Symbols, params)
  <2>. HIDE DEF params
  <2>1. params = riot_tokenizer(value, "|")
    BY DEF params
  <2>2. /\ Len(params) \in Nat
        /\ \A i \in 1..Len(params) : params[i] \in Seq(Symbols)
    BY <2>1, TokensTyped
  <2>. QED BY <2>2 DEF TextsOf
<1>. HIDE DEF marks, params
<1>5. CASE Cardinality(signs) > Len(params) /\ signs # {}
  BY <1>5 DEF Fill, Refused, params
<1>6. CASE ~(Cardinality(signs) > Len(params) /\ signs # {})
  <2>1. Cardinality(marks) <= Len(params)
    <3>1. CASE signs = {}
      <4>1. marks = {}
        BY <1>2, <3>1
      <4>. QED BY <1>4, <4>1, FS_EmptySet
    <3>2. CASE signs # {}
      BY <1>3, <1>4, <1>6, <3>2
    <3>. QED BY <3>1, <3>2
  <2>2. Replaced(template, params) = Meaning(template, params)
    BY <1>4, <2>1, FillMeans DEF marks
  <2>3. made = FillWithoutTest(template, value)
    BY <1>6 DEF Fill, params
  <2>4. made = [why |-> "ok", id |-> <<>>, body |-> Replaced(template, params)]
    BY <1>3, <1>4, <2>1, <2>3 DEF FillWithoutTest, Good, params, marks
  <2>. QED BY <2>2, <2>4 DEF params
<1>. QED BY <1>5, <1>6

LEMMA LineMade ==
  ASSUME NEW dev, \A n \in DOMAIN dev.commands : dev.commands[n] \in Seq(Symbols),
         NEW a, AttributeOK(a), NEW made, made = GetCommandLine(dev, a)
  PROVE  /\ made.why # "beyond"
         /\ (made.why = "ok" /\ plugin = "ul20") => Fits(dev, a, made.id, made.body)
<1>. DEFINE value == UlValue(a.value)
            template == dev.commands[a.name]
<1>1. value \in Seq(Symbols)
  BY ValueTyped DEF AttributeOK
<1>2. CASE made \in {Refused("400"), Refused("404")}
  BY <1>2 DEF Refused
<1>3. CASE plugin # "ul20" /\ made = MqttCommand(dev, a.name, value)
  BY <1>3 DEF MqttCommand, Good
<1>4. CASE a.name \in DOMAIN dev.commands /\ made = UL20Command(dev, a.name, value)
  <2>1. template \in Seq(Symbols)
    BY <1>4
  <2>. DEFINE filled == Fill(template, value)
              text == IF template = RAW THEN Good(<<>>, value)
                      ELSE IF template # <<>> THEN filled
                      ELSE Good(<<>>, DefaultBody(dev, a.name, value))
  <2>2. /\ filled.why \in {"ok", "400"}
        /\ filled.why = "ok" => filled.body = Meaning(template, riot_tokenizer(value, "|"))
    <3>. HIDE DEF filled, template, value
    <3>1. filled = Fill(template, value)
      BY DEF filled
    <3>. QED BY <1>1, <2>1, <3>1, FillOK
  <2>3. made = IF text.why # "ok" THEN text
               ELSE IF ~isCommandResp(text.body) THEN Refused("400")
               ELSE Good(Before(text.body, "|"), text.body)
    BY <1>4 DEF UL20Command
  <2>. HIDE DEF filled, template, value
  <2>4. /\ text.why \in {"ok", "400"}
        /\ (text.why = "ok" /\ template \notin {<<>>, RAW}) =>
             text.body = Meaning(template, riot_tokenizer(value, "|"))
    BY <2>2 DEF Good
  <2>. HIDE DEF text
  <2>5. CASE text.why # "ok"
    BY <2>3, <2>4, <2>5
  <2>6. CASE text.why = "ok" /\ ~isCommandResp(text.body)
    BY <2>3, <2>6 DEF Refused
  <2>7. CASE text.why = "ok" /\ isCommandResp(text.body)
    <3>1. made.why = "ok" /\ made.id = Before(text.body, "|") /\ made.body = text.body
      BY <2>3, <2>7 DEF Good
    <3>2. Contains(made.id, "@")
      BY <2>7, <3>1 DEF isCommandResp
    <3>. QED BY <2>4, <2>7, <3>1, <3>2 DEF Fits, template, value
  <2>. QED BY <2>5, <2>6, <2>7
<1>5. \/ made \in {Refused("400"), Refused("404")}
      \/ plugin # "ul20" /\ made = MqttCommand(dev, a.name, value)
      \/ a.name \in DOMAIN dev.commands /\ made = UL20Command(dev, a.name, value)
  BY DEF GetCommandLine
<1>. QED BY <1>2, <1>3, <1>4, <1>5

-----------------------------------------------------------------------------
(* What holds of a request of the Context Broker at every step of it.  An  *)
(* attribute is dealt with when its command is stored or refused; the code *)
(* of the element at work is judged by those of it that are.               *)

InLoop == npc \in {"attribute", "save", "execute", "next"}
Refusing == {"answered 400", "answered 404", "answered 500"}
Elements == 1..Len(ngsi.elements)

Dealt(k, j) ==
  \/ k < elem
  \/ InLoop /\ k = elem /\ (j < attr \/ (j = attr /\ npc \in {"execute", "next"}))

Judged(k, answer) ==
  /\ answer.code = 200 => \A j \in AttributesOf(k) : InCollection(k, j)
  /\ answer.code # 200 /\ AttributesOf(k) # {} => \E j \in AttributesOf(k) : ~InCollection(k, j)

JudgedSoFar ==
  /\ rescode = 200 =>
       \A j \in AttributesOf(elem) : Dealt(elem, j) => InCollection(elem, j)
  /\ rescode # 200 =>
       \E j \in AttributesOf(elem) : Dealt(elem, j) /\ ~InCollection(elem, j)

AtPlace(x, k, j) == x.elem = k /\ x.attr = j

RequestRead ==
  /\ Len(ngsi.elements) \in Nat
  /\ ngsi.op = "update" =>
       \A k \in Elements :
         /\ Len(ngsi.elements[k].attributes) \in Nat
         /\ \A j \in AttributesOf(k) : AttributeOK(ngsi.elements[k].attributes[j])

NgsiStage ==
  /\ devices \in NgsiDevices
  /\ npc \in Refusing \cup {"idle", "element", "respond", "answered 200"} \/ InLoop
  /\ npc \in Refusing \cup {"idle"} =>
       elem = 1 /\ answers = <<>> /\ notified = <<>> /\ stored = <<>>
  /\ npc = "idle" => ngsi = NoInput
  /\ npc # "idle" => ngsi.op \in {"update", "query"} /\ RequestRead
  /\ ngsi.op = "query" => notified = <<>> /\ stored = <<>>
  /\ npc \in {"element", "respond", "answered 200"} \/ InLoop => elem \in 1..(Len(ngsi.elements) + 1)
  /\ npc = "answered 200" => elem = Len(ngsi.elements) + 1
  /\ npc = "respond" \/ InLoop => ngsi.op = "update" /\ elem \in Elements
  /\ npc = "respond" => rescode # 200
  /\ InLoop => /\ attr \in 1..(Len(ngsi.elements[elem].attributes) + 1)
               /\ item_dev \in devices
  /\ InLoop /\ npc # "attribute" => attr \in AttributesOf(elem)

NgsiLists ==
  /\ IsList(answers) /\ IsList(notified) /\ IsList(stored)
  /\ Len(answers) = elem - 1

(* Nothing is stored or published ahead of its turn. *)
Placed(x) == x.elem \in Elements /\ x.attr \in AttributesOf(x.elem)

InTurn ==
  /\ \A i \in 1..Len(stored) : Placed(stored[i]) /\ Dealt(stored[i].elem, stored[i].attr)
  /\ \A p \in 1..Len(notified) :
       /\ Placed(notified[p])
       /\ \/ Dealt(notified[p].elem, notified[p].attr)
          \/ npc = "save" /\ AtPlace(notified[p], elem, attr)

CodesJudge ==
  ngsi.op = "update" =>
    /\ \A k \in 1..Len(answers) : Judged(k, answers[k])
    /\ InLoop => JudgedSoFar

NotifiedFirst ==
  /\ \A i \in 1..Len(stored) :
       \E p \in 1..Len(notified) :
         AtPlace(notified[p], stored[i].elem, stored[i].attr) /\ notified[p].device = stored[i].device
  /\ npc = "save" =>
       \E p \in 1..Len(notified) :
         AtPlace(notified[p], elem, attr) /\ notified[p].device = item_dev

NotifiedTold ==
  \A p \in 1..Len(notified) :
    \/ InCollection(notified[p].elem, notified[p].attr)
    \/ notified[p].elem \in 1..Len(answers) /\ answers[notified[p].elem].code # 200
    \/ InLoop /\ notified[p].elem = elem /\ rescode # 200
    \/ npc = "save" /\ AtPlace(notified[p], elem, attr)

StoredFits ==
  plugin = "ul20" =>
    /\ npc = "save" => Fits(item_dev, CurrentAttr, line.id, line.body)
    /\ \A i \in 1..Len(stored) :
         Fits(stored[i].device, ngsi.elements[stored[i].elem].attributes[stored[i].attr],
              stored[i].id, stored[i].body)

QueriesAnswered ==
  ngsi.op = "query" =>
    \A k \in 1..Len(answers) :
      answers[k].code = 200 => \E d \in devices : d.active /\ answers[k].commands = DOMAIN d.commands

NgsiInv ==
  /\ NgsiStage /\ NgsiLists /\ InTurn /\ CodesJudge
  /\ NotifiedFirst /\ NotifiedTold /\ StoredFits /\ QueriesAnswered

Extended(t, s, x) ==
  /\ IsList(t) /\ Len(s) \in Nat /\ Len(t) = Len(s) + 1
  /\ \A i \in 1..Len(s) : i \in 1..Len(t) /\ t[i] = s[i]
  /\ \A i \in 1..Len(t) : (i \in 1..Len(s) /\ t[i] = s[i]) \/ (i = Len(t) /\ t[i] = x)
  /\ \E i \in 1..Len(t) : t[i] = x

LEMMA ListAppended ==
  ASSUME NEW s, IsList(s), NEW x
  PROVE  Extended(Append(s, x), s, x)
<1>. DEFINE t == Append(s, x)
            own == {s[i] : i \in DOMAIN s}
            all == own \cup {x}
<1>1. s \in Seq(own)
  BY DEF IsList
<1>2. own \subseteq all /\ x \in all
  OBVIOUS
<1>. HIDE DEF own, all
<1>3. s \in Seq(all)
  BY <1>1, <1>2
<1>4. /\ t \in Seq(all) /\ Len(t) = Len(s) + 1 /\ t[Len(s) + 1] = x
      /\ \A i \in 1..Len(s) : t[i] = s[i]
  BY <1>2, <1>3, AppendProperties
<1>5. Len(s) \in Nat
  BY <1>3
<1>6. IsList(t)
  <2>1. DOMAIN t = 1..Len(t) /\ Len(t) \in Nat
    BY <1>4
  <2>. DEFINE those == {t[i] : i \in DOMAIN t}
  <2>2. \A i \in 1..Len(t) : t[i] \in those
    BY <2>1
  <2>. HIDE DEF those
  <2>4. t \in Seq(those)
    BY <1>4, <2>1, <2>2
  <2>. QED BY <2>4 DEF IsList, those
<1>. DEFINE n == Len(s)
<1>. HIDE DEF t, n
<1>7. n \in Nat /\ Len(t) = n + 1 /\ t[n + 1] = x /\ \A i \in 1..n : t[i] = s[i]
  BY <1>4, <1>5 DEF n
<1>8. /\ \A i \in 1..n : i \in 1..Len(t) /\ t[i] = s[i]
      /\ \A i \in 1..Len(t) : (i \in 1..n /\ t[i] = s[i]) \/ (i = Len(t) /\ t[i] = x)
      /\ \E i \in 1..Len(t) : t[i] = x
  BY <1>7
<1>. QED BY <1>6, <1>7, <1>8 DEF Extended, t, n

LEMMA EmptyList == IsList(<<>>)
BY DEF IsList

LEMMA InitNgsiInv == NgsiInit("idle") => NgsiInv
<1>. SUFFICES ASSUME NgsiInit("idle") PROVE NgsiInv
  OBVIOUS
<1>. USE DEF NgsiInit
<1>1. NgsiStage
  BY DEF NgsiStage, NoInput, InLoop, Refusing
<1>2. NgsiLists
  BY EmptyList DEF NgsiLists
<1>3. InTurn /\ NotifiedFirst /\ NotifiedTold
  BY DEF InTurn, NotifiedFirst, NotifiedTold
<1>4. CodesJudge /\ StoredFits /\ QueriesAnswered
  BY DEF CodesJudge, StoredFits, QueriesAnswered, NoInput
<1>. QED BY <1>1, <1>2, <1>3, <1>4 DEF NgsiInv

LEMMA ParsedRead ==
  ASSUME NEW r \in NgsiInputs, r.op = "update",
         NEW read, read = [r EXCEPT !.elements = [k \in 1..Len(@) |-> Parsed(@[k])]]
  PROVE  /\ read.op = "update" /\ Len(read.elements) \in Nat
         /\ \A k \in 1..Len(read.elements) :
              /\ Len(read.elements[k].attributes) \in Nat
              /\ \A j \in 1..Len(read.elements[k].attributes) :
                   AttributeOK(read.elements[k].attributes[j])
<1>. DEFINE N == Len(r.elements)
<1>1. /\ {"op", "elements"} \subseteq DOMAIN r /\ IsList(r.elements)
      /\ \A k \in DOMAIN r.elements :
           /\ "attributes" \in DOMAIN r.elements[k] /\ IsList(r.elements[k].attributes)
           /\ \A j \in DOMAIN r.elements[k].attributes :
                /\ r.elements[k].attributes[j].value.kind \in {"text", "object", "absent"}
                /\ ValueOK(r.elements[k].attributes[j].value)
  BY NgsiInputsAssumption DEF NgsiInputsAssumption
<1>2. N \in Nat /\ DOMAIN r.elements = 1..N
  BY <1>1, ListPlaces DEF IsList
<1>3. read.op = "update" /\ read.elements = [k \in 1..N |-> Parsed(r.elements[k])]
  BY <1>1
<1>4. Len(read.elements) = N
  <2>. HIDE DEF N
  <2>. QED BY <1>2, <1>3
<1>5. ASSUME NEW k \in 1..N
      PROVE  /\ Len(read.elements[k].attributes) \in Nat
             /\ \A j \in 1..Len(read.elements[k].attributes) :
                  AttributeOK(read.elements[k].attributes[j])
  <2>. DEFINE all == r.elements[k].attributes
              some == read.elements[k].attributes
              places == {i \in DOMAIN all : all[i].value.kind # "absent"}
  <2>1. some = AtPlaces(all, places)
    BY <1>1, <1>2, <1>3 DEF Parsed
  <2>2. IsList(all) /\ \A i \in places : AttributeOK(all[i])
    BY <1>1, <1>2 DEF AttributeOK
  <2>3. places \in SUBSET Nat /\ IsFiniteSet(places)
    <3>1. places \in SUBSET (DOMAIN all)
      OBVIOUS
    <3>. HIDE DEF places, all
    <3>. QED BY <2>2, <3>1, PlacesInList
  <2>. HIDE DEF places, all, some
  <2>4. /\ DOMAIN some = 1..Cardinality(places) /\ Cardinality(places) \in Nat
        /\ \A n \in DOMAIN some : \E i \in places : some[n] = all[i]
    BY <2>1, <2>3, PlacesOf
  <2>5. Len(some) = Cardinality(places)
    <3>1. some = [n \in 1..Cardinality(places) |-> some[n]]
      <4>1. some = [n \in DOMAIN some |-> some[n]]
        BY <2>1 DEF AtPlaces
      <4>. QED BY <2>4, <4>1
    <3>. QED BY <2>4, <3>1
  <2>6. Len(some) \in Nat /\ \A j \in 1..Len(some) : AttributeOK(some[j])
    BY <2>2, <2>4, <2>5
  <2>. QED BY <2>6 DEF some
<1>. QED BY <1>2, <1>3, <1>4, <1>5

LEMMA NothingYet ==
  ASSUME answers' = <<>>, notified' = <<>>, stored' = <<>>, elem' = 1,
         ~InLoop', npc' # "save"
  PROVE  /\ NgsiLists' /\ InTurn' /\ CodesJudge' /\ NotifiedFirst' /\ NotifiedTold'
         /\ StoredFits' /\ QueriesAnswered'
<1>1. Len(answers') = 0 /\ Len(notified') = 0 /\ Len(stored') = 0 /\ 1..0 = {}
  OBVIOUS
<1>2. NgsiLists'
  BY <1>1, EmptyList DEF NgsiLists
<1>3. InTurn' /\ NotifiedFirst' /\ NotifiedTold'
  BY <1>1 DEF InTurn, NotifiedFirst, NotifiedTold
<1>4. CodesJudge' /\ StoredFits' /\ QueriesAnswered'
  BY <1>1 DEF CodesJudge, StoredFits, QueriesAnswered
<1>. QED BY <1>2, <1>3, <1>4

LEMMA ReceiveUpdateKeeps == NgsiInv /\ ReceiveUpdateContext => NgsiInv'
<1>. SUFFICES ASSUME NgsiInv, ReceiveUpdateContext PROVE NgsiInv'
  OBVIOUS
<1>1. PICK r \in NgsiInputs :
        /\ r.op = "update" /\ npc' = Received(r)
        /\ ngsi' = [r EXCEPT !.elements = [k \in 1..Len(@) |-> Parsed(@[k])]]
  BY DEF ReceiveUpdateContext
<1>2. /\ elem = 1 /\ answers = <<>> /\ notified = <<>> /\ stored = <<>>
      /\ devices \in NgsiDevices /\ NgsiLists
      /\ UNCHANGED <<plugin, devices, elem, attr, item_dev, line, rescode, answers, notified, stored>>
  BY DEF NgsiInv, NgsiStage, ReceiveUpdateContext
<1>3. ngsi'.op = "update" /\ RequestRead'
  <2>. DEFINE read == ngsi'
  <2>1. read = [r EXCEPT !.elements = [k \in 1..Len(@) |-> Parsed(@[k])]]
    BY <1>1
  <2>. HIDE DEF read
  <2>2. /\ read.op = "update" /\ Len(read.elements) \in Nat
        /\ \A k \in 1..Len(read.elements) :
             /\ Len(read.elements[k].attributes) \in Nat
             /\ \A j \in 1..Len(read.elements[k].attributes) :
                  AttributeOK(read.elements[k].attributes[j])
    BY <1>1, <2>1, ParsedRead
  <2>. QED BY <2>2 DEF RequestRead, Elements, AttributesOf, read
<1>4. npc' \in Refusing \cup {"element"} /\ ~InLoop'
  BY <1>1 DEF Received, Refusing, InLoop
<1>5. NgsiStage'
  <2>1. 1 \in 1..(Len(ngsi'.elements) + 1)
    BY <1>3 DEF RequestRead
  <2>. QED BY <1>2, <1>3, <1>4, <2>1 DEF NgsiStage, Refusing
<1>6. npc' # "save"
  BY <1>4 DEF Refusing
<1>. QED BY <1>2, <1>4, <1>5, <1>6, NothingYet DEF NgsiInv

LEMMA ReceiveQueryKeeps == NgsiInv /\ ReceiveQueryContext => NgsiInv'
<1>. SUFFICES ASSUME NgsiInv, ReceiveQueryContext PROVE NgsiInv'
  OBVIOUS
<1>1. PICK r \in NgsiInputs : r.op = "query" /\ npc' = ReceivedQuery(r) /\ ngsi' = r
  BY DEF ReceiveQueryContext
<1>2. /\ elem = 1 /\ answers = <<>> /\ notified = <<>> /\ stored = <<>>
      /\ devices \in NgsiDevices /\ NgsiLists
      /\ UNCHANGED <<plugin, devices, elem, attr, item_dev, line, rescode, answers, notified, stored>>
  BY DEF NgsiInv, NgsiStage, ReceiveQueryContext
<1>3. ngsi'.op = "query" /\ RequestRead'
  <2>1. Len(r.elements) \in Nat
    BY NgsiInputsAssumption DEF NgsiInputsAssumption, IsList
  <2>. QED BY <1>1, <2>1 DEF RequestRead
<1>4. npc' \in Refusing \cup {"element"} /\ ~InLoop'
  BY <1>1 DEF Received, ReceivedQuery, Refusing, InLoop
<1>5. NgsiStage'
  <2>1. 1 \in 1..(Len(ngsi'.elements) + 1)
    BY <1>3 DEF RequestRead
  <2>. QED BY <1>2, <1>3, <1>4, <2>1 DEF NgsiStage, Refusing
<1>6. npc' # "save"
  BY <1>4 DEF Refusing
<1>. QED BY <1>2, <1>4, <1>5, <1>6, NothingYet DEF NgsiInv

(* A step that stores, publishes and answers nothing. *)
LEMMA NothingDone ==
  ASSUME NgsiInv, npc # "idle", npc # "save", npc' # "save",
         plugin' = plugin, devices' = devices, ngsi' = ngsi, elem' = elem,
         answers' = answers, notified' = notified, stored' = stored,
         \A k \in Elements : \A j \in AttributesOf(k) : Dealt(k, j)' <=> Dealt(k, j),
         InLoop => InLoop' /\ rescode' = rescode
  PROVE  /\ NgsiLists' /\ InTurn' /\ NotifiedFirst' /\ NotifiedTold'
         /\ StoredFits' /\ QueriesAnswered' /\ RequestRead'
         /\ \A k, j : InCollection(k, j)' <=> InCollection(k, j)
<1>. USE DEF NgsiInv
<1>1. \A k, j : InCollection(k, j)' <=> InCollection(k, j)
  BY DEF InCollection
<1>2. NgsiLists'
  BY DEF NgsiLists
<1>3. InTurn'
  <2>1. \A x : Placed(x)' <=> Placed(x)
    BY DEF Placed, Elements, AttributesOf
  <2>2. \A x : Placed(x) => (Dealt(x.elem, x.attr)' <=> Dealt(x.elem, x.attr))
    BY DEF Placed
  <2>. QED BY <2>1, <2>2 DEF InTurn
<1>4. NotifiedFirst'
  BY DEF NotifiedFirst, AtPlace
<1>5. NotifiedTold'
  BY <1>1 DEF NotifiedTold
<1>6. StoredFits'
  BY DEF StoredFits, Fits
<1>7. QueriesAnswered'
  BY DEF QueriesAnswered
<1>8. RequestRead'
  BY DEF NgsiStage, RequestRead, Elements, AttributesOf
<1>. QED BY <1>1, <1>2, <1>3, <1>4, <1>5, <1>6, <1>7, <1>8

LEMMA OutcomesTyped ==
  ASSUME NEW e, NEW path, NEW o \in Outcomes(e, path), o.code = 200
  PROVE  o.dev \in devices /\ o.dev.active
<1>1. \E d \in ByEntity(e.id, e.type, path) \cup Again(e, path) :
        o = [code |-> IF d.active THEN 200 ELSE 409, dev |-> IF d.active THEN d ELSE NoDevice]
  BY DEF Outcomes
<1>2. PICK d \in ByEntity(e.id, e.type, path) \cup Again(e, path) :
        o = [code |-> IF d.active THEN 200 ELSE 409, dev |-> IF d.active THEN d ELSE NoDevice]
  BY <1>1
<1>3. d \in devices
  BY DEF ByEntity, Again
<1>4. CASE d.active
  BY <1>2, <1>3, <1>4
<1>5. CASE ~d.active
  BY <1>2, <1>5
<1>. QED BY <1>4, <1>5

LEMMA UpdateElementKeeps == NgsiInv /\ UpdateElement => NgsiInv'
<1>. SUFFICES ASSUME NgsiInv, UpdateElement PROVE NgsiInv'
  OBVIOUS
<1>1. PICK o \in Outcomes(ngsi.elements[elem], Path) :
        /\ item_dev' = o.dev /\ rescode' = o.code /\ attr' = 1
        /\ npc' = IF o.code = 200 THEN "attribute" ELSE "respond"
  BY DEF UpdateElement
<1>2. /\ plugin' = plugin /\ devices' = devices /\ ngsi' = ngsi /\ elem' = elem
      /\ answers' = answers /\ notified' = notified /\ stored' = stored
      /\ npc = "element" /\ ngsi.op = "update" /\ elem <= Len(ngsi.elements)
  BY DEF UpdateElement
<1>3. NgsiStage /\ RequestRead /\ elem \in Elements /\ ~InLoop
  <2>1. NgsiStage
    BY DEF NgsiInv
  <2>2. RequestRead /\ elem \in 1..(Len(ngsi.elements) + 1) /\ ~InLoop
    BY <1>2, <2>1 DEF NgsiStage, InLoop
  <2>. QED BY <1>2, <2>1, <2>2 DEF RequestRead, Elements
<1>4. /\ npc' # "save" /\ npc' # "idle" /\ npc' # "answered 200" /\ npc' \notin Refusing
      /\ npc' \in {"attribute", "respond"} /\ InLoop' = (npc' = "attribute")
      /\ npc' = "attribute" => rescode' = 200 /\ item_dev' \in devices
      /\ npc' = "respond" => rescode' # 200
  <2>1. CASE o.code = 200
    BY <1>1, <2>1, OutcomesTyped DEF InLoop, Refusing
  <2>2. CASE o.code # 200
    BY <1>1, <2>2 DEF InLoop, Refusing
  <2>. QED BY <2>1, <2>2
<1>5. \A k \in Elements : \A j \in AttributesOf(k) :
        (Dealt(k, j)' <=> Dealt(k, j)) /\ (Dealt(k, j) <=> k < elem)
  <2>. TAKE k \in Elements
  <2>. TAKE j \in AttributesOf(k)
  <2>1. Len(ngsi.elements[k].attributes) \in Nat
    BY <1>2, <1>3 DEF RequestRead
  <2>2. j \in Int /\ ~(j < 1) /\ ngsi.elements = ngsi.elements
    BY <2>1 DEF AttributesOf
  <2>. QED BY <1>1, <1>2, <1>3, <1>4, <2>2 DEF Dealt
<1>6. /\ NgsiLists' /\ InTurn' /\ NotifiedFirst' /\ NotifiedTold'
      /\ StoredFits' /\ QueriesAnswered' /\ RequestRead'
      /\ \A k, j : InCollection(k, j)' <=> InCollection(k, j)
  BY <1>2, <1>3, <1>4, <1>5, NothingDone
<1>7. NgsiStage'
  <2>1. InLoop' => 1 \in 1..(Len(ngsi'.elements[elem].attributes) + 1)
    BY <1>2, <1>3 DEF RequestRead
  <2>2. elem \in 1..(Len(ngsi'.elements) + 1) /\ elem' \in Elements'
    BY <1>2, <1>3 DEF RequestRead, Elements
  <2>. QED BY <1>1, <1>2, <1>3, <1>4, <1>6, <2>1, <2>2 DEF NgsiStage
<1>8. CodesJudge'
  <2>1. \A k \in 1..Len(answers) : Judged(k, answers[k])'
    BY <1>2, <1>6 DEF NgsiInv, CodesJudge, Judged, AttributesOf
  <2>2. (\A j \in AttributesOf(elem) : ~Dealt(elem, j))'
    <3>1. elem' \in Int /\ ~(elem' < elem')
      BY <1>2, <1>3 DEF Elements, RequestRead
    <3>2. \A j \in AttributesOf(elem)' : j \in Nat /\ ~(j < 1)
      BY <1>2, <1>3 DEF AttributesOf, RequestRead
    <3>. QED BY <1>1, <1>4, <3>1, <3>2 DEF Dealt
  <2>3. InLoop' => JudgedSoFar'
    BY <1>4, <2>2 DEF JudgedSoFar
  <2>. QED BY <1>2, <2>1, <2>3 DEF CodesJudge
<1>. QED BY <1>6, <1>7, <1>8 DEF NgsiInv

LEMMA LoopFacts ==
  ASSUME NgsiInv, InLoop
  PROVE  /\ ngsi.op = "update" /\ RequestRead /\ elem \in Elements /\ elem \in Nat
         /\ Len(ngsi.elements) \in Nat /\ elem \in 1..(Len(ngsi.elements) + 1)
         /\ attr \in Nat /\ Len(ngsi.elements[elem].attributes) \in Nat
         /\ attr \in 1..(Len(ngsi.elements[elem].attributes) + 1)
         /\ item_dev \in devices /\ JudgedSoFar
         /\ npc # "attribute" => attr \in AttributesOf(elem)
         /\ npc \in {"attribute", "save", "execute", "next"} /\ npc # "idle" /\ npc \notin Refusing
<1>1. NgsiStage /\ npc \in {"attribute", "save", "execute", "next"}
  BY DEF NgsiInv, InLoop
<1>2. npc # "idle" /\ npc \notin Refusing
  BY <1>1 DEF Refusing
<1>3. /\ ngsi.op = "update" /\ RequestRead /\ elem \in Elements
      /\ attr \in 1..(Len(ngsi.elements[elem].attributes) + 1) /\ item_dev \in devices
      /\ npc # "attribute" => attr \in AttributesOf(elem)
      /\ elem \in 1..(Len(ngsi.elements) + 1)
  BY <1>1, <1>2 DEF NgsiStage
<1>4. Len(ngsi.elements[elem].attributes) \in Nat /\ Len(ngsi.elements) \in Nat
  BY <1>3 DEF RequestRead
<1>5. elem \in Nat /\ attr \in Nat
  BY <1>3, <1>4
<1>6. JudgedSoFar
  BY <1>3 DEF NgsiInv, CodesJudge
<1>. QED BY <1>1, <1>2, <1>3, <1>4, <1>5, <1>6

LEMMA DealtInLoop ==
  ASSUME NgsiInv, InLoop, InLoop', elem' = elem,
         \A j \in Nat : (j < attr' \/ (j = attr' /\ npc' \in {"execute", "next"}))
                     <=> (j < attr \/ (j = attr /\ npc \in {"execute", "next"})),
         ngsi' = ngsi
  PROVE  /\ \A k \in Elements : \A j \in AttributesOf(k) : Dealt(k, j)' <=> Dealt(k, j)
         /\ JudgedSoFar /\ rescode' = rescode /\ stored' = stored => JudgedSoFar'
<1>1. elem \in Nat /\ RequestRead /\ ngsi.op = "update" /\ elem \in Elements
  BY LoopFacts
<1>2. \A k \in Elements : \A j \in AttributesOf(k) : j \in Nat
  BY <1>1 DEF RequestRead, AttributesOf
<1>3. \A k \in Elements : \A j \in AttributesOf(k) : Dealt(k, j)' <=> Dealt(k, j)
  BY <1>2 DEF Dealt
<1>4. ASSUME JudgedSoFar, rescode' = rescode, stored' = stored PROVE JudgedSoFar'
  <2>1. AttributesOf(elem)' = AttributesOf(elem)
    BY DEF AttributesOf
  <2>2. (\A j \in AttributesOf(elem) : Dealt(elem, j) <=>
           (j < attr \/ (j = attr /\ npc \in {"execute", "next"})))'
    BY <1>1 DEF Dealt
  <2>3. \A j \in AttributesOf(elem) : Dealt(elem, j) <=>
           (j < attr \/ (j = attr /\ npc \in {"execute", "next"}))
    BY <1>1 DEF Dealt
  <2>4. \A j \in AttributesOf(elem) : InCollection(elem, j)' <=> InCollection(elem, j)
    BY <1>4 DEF InCollection
  <2>. DEFINE was(j) == j < attr \/ (j = attr /\ npc \in {"execute", "next"})
  <2>5. \A j \in AttributesOf(elem) : Dealt(elem, j)' <=> Dealt(elem, j)
    BY <1>1, <1>2, <2>1, <2>2, <2>3
  <2>. QED BY <1>4, <2>1, <2>4, <2>5 DEF JudgedSoFar
<1>. QED BY <1>3, <1>4

LEMMA ExecuteCommandKeeps == NgsiInv /\ ExecuteCommand => NgsiInv'
<1>. SUFFICES ASSUME NgsiInv, ExecuteCommand PROVE NgsiInv'
  OBVIOUS
<1>1. /\ plugin' = plugin /\ devices' = devices /\ ngsi' = ngsi /\ elem' = elem
      /\ answers' = answers /\ notified' = notified /\ stored' = stored
      /\ item_dev' = item_dev /\ rescode' = rescode /\ attr' = attr
      /\ npc = "execute" /\ npc' = "next"
  BY DEF ExecuteCommand
<1>2. InLoop /\ InLoop' /\ npc \notin Refusing /\ npc' \notin Refusing
  BY <1>1 DEF InLoop, Refusing
<1>3. /\ \A k \in Elements : \A j \in AttributesOf(k) : Dealt(k, j)' <=> Dealt(k, j)
      /\ JudgedSoFar'
  <2>1. JudgedSoFar
    BY <1>2, LoopFacts
  <2>. QED BY <1>1, <1>2, <2>1, DealtInLoop
<1>4. /\ NgsiLists' /\ InTurn' /\ NotifiedFirst' /\ NotifiedTold'
      /\ StoredFits' /\ QueriesAnswered' /\ RequestRead'
      /\ \A k, j : InCollection(k, j)' <=> InCollection(k, j)
  BY <1>1, <1>2, <1>3, NothingDone
<1>5. NgsiStage'
  <2>1. AttributesOf(elem)' = AttributesOf(elem) /\ Elements' = Elements
    BY <1>1 DEF AttributesOf, Elements
  <2>. QED BY <1>1, <1>2, <1>4, <2>1, LoopFacts DEF NgsiStage, NgsiInv
<1>6. CodesJudge'
  <2>1. \A k \in 1..Len(answers) : Judged(k, answers[k])'
    <3>1. CodesJudge /\ ngsi.op = "update"
      BY <1>2, LoopFacts DEF NgsiInv
    <3>. QED BY <1>1, <1>4, <3>1 DEF CodesJudge, Judged, AttributesOf
  <2>. QED BY <1>1, <1>3, <2>1 DEF CodesJudge
<1>. QED BY <1>4, <1>5, <1>6 DEF NgsiInv

LEMMA NextAttributeKeeps == NgsiInv /\ NextAttribute => NgsiInv'
<1>. SUFFICES ASSUME NgsiInv, NextAttribute PROVE NgsiInv'
  OBVIOUS
<1>1. /\ plugin' = plugin /\ devices' = devices /\ ngsi' = ngsi /\ elem' = elem
      /\ answers' = answers /\ notified' = notified /\ stored' = stored
      /\ item_dev' = item_dev /\ rescode' = rescode /\ attr' = attr + 1
      /\ npc = "next" /\ npc' = "attribute"
  BY DEF NextAttribute
<1>2. InLoop /\ InLoop' /\ npc \notin Refusing /\ npc' \notin Refusing
  BY <1>1 DEF InLoop, Refusing
<1>3. /\ \A k \in Elements : \A j \in AttributesOf(k) : Dealt(k, j)' <=> Dealt(k, j)
      /\ JudgedSoFar'
  <2>1. JudgedSoFar /\ attr \in Nat
    BY <1>2, LoopFacts
  <2>2. \A j \in Nat : (j < attr' \/ (j = attr' /\ npc' \in {"execute", "next"}))
                   <=> (j < attr \/ (j = attr /\ npc \in {"execute", "next"}))
    BY <1>1, <2>1
  <2>. QED BY <1>1, <1>2, <2>1, <2>2, DealtInLoop
<1>4. /\ NgsiLists' /\ InTurn' /\ NotifiedFirst' /\ NotifiedTold'
      /\ StoredFits' /\ QueriesAnswered' /\ RequestRead'
      /\ \A k, j : InCollection(k, j)' <=> InCollection(k, j)
  BY <1>1, <1>2, <1>3, NothingDone
<1>5. NgsiStage'
  <2>1. AttributesOf(elem)' = AttributesOf(elem) /\ Elements' = Elements
    BY <1>1 DEF AttributesOf, Elements
  <2>2. attr' \in 1..(Len(ngsi'.elements[elem'].attributes) + 1)
    <3>1. attr \in 1..Len(ngsi.elements[elem].attributes) /\ Len(ngsi.elements[elem].attributes) \in Nat
      BY <1>1, <1>2, LoopFacts DEF AttributesOf
    <3>. QED BY <1>1, <3>1
  <2>. QED BY <1>1, <1>2, <1>4, <2>1, <2>2, LoopFacts DEF NgsiStage, NgsiInv
<1>6. CodesJudge'
  <2>1. \A k \in 1..Len(answers) : Judged(k, answers[k])'
    <3>1. CodesJudge /\ ngsi.op = "update"
      BY <1>2, LoopFacts DEF NgsiInv
    <3>. QED BY <1>1, <1>4, <3>1 DEF CodesJudge, Judged, AttributesOf
  <2>. QED BY <1>1, <1>3, <2>1 DEF CodesJudge
<1>. QED BY <1>4, <1>5, <1>6 DEF NgsiInv

LEMMA AnswerBrokerKeeps == NgsiInv /\ AnswerBroker => NgsiInv'
<1>. SUFFICES ASSUME NgsiInv, AnswerBroker PROVE NgsiInv'
  OBVIOUS
<1>1. /\ plugin' = plugin /\ devices' = devices /\ ngsi' = ngsi /\ elem' = elem
      /\ answers' = answers /\ notified' = notified /\ stored' = stored
      /\ npc = "element" /\ npc' = "answered 200" /\ elem > Len(ngsi.elements)
  BY DEF AnswerBroker
<1>2. ~InLoop /\ ~InLoop' /\ npc \notin Refusing /\ npc' \notin Refusing
  BY <1>1 DEF InLoop, Refusing
<1>3. \A k \in Elements : \A j \in AttributesOf(k) : Dealt(k, j)' <=> Dealt(k, j)
  BY <1>1, <1>2 DEF Dealt
<1>4. /\ NgsiLists' /\ InTurn' /\ NotifiedFirst' /\ NotifiedTold'
      /\ StoredFits' /\ QueriesAnswered' /\ RequestRead'
      /\ \A k, j : InCollection(k, j)' <=> InCollection(k, j)
  BY <1>1, <1>2, <1>3, NothingDone
<1>5. NgsiStage'
  <2>1. elem \in 1..(Len(ngsi.elements) + 1) /\ NgsiStage
    BY <1>1 DEF NgsiInv, NgsiStage
  <2>2. elem = Len(ngsi.elements) + 1
    <3>. DEFINE n == Len(ngsi.elements)
    <3>1. RequestRead
      BY <1>1, <2>1 DEF NgsiStage
    <3>2. n \in Nat /\ elem \in 1..(n + 1) /\ elem > n
      BY <1>1, <2>1, <3>1 DEF RequestRead
    <3>. HIDE DEF n
    <3>3. elem = n + 1
      BY <3>2
    <3>. QED BY <3>3 DEF n
  <2>. QED BY <1>1, <1>2, <1>4, <2>1, <2>2 DEF NgsiStage
<1>6. CodesJudge'
  <2>1. \A k : AttributesOf(k)' = AttributesOf(k)
    BY <1>1 DEF AttributesOf
  <2>2. \A k, answer : Judged(k, answer)' <=> Judged(k, answer)
    BY <1>4, <2>1 DEF Judged
  <2>3. ngsi.op = "update" => \A k \in 1..Len(answers) : Judged(k, answers[k])
    BY DEF NgsiInv, CodesJudge
  <2>4. (ngsi.op = "update")' => \A k \in 1..Len(answers') : Judged(k, answers'[k])
    BY <1>1, <2>3
  <2>5. (ngsi.op = "update" => \A k \in 1..Len(answers) : Judged(k, answers[k]))'
    BY <2>2, <2>4
  <2>. QED BY <1>2, <2>5 DEF CodesJudge
<1>. QED BY <1>4, <1>5, <1>6 DEF NgsiInv

LEMMA RefuseAttributeKeeps == NgsiInv /\ RefuseAttribute => NgsiInv'
<1>. SUFFICES ASSUME NgsiInv, RefuseAttribute PROVE NgsiInv'
  OBVIOUS
<1>1. /\ plugin' = plugin /\ devices' = devices /\ ngsi' = ngsi /\ elem' = elem
      /\ answers' = answers /\ notified' = notified /\ stored' = stored
      /\ item_dev' = item_dev /\ attr' = attr + 1 /\ rescode' # 200
      /\ npc = "attribute" /\ npc' = "attribute" /\ MoreAttributes
  BY DEF RefuseAttribute, Code
<1>2. InLoop /\ InLoop' /\ npc \notin Refusing /\ npc' \notin Refusing
  BY <1>1 DEF InLoop, Refusing
<1>3. /\ elem \in Nat /\ attr \in Nat /\ RequestRead /\ ngsi.op = "update"
      /\ elem \in Elements /\ attr \in AttributesOf(elem)
      /\ attr' \in 1..(Len(ngsi'.elements[elem'].attributes) + 1)
  <2>1. /\ elem \in Nat /\ attr \in Nat /\ RequestRead /\ ngsi.op = "update"
        /\ elem \in Elements /\ Len(ngsi.elements[elem].attributes) \in Nat
        /\ attr \in 1..(Len(ngsi.elements[elem].attributes) + 1)
    BY <1>2, LoopFacts
  <2>2. attr <= Len(ngsi.elements[elem].attributes)
    BY <1>1 DEF MoreAttributes
  <2>. QED BY <1>1, <2>1, <2>2 DEF AttributesOf
<1>4. /\ AttributesOf(elem)' = AttributesOf(elem) /\ Elements' = Elements
      /\ \A k, j : InCollection(k, j)' <=> InCollection(k, j)
  BY <1>1 DEF AttributesOf, Elements, InCollection
<1>5. \A k \in Elements : \A j \in AttributesOf(k) : j \in Nat
  BY <1>3 DEF RequestRead, AttributesOf
<1>6. \A k \in Elements : \A j \in AttributesOf(k) :
        Dealt(k, j)' <=> Dealt(k, j) \/ (k = elem /\ j = attr)
  BY <1>1, <1>2, <1>3, <1>5 DEF Dealt
<1>7. NgsiStage'
  <2>1. RequestRead'
    BY <1>1, <1>3 DEF RequestRead, Elements, AttributesOf
  <2>. QED BY <1>1, <1>2, <1>3, <1>4, <2>1, LoopFacts DEF NgsiStage, NgsiInv
<1>8. NgsiLists' /\ NotifiedFirst' /\ StoredFits' /\ QueriesAnswered'
  BY <1>1 DEF NgsiInv, NgsiLists, NotifiedFirst, StoredFits, QueriesAnswered, Fits, AtPlace
<1>9. InTurn'
  <2>1. \A x : Placed(x)' <=> Placed(x)
    BY <1>1 DEF Placed, Elements, AttributesOf
  <2>2. \A x : Placed(x) /\ Dealt(x.elem, x.attr) => Dealt(x.elem, x.attr)'
    BY <1>6 DEF Placed
  <2>. QED BY <1>1, <2>1, <2>2 DEF NgsiInv, InTurn
<1>10. NotifiedTold'
  BY <1>1, <1>2, <1>4 DEF NgsiInv, NotifiedTold
<1>11. CodesJudge'
  <2>1. \A k \in 1..Len(answers) : Judged(k, answers[k])'
    BY <1>1, <1>3, <1>4 DEF NgsiInv, CodesJudge, Judged, AttributesOf
  <2>2. ~InCollection(elem, attr)
    <3>1. ASSUME NEW i \in 1..Len(stored) PROVE ~AtPlace(stored[i], elem, attr)
      <4>1. Dealt(stored[i].elem, stored[i].attr)
        BY <3>1 DEF NgsiInv, InTurn
      <4>2. ~Dealt(elem, attr)
        BY <1>1, <1>3 DEF Dealt
      <4>. QED BY <4>1, <4>2 DEF AtPlace
    <3>. QED BY <3>1 DEF InCollection, AtPlace
  <2>3. PICK a : a = attr
    OBVIOUS
  <2>4. Dealt(elem, a)'
    BY <1>1, <1>2, <1>3, <2>3 DEF Dealt
  <2>5. ~InCollection(elem, a)'
    BY <1>1, <2>2, <2>3 DEF InCollection
  <2>6. a \in AttributesOf(elem)'
    BY <1>3, <1>4, <2>3
  <2>. QED BY <1>1, <2>1, <2>4, <2>5, <2>6 DEF CodesJudge, JudgedSoFar
<1>. QED BY <1>7, <1>8, <1>9, <1>10, <1>11 DEF NgsiInv

LEMMA QueryEntityKeeps == NgsiInv /\ QueryEntity => NgsiInv'
<1>. SUFFICES ASSUME NgsiInv, QueryEntity PROVE NgsiInv'
  OBVIOUS
<1>1. PICK o \in Outcomes(ngsi.elements[elem], Path) :
        answers' = Append(answers, [code |-> o.code,
                                    commands |-> IF o.code = 200 THEN CommandAttributes(o.dev) ELSE {}])
  BY DEF QueryEntity
<1>2. /\ plugin' = plugin /\ devices' = devices /\ ngsi' = ngsi /\ elem' = elem + 1
      /\ notified' = notified /\ stored' = stored /\ npc' = npc
      /\ npc = "element" /\ ngsi.op = "query" /\ elem <= Len(ngsi.elements)
  BY DEF QueryEntity
<1>3. /\ NgsiStage /\ RequestRead /\ NgsiLists /\ QueriesAnswered
      /\ notified = <<>> /\ stored = <<>> /\ elem \in 1..(Len(ngsi.elements) + 1)
      /\ ~InLoop /\ ~InLoop'
  BY <1>2 DEF NgsiInv, NgsiStage, InLoop
<1>4. /\ Len(notified) = 0 /\ Len(stored) = 0 /\ 1..0 = {}
      /\ npc \notin Refusing /\ npc # "save"
  BY <1>2, <1>3 DEF Refusing
<1>5. elem \in Nat /\ elem' \in 1..(Len(ngsi'.elements) + 1) /\ RequestRead'
  <2>. DEFINE n == Len(ngsi.elements)
  <2>1. n \in Nat /\ elem \in 1..(n + 1) /\ elem <= n
    BY <1>2, <1>3 DEF RequestRead
  <2>. HIDE DEF n
  <2>2. elem \in Nat /\ elem + 1 \in 1..(n + 1)
    BY <2>1
  <2>. QED BY <1>2, <1>3, <2>2 DEF n, RequestRead
<1>. DEFINE made == [code |-> o.code,
                     commands |-> IF o.code = 200 THEN CommandAttributes(o.dev) ELSE {}]
<1>6. Extended(answers', answers, made)
  BY <1>1, <1>3, ListAppended DEF NgsiLists
<1>. HIDE DEF made
<1>7. NgsiStage'
  BY <1>2, <1>3, <1>4, <1>5 DEF NgsiStage
<1>8. NgsiLists'
  BY <1>2, <1>3, <1>5, <1>6 DEF NgsiLists, Extended
<1>9. InTurn' /\ NotifiedFirst' /\ NotifiedTold' /\ StoredFits'
  BY <1>2, <1>3, <1>4 DEF InTurn, NotifiedFirst, NotifiedTold, StoredFits
<1>10. CodesJudge'
  BY <1>2 DEF CodesJudge
<1>11. QueriesAnswered'
  <2>1. ASSUME NEW k \in 1..Len(answers'), answers'[k].code = 200
        PROVE  \E d \in devices : d.active /\ answers'[k].commands = DOMAIN d.commands
    <3>1. CASE k \in 1..Len(answers) /\ answers'[k] = answers[k]
      BY <1>2, <1>3, <2>1, <3>1 DEF QueriesAnswered
    <3>2. CASE answers'[k] = made
      <4>1. o.code = 200 /\ answers'[k].commands = DOMAIN o.dev.commands
        BY <2>1, <3>2 DEF CommandAttributes, made
      <4>2. o.dev \in devices /\ o.dev.active
        BY <4>1, OutcomesTyped
      <4>. QED BY <4>1, <4>2
    <3>. QED BY <1>6, <3>1, <3>2 DEF Extended
  <2>. QED BY <1>2, <2>1 DEF QueriesAnswered
<1>. QED BY <1>7, <1>8, <1>9, <1>10, <1>11 DEF NgsiInv

LEMMA PublishStatusKeeps == NgsiInv /\ PublishStatus => NgsiInv'
<1>. SUFFICES ASSUME NgsiInv, PublishStatus PROVE NgsiInv'
  OBVIOUS
<1>. DEFINE made == GetCommandLine(item_dev, CurrentAttr)
            told == [elem |-> elem, attr |-> attr, device |-> item_dev,
                     status |-> IF is_push_type_of_command THEN "pending" ELSE "ready for read"]
<1>1. /\ plugin' = plugin /\ devices' = devices /\ ngsi' = ngsi /\ elem' = elem
      /\ answers' = answers /\ stored' = stored /\ item_dev' = item_dev
      /\ attr' = attr /\ rescode' = rescode
      /\ npc = "attribute" /\ MoreAttributes
      /\ made.why \in {"ok", "beyond"} /\ line' = [id |-> made.id, body |-> made.body]
      /\ npc' = IF made.why = "ok" THEN "save" ELSE "undefined"
      /\ notified' = Append(notified, told)
  BY DEF PublishStatus
<1>2. InLoop /\ npc \notin Refusing
  BY <1>1 DEF InLoop, Refusing
<1>3. /\ elem \in Nat /\ attr \in Nat /\ RequestRead /\ ngsi.op = "update"
      /\ elem \in Elements /\ attr \in AttributesOf(elem) /\ item_dev \in devices
  <2>1. /\ elem \in Nat /\ attr \in Nat /\ RequestRead /\ ngsi.op = "update"
        /\ elem \in Elements /\ Len(ngsi.elements[elem].attributes) \in Nat
        /\ attr \in 1..(Len(ngsi.elements[elem].attributes) + 1) /\ item_dev \in devices
    BY <1>2, LoopFacts
  <2>2. attr <= Len(ngsi.elements[elem].attributes)
    BY <1>1 DEF MoreAttributes
  <2>. QED BY <2>1, <2>2 DEF AttributesOf
<1>4. /\ made.why = "ok"
      /\ plugin = "ul20" => Fits(item_dev, CurrentAttr, made.id, made.body)
  <2>1. AttributeOK(CurrentAttr)
    BY <1>3 DEF RequestRead, CurrentAttr
  <2>2. \A n \in DOMAIN item_dev.commands : item_dev.commands[n] \in Seq(Symbols)
    BY <1>3, NgsiDevicesAssumption DEF NgsiDevicesAssumption, NgsiInv, NgsiStage
  <2>. HIDE DEF made
  <2>3. made = GetCommandLine(item_dev, CurrentAttr)
    BY DEF made
  <2>4. made.why # "beyond" /\ (made.why = "ok" /\ plugin = "ul20" =>
          Fits(item_dev, CurrentAttr, made.id, made.body))
    BY <2>1, <2>2, <2>3, LineMade
  <2>. QED BY <1>1, <2>4
<1>5. npc' = "save" /\ InLoop' /\ npc' \notin Refusing
  BY <1>1, <1>4 DEF InLoop, Refusing
<1>. HIDE DEF made
<1>6. Extended(notified', notified, told)
  <2>1. IsList(notified)
    BY DEF NgsiInv, NgsiLists
  <2>. QED BY <1>1, <2>1, ListAppended
<1>. DEFINE before(n) == n \in 1..Len(notified) /\ notified'[n] = notified[n]
<1>list. /\ IsList(notified') /\ \A n \in 1..Len(notified') : before(n) \/ notified'[n] = told
         /\ \A p \in 1..Len(notified) : p \in 1..Len(notified') /\ notified'[p] = notified[p]
         /\ \E p \in 1..Len(notified') : notified'[p] = told
  BY <1>6 DEF Extended
<1>last. told.elem = elem /\ told.attr = attr /\ told.device = item_dev
  OBVIOUS
<1>. HIDE DEF told
<1>7. /\ AttributesOf(elem)' = AttributesOf(elem) /\ Elements' = Elements
      /\ \A k, j : InCollection(k, j)' <=> InCollection(k, j)
      /\ \A x : Placed(x)' <=> Placed(x)
  BY <1>1 DEF AttributesOf, Elements, InCollection, Placed
<1>8. /\ \A k \in Elements : \A j \in AttributesOf(k) : Dealt(k, j)' <=> Dealt(k, j)
      /\ JudgedSoFar'
  <2>1. JudgedSoFar
    BY <1>2, LoopFacts
  <2>2. \A j \in Nat : (j < attr' \/ (j = attr' /\ npc' \in {"execute", "next"}))
                   <=> (j < attr \/ (j = attr /\ npc \in {"execute", "next"}))
    BY <1>1, <1>5
  <2>. QED BY <1>1, <1>2, <1>5, <2>1, <2>2, DealtInLoop
<1>9. NgsiStage'
  <2>1. RequestRead'
    BY <1>1, <1>3 DEF RequestRead, Elements, AttributesOf
  <2>. QED BY <1>1, <1>2, <1>3, <1>5, <1>7, <2>1, LoopFacts DEF NgsiStage, NgsiInv
<1>10. NgsiLists' /\ QueriesAnswered'
  BY <1>1, <1>list DEF NgsiInv, NgsiLists, QueriesAnswered
<1>11. InTurn'
  <2>1. \A x : Placed(x) /\ Dealt(x.elem, x.attr) => Dealt(x.elem, x.attr)'
    BY <1>8 DEF Placed
  <2>2. ASSUME NEW p \in 1..Len(notified'), NEW x, x = notified'[p]
        PROVE  Placed(x) /\ (Dealt(x.elem, x.attr)' \/ AtPlace(x, elem, attr))
    <3>1. CASE before(p)
      <4>1. Placed(x) /\ Dealt(x.elem, x.attr)
        BY <1>1, <2>2, <3>1 DEF NgsiInv, InTurn
      <4>. QED BY <2>1, <4>1
    <3>2. CASE x = told
      BY <1>3, <1>last, <3>2 DEF Placed, AtPlace
    <3>. QED BY <1>list, <2>2, <3>1, <3>2
  <2>3. ASSUME NEW i \in 1..Len(stored), NEW x, x = stored[i]
        PROVE  Placed(x) /\ Dealt(x.elem, x.attr)'
    BY <2>1, <2>3 DEF NgsiInv, InTurn
  <2>. QED BY <1>1, <1>5, <1>7, <2>2, <2>3 DEF InTurn, AtPlace
<1>12. NotifiedFirst'
  <2>1. ASSUME NEW i \in 1..Len(stored)
        PROVE  \E p \in 1..Len(notified') :
                 /\ AtPlace(notified'[p], stored[i].elem, stored[i].attr)
                 /\ notified'[p].device = stored[i].device
    <3>1. PICK p \in 1..Len(notified) : AtPlace(notified[p], stored[i].elem, stored[i].attr)
                                       /\ notified[p].device = stored[i].device
      BY DEF NgsiInv, NotifiedFirst
    <3>2. p \in 1..Len(notified') /\ notified'[p] = notified[p]
      BY <1>list
    <3>. QED BY <3>1, <3>2
  <2>2. \E p \in 1..Len(notified') :
          AtPlace(notified'[p], elem, attr) /\ notified'[p].device = item_dev
    <3>1. PICK p \in 1..Len(notified') : notified'[p] = told
      BY <1>6 DEF Extended
    <3>. QED BY <1>last, <3>1 DEF AtPlace
  <2>. QED BY <1>1, <2>1, <2>2 DEF NotifiedFirst
<1>13. NotifiedTold'
  <2>1. ASSUME NEW p \in 1..Len(notified')
        PROVE  \/ InCollection(notified'[p].elem, notified'[p].attr)
               \/ notified'[p].elem \in 1..Len(answers) /\ answers[notified'[p].elem].code # 200
               \/ notified'[p].elem = elem /\ rescode # 200
               \/ AtPlace(notified'[p], elem, attr)
    <3>1. CASE before(p)
      BY <3>1 DEF NgsiInv, NotifiedTold
    <3>2. CASE notified'[p] = told
      BY <1>last, <3>2 DEF AtPlace
    <3>. QED BY <1>list, <3>1, <3>2
  <2>. QED BY <1>1, <1>5, <1>7, <2>1 DEF NotifiedTold, InCollection, AtPlace
<1>14. StoredFits'
  <2>1. line'.id = made.id /\ line'.body = made.body /\ CurrentAttr' = CurrentAttr
    BY <1>1 DEF CurrentAttr
  <2>. QED BY <1>1, <1>4, <2>1 DEF NgsiInv, StoredFits, Fits
<1>15. CodesJudge'
  <2>1. \A k \in 1..Len(answers) : Judged(k, answers[k])'
    BY <1>1, <1>3, <1>7 DEF NgsiInv, CodesJudge, Judged, AttributesOf
  <2>. QED BY <1>1, <1>8, <2>1 DEF CodesJudge
<1>. QED BY <1>9, <1>10, <1>11, <1>12, <1>13, <1>14, <1>15 DEF NgsiInv

LEMMA SaveCommandKeeps == NgsiInv /\ SaveCommand => NgsiInv'
<1>. SUFFICES ASSUME NgsiInv, SaveCommand PROVE NgsiInv'
  OBVIOUS
<1>1. /\ plugin' = plugin /\ devices' = devices /\ ngsi' = ngsi /\ elem' = elem
      /\ answers' = answers /\ notified' = notified /\ item_dev' = item_dev
      /\ attr' = attr /\ line' = line /\ npc = "save"
  BY DEF SaveCommand
<1>2. PICK in_db \in BOOLEAN :
        /\ stored' = Append(stored, [elem |-> elem, attr |-> attr, device |-> item_dev,
                                     id |-> line.id, body |-> line.body, in_db |-> in_db])
        /\ npc' \in {"execute", "next"}
        /\ rescode' = IF in_db THEN rescode ELSE 500
  <2>1. PICK in_db \in BOOLEAN :
        /\ stored' = Append(stored, [elem |-> elem, attr |-> attr, device |-> item_dev,
                                     id |-> line.id, body |-> line.body, in_db |-> in_db])
        /\ IF in_db
           THEN /\ npc' = IF is_push_type_of_command THEN "execute" ELSE "next"
                /\ UNCHANGED rescode
           ELSE rescode' = DatabaseError /\ npc' = "next"
    BY DEF SaveCommand
  <2>. QED BY <2>1 DEF DatabaseError
<1>. DEFINE saved == [elem |-> elem, attr |-> attr, device |-> item_dev,
                      id |-> line.id, body |-> line.body, in_db |-> in_db]
<1>3. InLoop /\ InLoop' /\ npc \notin Refusing /\ npc' \notin Refusing
  BY <1>1, <1>2 DEF InLoop, Refusing
<1>4. /\ elem \in Nat /\ attr \in Nat /\ RequestRead /\ ngsi.op = "update"
      /\ elem \in Elements /\ attr \in AttributesOf(elem) /\ item_dev \in devices
  BY <1>1, <1>3, LoopFacts
<1>5. Extended(stored', stored, saved)
  <2>1. IsList(stored)
    BY DEF NgsiInv, NgsiLists
  <2>. QED BY <1>2, <2>1, ListAppended
<1>. DEFINE before(n) == n \in 1..Len(stored) /\ stored'[n] = stored[n]
<1>6. /\ IsList(stored') /\ \A i \in 1..Len(stored') : before(i) \/ stored'[i] = saved
      /\ \A i \in 1..Len(stored) : i \in 1..Len(stored') /\ stored'[i] = stored[i]
      /\ \E i \in 1..Len(stored') : stored'[i] = saved
  BY <1>5 DEF Extended
<1>7. /\ saved.elem = elem /\ saved.attr = attr /\ saved.device = item_dev
      /\ saved.id = line.id /\ saved.body = line.body /\ saved.in_db = in_db
  OBVIOUS
<1>. HIDE DEF saved
<1>8. /\ AttributesOf(elem)' = AttributesOf(elem) /\ Elements' = Elements
      /\ \A x : Placed(x)' <=> Placed(x)
  BY <1>1 DEF AttributesOf, Elements, Placed
<1>9. \A k, j : InCollection(k, j)' <=> InCollection(k, j) \/ (k = elem /\ j = attr /\ in_db)
  <2>. TAKE k, j
  <2>1. InCollection(k, j) => InCollection(k, j)'
    BY <1>6 DEF InCollection
  <2>2. k = elem /\ j = attr /\ in_db => InCollection(k, j)'
    BY <1>6, <1>7 DEF InCollection
  <2>3. InCollection(k, j)' => InCollection(k, j) \/ (k = elem /\ j = attr /\ in_db)
    BY <1>6, <1>7 DEF InCollection
  <2>. QED BY <2>1, <2>2, <2>3
<1>10. \A k \in Elements : \A j \in AttributesOf(k) : j \in Nat
  BY <1>4 DEF RequestRead, AttributesOf
<1>11. \A k \in Elements : \A j \in AttributesOf(k) :
         Dealt(k, j)' <=> Dealt(k, j) \/ (k = elem /\ j = attr)
  BY <1>1, <1>2, <1>3, <1>4, <1>10 DEF Dealt
<1>12. ~Dealt(elem, attr) /\ ~InCollection(elem, attr)
  <2>1. ~Dealt(elem, attr)
    BY <1>1, <1>4 DEF Dealt
  <2>2. ASSUME NEW i \in 1..Len(stored) PROVE ~AtPlace(stored[i], elem, attr)
    BY <2>1, <2>2 DEF NgsiInv, InTurn, AtPlace
  <2>. QED BY <2>1, <2>2 DEF InCollection, AtPlace
<1>13. NgsiStage'
  <2>1. RequestRead'
    BY <1>1, <1>4 DEF RequestRead, Elements, AttributesOf
  <2>2. npc' # "respond" /\ npc' # "answered 200" /\ npc' # "idle"
    BY <1>2
  <2>. QED BY <1>1, <1>3, <1>4, <1>8, <2>1, <2>2, LoopFacts DEF NgsiStage, NgsiInv
<1>14. NgsiLists' /\ QueriesAnswered'
  BY <1>1, <1>6 DEF NgsiInv, NgsiLists, QueriesAnswered
<1>15. InTurn'
  <2>1. ASSUME NEW i \in 1..Len(stored'), NEW x, x = stored'[i]
        PROVE  Placed(x) /\ Dealt(x.elem, x.attr)'
    <3>1. CASE before(i)
      <4>1. Placed(x) /\ Dealt(x.elem, x.attr)
        BY <2>1, <3>1 DEF NgsiInv, InTurn
      <4>. QED BY <1>11, <4>1 DEF Placed
    <3>2. CASE x = saved
      BY <1>4, <1>7, <1>11, <3>2 DEF Placed
    <3>. QED BY <1>6, <2>1, <3>1, <3>2
  <2>2. ASSUME NEW p \in 1..Len(notified), NEW x, x = notified[p]
        PROVE  Placed(x) /\ Dealt(x.elem, x.attr)'
    <3>1. Placed(x) /\ (Dealt(x.elem, x.attr) \/ AtPlace(x, elem, attr))
      BY <2>2 DEF NgsiInv, InTurn
    <3>. QED BY <1>11, <3>1 DEF Placed, AtPlace
  <2>. QED BY <1>1, <1>8, <2>1, <2>2 DEF InTurn
<1>16. NotifiedFirst'
  <2>1. ASSUME NEW i \in 1..Len(stored')
        PROVE  \E p \in 1..Len(notified) :
                 /\ AtPlace(notified[p], stored'[i].elem, stored'[i].attr)
                 /\ notified[p].device = stored'[i].device
    <3>1. CASE before(i)
      BY <3>1 DEF NgsiInv, NotifiedFirst
    <3>2. CASE stored'[i] = saved
      BY <1>1, <1>7, <3>2 DEF NgsiInv, NotifiedFirst
    <3>. QED BY <1>6, <3>1, <3>2
  <2>. QED BY <1>1, <1>2, <2>1 DEF NotifiedFirst
<1>17. NotifiedTold'
  <2>1. ASSUME NEW p \in 1..Len(notified), NEW x, x = notified[p]
        PROVE  \/ InCollection(x.elem, x.attr)'
               \/ x.elem \in 1..Len(answers) /\ answers[x.elem].code # 200
               \/ x.elem = elem /\ rescode' # 200
    <3>1. \/ InCollection(x.elem, x.attr)
          \/ x.elem \in 1..Len(answers) /\ answers[x.elem].code # 200
          \/ x.elem = elem /\ rescode # 200
          \/ AtPlace(x, elem, attr)
      BY <2>1 DEF NgsiInv, NotifiedTold
    <3>. QED BY <1>2, <1>9, <3>1 DEF AtPlace
  <2>. QED BY <1>1, <1>3, <2>1 DEF NotifiedTold
<1>18. StoredFits'
  <2>1. ASSUME plugin = "ul20", NEW i \in 1..Len(stored'), NEW x, x = stored'[i]
        PROVE  Fits(x.device, ngsi.elements[x.elem].attributes[x.attr], x.id, x.body)
    <3>1. CASE before(i)
      BY <2>1, <3>1 DEF NgsiInv, StoredFits
    <3>2. CASE x = saved
      BY <1>1, <1>7, <2>1, <3>2 DEF NgsiInv, StoredFits, CurrentAttr
    <3>. QED BY <1>6, <2>1, <3>1, <3>2
  <2>. QED BY <1>1, <1>2, <2>1 DEF StoredFits, Fits
<1>19. CodesJudge'
  <2>1. \A k \in 1..Len(answers) : Judged(k, answers[k])'
    <3>1. ASSUME NEW k \in 1..Len(answers) PROVE k < elem /\ (k = elem <=> FALSE)
      <4>1. Len(answers) = elem - 1
        BY DEF NgsiInv, NgsiLists
      <4>. QED BY <1>4, <4>1
    <3>2. ASSUME NEW k \in 1..Len(answers) PROVE Judged(k, answers[k])
      BY <1>4 DEF NgsiInv, CodesJudge
    <3>. QED BY <1>1, <1>9, <3>1, <3>2 DEF Judged, AttributesOf
  <2>2. PICK e, a : e = elem /\ a = attr
    OBVIOUS
  <2>3. JudgedSoFar
    BY <1>3, LoopFacts
  <2>4. \A j \in AttributesOf(e) : Dealt(e, j)' <=> Dealt(e, j) \/ j = a
    BY <1>4, <1>11, <2>2
  <2>5. CASE in_db
    <3>1. rescode' = rescode /\ \A j : InCollection(e, j)' <=> InCollection(e, j) \/ j = a
      BY <1>2, <1>9, <2>2, <2>5
    <3>2. rescode = 200 => \A j \in AttributesOf(e) : Dealt(e, j)' => InCollection(e, j)'
      BY <2>2, <2>3, <2>4, <3>1 DEF JudgedSoFar
    <3>3. rescode # 200 => \E j \in AttributesOf(e) : Dealt(e, j)' /\ ~InCollection(e, j)'
      <4>1. \A j \in AttributesOf(e) : Dealt(e, j) /\ ~InCollection(e, j) =>
              Dealt(e, j)' /\ ~InCollection(e, j)'
        BY <1>12, <2>2, <2>4, <3>1
      <4>. QED BY <2>2, <2>3, <4>1 DEF JudgedSoFar
    <3>4. e = elem' /\ AttributesOf(e)' = AttributesOf(e)
      BY <1>1, <2>2 DEF AttributesOf
    <3>. QED BY <1>1, <2>1, <3>1, <3>2, <3>3, <3>4 DEF CodesJudge, JudgedSoFar
  <2>6. CASE ~in_db
    <3>1. rescode' # 200 /\ a \in AttributesOf(e) /\ Dealt(e, a)' /\ ~InCollection(e, a)'
      BY <1>2, <1>4, <1>9, <1>12, <2>2, <2>4, <2>6
    <3>4. e = elem' /\ AttributesOf(e)' = AttributesOf(e)
      BY <1>1, <2>2 DEF AttributesOf
    <3>. QED BY <1>1, <2>1, <3>1, <3>4 DEF CodesJudge, JudgedSoFar
  <2>. QED BY <2>5, <2>6
<1>. QED BY <1>13, <1>14, <1>15, <1>16, <1>17, <1>18, <1>19 DEF NgsiInv

LEMMA RespondKeeps == NgsiInv /\ Respond => NgsiInv'
<1>. SUFFICES ASSUME NgsiInv, Respond PROVE NgsiInv'
  OBVIOUS
<1>. DEFINE answer == [code |-> rescode, commands |-> {}]
<1>1. /\ plugin' = plugin /\ devices' = devices /\ ngsi' = ngsi /\ elem' = elem + 1
      /\ notified' = notified /\ stored' = stored /\ npc' = "element"
      /\ answers' = Append(answers, answer)
      /\ npc = "respond" \/ (npc = "attribute" /\ ~MoreAttributes)
  <2>1. npc = "respond" \/ (npc = "attribute" /\ ~MoreAttributes)
    BY DEF Respond
  <2>2. /\ plugin' = plugin /\ devices' = devices /\ ngsi' = ngsi /\ elem' = elem + 1
        /\ notified' = notified /\ stored' = stored /\ npc' = "element"
        /\ answers' = Append(answers, answer)
    BY DEF Respond
  <2>. QED BY <2>1, <2>2
<1>2. ~InLoop' /\ npc # "save" /\ npc' # "save" /\ npc \notin {"execute", "next"}
  BY <1>1 DEF InLoop
<1>3. /\ NgsiStage /\ NgsiLists /\ InTurn /\ CodesJudge /\ NotifiedFirst /\ NotifiedTold
      /\ StoredFits /\ (npc = "respond" \/ InLoop)
  BY <1>1 DEF NgsiInv, InLoop
<1>4. /\ ngsi.op = "update" /\ RequestRead /\ elem \in Elements
      /\ npc # "idle"
  BY <1>1, <1>3 DEF NgsiStage
<1>5. elem \in Nat /\ elem' \in 1..(Len(ngsi'.elements) + 1) /\ RequestRead'
  <2>. DEFINE n == Len(ngsi.elements)
  <2>1. n \in Nat /\ elem \in 1..n
    BY <1>4 DEF RequestRead, Elements
  <2>. HIDE DEF n
  <2>2. elem \in Nat /\ elem + 1 \in 1..(n + 1)
    BY <2>1
  <2>3. RequestRead'
    BY <1>1, <1>4 DEF RequestRead, Elements, AttributesOf
  <2>. QED BY <1>1, <2>2, <2>3 DEF n
<1>6. Extended(answers', answers, answer)
  BY <1>1, <1>3, ListAppended DEF NgsiLists
<1>7. /\ IsList(answers') /\ Len(answers) = elem - 1 /\ Len(answers') = elem
      /\ \A k \in 1..Len(answers) : k \in 1..Len(answers') /\ answers'[k] = answers[k]
      /\ \A k \in 1..Len(answers') :
           (k \in 1..Len(answers) /\ answers'[k] = answers[k]) \/ (k = elem /\ answers'[k] = answer)
      /\ elem \in 1..Len(answers') /\ answers'[elem] = answer
  <2>1. Len(answers) = elem - 1 /\ elem \in Nat /\ elem # 0
    <3>1. elem # 0
      BY <1>4, <1>5 DEF Elements, RequestRead
    <3>. QED BY <1>3, <1>5, <3>1 DEF NgsiLists
  <2>. HIDE DEF answer
  <2>2. Len(answers') = elem
    BY <1>6, <2>1 DEF Extended
  <2>3. elem \in 1..Len(answers') /\ elem \notin 1..Len(answers)
    BY <2>1, <2>2
  <2>. QED BY <1>6, <2>1, <2>2, <2>3 DEF Extended
<1>8. answer.code = rescode
  OBVIOUS
<1>. HIDE DEF answer
<1>9. /\ Elements' = Elements
      /\ \A k : AttributesOf(k)' = AttributesOf(k)
      /\ \A k, j : InCollection(k, j)' <=> InCollection(k, j)
      /\ \A x : Placed(x)' <=> Placed(x)
  BY <1>1 DEF AttributesOf, Elements, InCollection, Placed
<1>10. \A k \in Elements : \A j \in AttributesOf(k) :
         /\ Dealt(k, j)' <=> k < elem + 1
         /\ Dealt(k, j) => k < elem + 1
  <2>1. \A k \in Elements : k \in Nat
    BY <1>4 DEF Elements, RequestRead
  <2>. QED BY <1>1, <1>2, <1>5, <2>1 DEF Dealt
<1>11. NgsiStage'
  <2>1. npc' \notin Refusing
    BY <1>1 DEF Refusing
  <2>. QED BY <1>1, <1>2, <1>3, <1>4, <1>5, <2>1 DEF NgsiStage
<1>12. NgsiLists'
  BY <1>1, <1>3, <1>5, <1>7 DEF NgsiLists
<1>13. InTurn'
  <2>1. ASSUME NEW i \in 1..Len(stored), NEW x, x = stored[i]
        PROVE  Placed(x) /\ Dealt(x.elem, x.attr)'
    BY <1>3, <1>10, <2>1 DEF InTurn, Placed
  <2>2. ASSUME NEW p \in 1..Len(notified), NEW x, x = notified[p]
        PROVE  Placed(x) /\ Dealt(x.elem, x.attr)'
    BY <1>2, <1>3, <1>10, <2>2 DEF InTurn, Placed
  <2>. QED BY <1>1, <1>9, <2>1, <2>2 DEF InTurn
<1>14. NotifiedFirst'
  BY <1>1, <1>3 DEF NotifiedFirst, AtPlace
<1>15. NotifiedTold'
  <2>1. ASSUME NEW p \in 1..Len(notified), NEW x, x = notified[p]
        PROVE  InCollection(x.elem, x.attr) \/ (x.elem \in 1..Len(answers') /\ answers'[x.elem].code # 200)
    <3>1. \/ InCollection(x.elem, x.attr)
          \/ x.elem \in 1..Len(answers) /\ answers[x.elem].code # 200
          \/ x.elem = elem /\ rescode # 200
      BY <1>2, <1>3, <2>1 DEF NotifiedTold
    <3>. QED BY <1>7, <1>8, <3>1
  <2>. QED BY <1>1, <1>9, <2>1 DEF NotifiedTold
<1>16. StoredFits'
  <2>1. plugin = "ul20" =>
          \A i \in 1..Len(stored) :
            Fits(stored[i].device, ngsi.elements[stored[i].elem].attributes[stored[i].attr],
                 stored[i].id, stored[i].body)
    BY <1>3 DEF StoredFits
  <2>. QED BY <1>1, <1>2, <2>1 DEF StoredFits, Fits
<1>17. QueriesAnswered'
  BY <1>1, <1>4 DEF QueriesAnswered
<1>18. CodesJudge'
  <2>1. Judged(elem, answer)
    <3>1. CASE npc = "respond"
      <4>1. rescode # 200 /\ ~InLoop
        BY <1>3, <3>1 DEF NgsiStage, InLoop
      <4>2. ASSUME NEW j, NEW i \in 1..Len(stored) PROVE ~AtPlace(stored[i], elem, j)
        <5>1. Dealt(stored[i].elem, stored[i].attr)
          BY <1>3, <4>2 DEF InTurn
        <5>. QED BY <1>5, <4>1, <5>1 DEF Dealt, AtPlace
      <4>3. \A j : ~InCollection(elem, j)
        BY <4>2 DEF InCollection, AtPlace
      <4>. QED BY <1>8, <4>1, <4>3 DEF Judged
    <3>2. CASE npc = "attribute" /\ ~MoreAttributes
      <4>1. InLoop
        BY <3>2 DEF InLoop
      <4>2. \A j \in AttributesOf(elem) : Dealt(elem, j)
        <5>1. Len(ngsi.elements[elem].attributes) \in Nat /\ attr \in Nat
          BY <4>1, LoopFacts
        <5>2. ~(attr <= Len(ngsi.elements[elem].attributes))
          BY <3>2 DEF MoreAttributes
        <5>3. \A j \in AttributesOf(elem) : j < attr
          BY <5>1, <5>2 DEF AttributesOf
        <5>. QED BY <4>1, <5>3 DEF Dealt
      <4>3. JudgedSoFar
        BY <4>1, LoopFacts
      <4>. QED BY <1>8, <4>2, <4>3 DEF JudgedSoFar, Judged
    <3>. QED BY <1>1, <3>1, <3>2
  <2>2. ASSUME NEW k \in 1..Len(answers') PROVE Judged(k, answers'[k])
    <3>1. CASE k \in 1..Len(answers) /\ answers'[k] = answers[k]
      BY <1>3, <1>4, <3>1 DEF CodesJudge
    <3>2. CASE k = elem /\ answers'[k] = answer
      BY <2>1, <3>2
    <3>. QED BY <1>7, <3>1, <3>2
  <2>3. \A k \in 1..Len(answers') : Judged(k, answers[k])'
    BY <1>9, <2>2 DEF Judged
  <2>. QED BY <1>1, <1>2, <2>3 DEF CodesJudge
<1>. QED BY <1>11, <1>12, <1>13, <1>14, <1>15, <1>16, <1>17, <1>18 DEF NgsiInv

LEMMA StepNgsiInv == NgsiInv /\ [NgsiNext]_ngsiVars => NgsiInv'
<1>. SUFFICES ASSUME NgsiInv, [NgsiNext]_ngsiVars PROVE NgsiInv'
  OBVIOUS
<1>1. CASE UNCHANGED ngsiVars
  <2>1. /\ plugin' = plugin /\ devices' = devices /\ ngsi' = ngsi /\ npc' = npc
        /\ elem' = elem /\ attr' = attr /\ item_dev' = item_dev /\ line' = line
        /\ rescode' = rescode /\ answers' = answers /\ notified' = notified
        /\ stored' = stored
    BY <1>1 DEF ngsiVars
  <2>2. NgsiStage' /\ NgsiLists'
    BY <2>1 DEF NgsiInv, NgsiStage, NgsiLists, RequestRead, Elements, AttributesOf, InLoop
  <2>3. InTurn' /\ NotifiedFirst' /\ NotifiedTold'
    BY <2>1 DEF NgsiInv, InTurn, NotifiedFirst, NotifiedTold, Placed, Elements, AttributesOf,
                InLoop, Dealt, AtPlace, InCollection
  <2>4. CodesJudge'
    <3>1. /\ \A k : AttributesOf(k)' = AttributesOf(k)
          /\ \A k, j : InCollection(k, j)' <=> InCollection(k, j)
      BY <2>1 DEF AttributesOf, InCollection
    <3>2. \A k \in 1..Len(answers) : Judged(k, answers[k])' <=> Judged(k, answers[k])
      BY <2>1, <3>1 DEF Judged
    <3>3. JudgedSoFar' <=> JudgedSoFar
      BY <2>1 DEF JudgedSoFar, AttributesOf, InLoop, Dealt, InCollection
    <3>4. InLoop' <=> InLoop
      BY <2>1 DEF InLoop
    <3>. QED BY <2>1, <3>2, <3>3, <3>4 DEF NgsiInv, CodesJudge
  <2>5. StoredFits'
    BY <2>1 DEF NgsiInv, StoredFits, Fits, CurrentAttr
  <2>6. QueriesAnswered'
    BY <2>1 DEF NgsiInv, QueriesAnswered
  <2>. QED BY <2>2, <2>3, <2>4, <2>5, <2>6 DEF NgsiInv
<1>2. CASE ReceiveUpdateContext
  BY <1>2, ReceiveUpdateKeeps
<1>3. CASE ReceiveQueryContext
  BY <1>3, ReceiveQueryKeeps
<1>4. CASE UpdateElement
  BY <1>4, UpdateElementKeeps
<1>5. CASE RefuseAttribute
  BY <1>5, RefuseAttributeKeeps
<1>6. CASE PublishStatus
  BY <1>6, PublishStatusKeeps
<1>7. CASE SaveCommand
  BY <1>7, SaveCommandKeeps
<1>8. CASE ExecuteCommand
  BY <1>8, ExecuteCommandKeeps
<1>9. CASE NextAttribute
  BY <1>9, NextAttributeKeeps
<1>10. CASE Respond
  BY <1>10, RespondKeeps
<1>11. CASE QueryEntity
  BY <1>11, QueryEntityKeeps
<1>12. CASE AnswerBroker
  BY <1>12, AnswerBrokerKeeps
<1>. QED BY <1>1, <1>2, <1>3, <1>4, <1>5, <1>6, <1>7, <1>8, <1>9, <1>10, <1>11, <1>12 DEF NgsiNext

LEMMA NgsiInvTells == NgsiInv => CommandsAsAsked
<1>. SUFFICES ASSUME NgsiInv PROVE CommandsAsAsked
  OBVIOUS
<1>. USE DEF NgsiInv
<1>1. CommandsAnswered
  <2>1. ASSUME npc \in {"answered 400", "answered 404", "answered 500"}
        PROVE  notified = <<>> /\ stored = <<>>
    BY <2>1 DEF NgsiStage, Refusing
  <2>2. ASSUME npc = "answered 200", ngsi.op = "update"
        PROVE  /\ Len(answers) = Len(ngsi.elements)
               /\ \A k \in 1..Len(answers) : Judged(k, answers[k])
               /\ \A p \in 1..Len(notified) :
                    \/ InCollection(notified[p].elem, notified[p].attr)
                    \/ answers[notified[p].elem].code # 200
    <3>1. ~InLoop
      BY <2>2 DEF InLoop
    <3>2. Len(answers) = Len(ngsi.elements)
      <4>. DEFINE n == Len(ngsi.elements)
      <4>1. n \in Nat /\ elem = n + 1
        BY <2>2 DEF NgsiStage, RequestRead
      <4>2. Len(answers) = elem - 1
        BY DEF NgsiLists
      <4>. HIDE DEF n
      <4>3. Len(answers) = n
        BY <4>1, <4>2
      <4>. QED BY <4>3 DEF n
    <3>3. \A k \in 1..Len(answers) : Judged(k, answers[k])
      BY <2>2 DEF CodesJudge
    <3>. QED BY <2>2, <3>1, <3>2, <3>3 DEF NotifiedTold
  <2>3. \A i \in 1..Len(stored) :
          \E p \in 1..Len(notified) : /\ notified[p].elem = stored[i].elem
                                       /\ notified[p].attr = stored[i].attr
                                       /\ notified[p].device = stored[i].device
    BY DEF NotifiedFirst, AtPlace
  <2>. QED BY <2>1, <2>2, <2>3 DEF CommandsAnswered, Judged
<1>2. CommandAsProvisioned
  <2>1. npc # "undefined"
    BY DEF NgsiStage, InLoop, Refusing
  <2>. QED BY <2>1 DEF CommandAsProvisioned, StoredFits, Fits, QueriesAnswered
<1>. QED BY <1>1, <1>2 DEF CommandsAsAsked

(* A command is answered for, and leaves as it was provisioned: whatever   *)
(* devices, templates and documents there are, and whatever the database   *)
(* and the devices answer.                                                 *)
THEOREM CommandsAreAnswered == NgsiSpec => []CommandsAsAsked
<1>1. NgsiInit("idle") => NgsiInv
  BY InitNgsiInv
<1>2. NgsiInv /\ [NgsiNext]_ngsiVars => NgsiInv'
  BY StepNgsiInv
<1>3. NgsiInv => CommandsAsAsked
  BY NgsiInvTells
<1>. QED BY <1>1, <1>2, <1>3, PTL DEF NgsiSpec

-----------------------------------------------------------------------------
(* A sequence of values that starts and goes on as it is said exists, and  *)
(* all of them are of a kind if each of them hands it on.                  *)

Iterates(f, D, N, base, step) ==
  /\ f \in [0..N -> D] /\ f[0] = base
  /\ \A i \in 1..N : f[i] = step[<<i, f[i - 1]>>]

LEMMA IterationExists ==
  ASSUME NEW D, NEW N \in Nat, NEW base \in D, NEW step \in [(1..N) \X D -> D]
  PROVE  \E f : Iterates(f, D, N, base, step)
<1>. DEFINE Upto(f, k) == /\ f \in [0..k -> D] /\ f[0] = base
                          /\ \A i \in 1..k : f[i] = step[<<i, f[i - 1]>>]
            bad == {k \in 0..N : ~\E f : Upto(f, k)}
<1>1. bad = {}
  <2>1. SUFFICES ASSUME bad # {} PROVE FALSE
    OBVIOUS
  <2>2. PICK k \in bad : \A m \in bad : k <= m
    <3>. HIDE DEF Upto
    <3>1. bad \in SUBSET Nat
      OBVIOUS
    <3>. HIDE DEF bad
    <3>. QED BY <2>1, <3>1, LeastOf
  <2>3. k \in 0..N /\ ~\E f : Upto(f, k)
    BY <2>2
  <2>4. CASE k = 0
    <3>1. Upto([i \in 0..0 |-> base], 0)
      OBVIOUS
    <3>. QED BY <2>3, <2>4, <3>1
  <2>5. CASE k # 0
    <3>1. k - 1 \in 0..N /\ ~(k <= k - 1)
      BY <2>3, <2>5
    <3>2. k - 1 \notin bad
      BY <2>2, <3>1
    <3>3. PICK f : Upto(f, k - 1)
      BY <3>1, <3>2
    <3>. DEFINE v == step[<<k, f[k - 1]>>]
                g == [i \in 0..k |-> IF i = k THEN v ELSE f[i]]
    <3>4. f \in [0..(k - 1) -> D] /\ k - 1 \in 0..(k - 1) /\ k \in 1..N
      BY <2>3, <2>5, <3>3
    <3>5. v \in D
      BY <3>4
    <3>. HIDE DEF v
    <3>6. g \in [0..k -> D]
      BY <2>3, <3>4, <3>5
    <3>7. g[0] = base
      BY <2>3, <2>5, <3>3
    <3>8. \A i \in 1..k : g[i] = step[<<i, g[i - 1]>>]
      <4>. TAKE i \in 1..k
      <4>1. i - 1 \in 0..k /\ i - 1 # k /\ g[i - 1] = f[i - 1]
        BY <2>3
      <4>2. CASE i = k
        BY <2>3, <4>1, <4>2 DEF v
      <4>3. CASE i # k
        <5>1. i \in 1..(k - 1) /\ i \in 0..k
          BY <2>3, <4>3
        <5>2. f[i] = step[<<i, f[i - 1]>>] /\ g[i] = f[i]
          BY <3>3, <4>3, <5>1
        <5>. QED BY <4>1, <5>2
      <4>. QED BY <4>2, <4>3
    <3>. HIDE DEF g
    <3>9. Upto(g, k)
      BY <3>6, <3>7, <3>8
    <3>. QED BY <2>3, <3>9
  <2>. QED BY <2>4, <2>5
<1>2. PICK f : Upto(f, N)
  BY <1>1
<1>. QED BY <1>2 DEF Iterates

LEMMA IterationTyped ==
  ASSUME NEW D, NEW N \in Nat, NEW f, f[0] \in D,
         \A i \in 1..N : f[i - 1] \in D => f[i] \in D
  PROVE  \A i \in 0..N : f[i] \in D
<1>. DEFINE bad == {i \in 0..N : f[i] \notin D}
<1>1. SUFFICES ASSUME bad # {} PROVE FALSE
  OBVIOUS
<1>2. bad \in SUBSET Nat
  OBVIOUS
<1>3. PICK k \in bad : \A m \in bad : k <= m
  BY <1>1, <1>2, LeastOf
<1>4. k \in 1..N /\ k - 1 \in 0..N /\ ~(k <= k - 1)
  BY <1>3
<1>5. f[k - 1] \in D
  BY <1>3, <1>4
<1>. QED BY <1>3, <1>4, <1>5

-----------------------------------------------------------------------------
(* What an attribute is called: where no mapping leads to a mapped name,   *)
(* it is mapped once.                                                      *)

MappedOnce(c, name) == IF IsMapped(c, name) THEN Mapping(c, name) ELSE name

Follows(f, c, name, N) ==
  f = [n \in 0..N |-> IF n = 0 THEN name
                      ELSE LET m == f[n - 1] IN IF IsMapped(c, m) THEN Mapping(c, m) ELSE m]

LEMMA RenamedOnce ==
  ASSUME NEW c, NEW name, Unchained(c),
         IsFiniteSet(DOMAIN c.device_map), IsFiniteSet(DOMAIN c.service_map)
  PROVE  Renamed(c, name) = MappedOnce(c, name)
<1>. DEFINE all == DOMAIN c.device_map \cup DOMAIN c.service_map
            N == Cardinality(all) + 1
            once == MappedOnce(c, name)
            g == [n \in 0..N |-> IF n = 0 THEN name ELSE once]
            f == CHOOSE h : Follows(h, c, name, N)
<1>1. N \in Nat /\ N >= 1
  <2>1. IsFiniteSet(all)
    BY FS_Union
  <2>2. Cardinality(all) \in Nat
    BY <2>1, FS_CardinalityType
  <2>. QED BY <2>2
<1>2. Renamed(c, name) = f[N]
  BY DEF Renamed, Follows
<1>. HIDE DEF N
<1>3. ~IsMapped(c, once)
  BY DEF Unchained, IsMapped, MappedOnce
<1>4. Follows(g, c, name, N)
  <2>1. \A n \in 0..N : n # 0 => n - 1 \in 0..N
    BY <1>1
  <2>2. \A n \in 0..N : g[n] = IF n = 0 THEN name ELSE MappedOnce(c, g[n - 1])
    <3>. TAKE n \in 0..N
    <3>1. CASE n = 0
      BY <3>1
    <3>2. CASE n = 1
      BY <1>1, <2>1, <3>2
    <3>3. CASE n # 0 /\ n # 1
      <4>1. g[n - 1] = once /\ g[n] = once
        BY <1>1, <2>1, <3>3
      <4>. QED BY <1>3, <3>3, <4>1 DEF MappedOnce
    <3>. QED BY <3>1, <3>2, <3>3
  <2>. QED BY <2>2 DEF Follows, MappedOnce
<1>5. Follows(f, c, name, N)
  <2>. HIDE DEF g
  <2>. QED BY <1>4
<1>. HIDE DEF f, g
<1>6. f[0] = name /\ \A n \in 1..N : f[n] = MappedOnce(c, f[n - 1])
  BY <1>1, <1>5 DEF Follows, MappedOnce
<1>7. f[1] = once
  BY <1>1, <1>6
<1>. DEFINE bad == {n \in 1..N : f[n] # once}
<1>8. bad = {}
  <2>1. SUFFICES ASSUME bad # {} PROVE FALSE
    OBVIOUS
  <2>2. bad \in SUBSET Nat
    OBVIOUS
  <2>3. PICK k \in bad : \A m \in bad : k <= m
    BY <2>1, <2>2, LeastOf
  <2>4. k \in 1..N /\ k # 1
    BY <1>7, <2>3
  <2>5. k - 1 \in 1..N /\ ~(k <= k - 1)
    BY <1>1, <2>4
  <2>6. f[k - 1] = once
    BY <2>3, <2>5
  <2>7. f[k] = once
    <3>. HIDE DEF once
    <3>. QED BY <1>3, <1>6, <2>4, <2>6 DEF MappedOnce
  <2>. QED BY <2>3, <2>7
<1>. QED BY <1>1, <1>2, <1>8

-----------------------------------------------------------------------------
(* The entity of a device, with what is static in it. *)

Statics(c) == {c.device_static[i] : i \in 1..Len(c.device_static)}
                \cup {c.service_static[i] : i \in 1..Len(c.service_static)}

StaticNamed(c) == {[a EXCEPT !.name = Renamed(c, @)] : a \in Statics(c)}

EntityOf(c) == [id: {get_real_name(c)}, type: {EntityType(c)}, attributes: Seq(StaticNamed(c))]

NewElement(c) == [id |-> get_real_name(c), type |-> NONE, attributes |-> <<>>]

LEMMA FormatNew == ASSUME NEW c PROVE format(NewElement(c), c) \in EntityOf(c)
<1>1. /\ format(NewElement(c), c).id = get_real_name(c)
      /\ format(NewElement(c), c).type = EntityType(c)
  BY DEF format, NewElement, get_real_name, EntityType, NONE, DEFAULT
<1>. DEFINE f == format(NewElement(c), c)
<1>2. f = [id |-> f.id, type |-> f.type, attributes |-> <<>>]
  <2>1. \E i, t : f = [NewElement(c) EXCEPT !.id = i, !.type = t]
    BY Zenon DEF format
  <2>. HIDE DEF f
  <2>2. ASSUME NEW i, NEW t
        PROVE  [NewElement(c) EXCEPT !.id = i, !.type = t] = [id |-> i, type |-> t, attributes |-> <<>>]
    <3>1. [NewElement(c) EXCEPT !.id = i] = [id |-> i, type |-> NONE, attributes |-> <<>>]
      BY DEF NewElement
    <3>. DEFINE r == [id |-> i, type |-> NONE, attributes |-> <<>>]
    <3>2. [r EXCEPT !.type = t] = [id |-> i, type |-> t, attributes |-> <<>>]
      OBVIOUS
    <3>. HIDE DEF r
    <3>3. [NewElement(c) EXCEPT !.id = i, !.type = t] = [r EXCEPT !.type = t]
      BY <3>1 DEF r
    <3>. QED BY <3>2, <3>3
  <2>. QED BY <2>1, <2>2
<1>. HIDE DEF f
<1>3. f = [id |-> get_real_name(c), type |-> EntityType(c), attributes |-> <<>>]
  BY <1>1, <1>2 DEF f
<1>4. f \in EntityOf(c)
  BY <1>3 DEF EntityOf
<1>. QED BY <1>4 DEF f

LEMMA FormatAgain ==
  ASSUME NEW c, NEW e, e.id = get_real_name(c), e.type = EntityType(c),
         e = [id |-> e.id, type |-> e.type, attributes |-> e.attributes]
  PROVE  format(e, c) = e
<1>1. EntityType(c) # NONE
  BY DEF EntityType, NONE
<1>2. /\ format(e, c).id = e.id
      /\ format(e, c).type = e.type
  BY <1>1 DEF format, get_real_name, EntityType, NONE, DEFAULT
<1>. QED BY <1>2 DEF format

LEMMA AddStatic ==
  ASSUME NEW c, NEW e \in EntityOf(c), NEW a \in Statics(c)
  PROVE  add_attribute(e, c, a) \in EntityOf(c)
<1>. DEFINE b == [a EXCEPT !.name = Renamed(c, @)]
<1>1. b \in StaticNamed(c)
  BY DEF StaticNamed
<1>. HIDE DEF b
<1>2. Append(e.attributes, b) \in Seq(StaticNamed(c))
  BY <1>1, AppendProperties DEF EntityOf
<1>. QED BY <1>2 DEF EntityOf, add_attribute, b

OwnOf(f, e, c) ==
  f = [i \in 0..Len(c.device_static) |->
         IF i = 0 THEN format(e, c) ELSE add_attribute(f[i - 1], c, c.device_static[i])]

AllOf(f, own, c) ==
  f = [i \in 0..Len(c.service_static) |->
         IF i = 0 THEN own[Len(c.device_static)]
         ELSE IF exists(f[i - 1], c.service_static[i].name) THEN f[i - 1]
         ELSE add_attribute(f[i - 1], c, c.service_static[i])]

LEMMA EnvironmentSet ==
  ASSUME NEW c, StaticsOK(c.device_static), StaticsOK(c.service_static)
  PROVE  set_env_info(NewElement(c), c) \in EntityOf(c)
<1>. DEFINE e == NewElement(c)
            D == EntityOf(c)
            M == Len(c.device_static)
            N == Len(c.service_static)
            own == CHOOSE f : OwnOf(f, e, c)
            all == CHOOSE f : AllOf(f, own, c)
<1>1. M \in Nat /\ N \in Nat
  BY DEF StaticsOK, IsList
<1>2. /\ \A i \in 1..M : c.device_static[i] \in Statics(c)
      /\ \A i \in 1..N : c.service_static[i] \in Statics(c)
  BY DEF Statics
<1>3. format(e, c) \in D
  BY FormatNew
<1>4. set_env_info(e, c) = all[N]
  BY DEF set_env_info, OwnOf, AllOf
<1>. HIDE DEF e, D
<1>5. OwnOf(own, e, c)
  <2>. DEFINE step == [p \in (1..M) \X D |-> add_attribute(p[2], c, c.device_static[p[1]])]
  <2>1. step \in [(1..M) \X D -> D]
    <3>1. \A p \in (1..M) \X D : add_attribute(p[2], c, c.device_static[p[1]]) \in D
      BY <1>2, AddStatic DEF D
    <3>. QED BY <3>1
  <2>2. \A i \in 1..M, x \in D : step[<<i, x>>] = add_attribute(x, c, c.device_static[i])
    OBVIOUS
  <2>. HIDE DEF step
  <2>. HIDE DEF M
  <2>. DEFINE base == format(e, c)
  <2>0. base \in D
    BY <1>3
  <2>. HIDE DEF base
  <2>3. PICK f : Iterates(f, D, M, base, step)
    BY <1>1, <2>0, <2>1, IterationExists
  <2>. USE DEF Iterates, base
  <2>4. \A i \in 0..M : f[i] = IF i = 0 THEN format(e, c)
                               ELSE add_attribute(f[i - 1], c, c.device_static[i])
    <3>. TAKE i \in 0..M
    <3>1. CASE i = 0
      BY <2>3, <3>1
    <3>2. CASE i # 0
      <4>1. i \in 1..M /\ f[i - 1] \in D
        BY <1>1, <2>3, <3>2
      <4>. QED BY <2>2, <2>3, <3>2, <4>1
    <3>. QED BY <3>1, <3>2
  <2>5. f = [i \in 0..M |-> f[i]]
    BY <2>3
  <2>6. OwnOf(f, e, c)
    BY <2>4, <2>5 DEF OwnOf, M
  <2>. QED BY <2>6
<1>. HIDE DEF own
<1>6. own[M] \in D
  <2>1. own[0] = format(e, c) /\ \A i \in 1..M : own[i] = add_attribute(own[i - 1], c, c.device_static[i])
    BY <1>1, <1>5 DEF OwnOf
  <2>2. \A i \in 1..M : own[i - 1] \in D => own[i] \in D
    BY <1>2, <2>1, AddStatic DEF D
  <2>. HIDE DEF M
  <2>3. \A i \in 0..M : own[i] \in D
    BY <1>1, <1>3, <2>1, <2>2, IterationTyped
  <2>. QED BY <1>1, <2>3
<1>. DEFINE Add(x, a) == IF exists(x, a.name) THEN x ELSE add_attribute(x, c, a)
<1>7. ASSUME NEW x \in D, NEW a \in Statics(c) PROVE Add(x, a) \in D
  BY <1>7, AddStatic DEF D
<1>8. AllOf(all, own, c)
  <2>. DEFINE step == [p \in (1..N) \X D |-> Add(p[2], c.service_static[p[1]])]
  <2>. HIDE DEF Add
  <2>1. step \in [(1..N) \X D -> D]
    <3>1. \A p \in (1..N) \X D : Add(p[2], c.service_static[p[1]]) \in D
      BY <1>2, <1>7
    <3>. QED BY <3>1
  <2>2. \A i \in 1..N, x \in D : step[<<i, x>>] = Add(x, c.service_static[i])
    OBVIOUS
  <2>. HIDE DEF step
  <2>. HIDE DEF N, M
  <2>. DEFINE base == own[M]
  <2>0. base \in D
    BY <1>6
  <2>. HIDE DEF base
  <2>3. PICK f : Iterates(f, D, N, base, step)
    BY <1>1, <2>0, <2>1, IterationExists
  <2>. USE DEF Iterates, base
  <2>4. \A i \in 0..N : f[i] = IF i = 0 THEN own[M] ELSE Add(f[i - 1], c.service_static[i])
    <3>. TAKE i \in 0..N
    <3>1. CASE i = 0
      BY <2>3, <3>1
    <3>2. CASE i # 0
      <4>1. i \in 1..N /\ f[i - 1] \in D
        BY <1>1, <2>3, <3>2
      <4>. QED BY <2>2, <2>3, <3>2, <4>1
    <3>. QED BY <3>1, <3>2
  <2>5. f = [i \in 0..N |-> f[i]]
    BY <2>3
  <2>6. AllOf(f, own, c)
    BY <2>4, <2>5 DEF AllOf, N, M, Add
  <2>. QED BY <2>6
<1>. HIDE DEF all
<1>9. all[N] \in D
  <2>0. \A i \in 0..N : all[i] = IF i = 0 THEN own[M] ELSE Add(all[i - 1], c.service_static[i])
    BY <1>8 DEF AllOf
  <2>. HIDE DEF Add, M, N
  <2>1. all[0] = own[M] /\ \A i \in 1..N : all[i] = Add(all[i - 1], c.service_static[i])
    BY <1>1, <2>0
  <2>. HIDE DEF Add
  <2>2. \A i \in 1..N : all[i - 1] \in D => all[i] \in D
    BY <1>2, <1>7, <2>1
  <2>. HIDE DEF M, N
  <2>3. \A i \in 0..N : all[i] \in D
    BY <1>1, <1>6, <2>1, <2>2, IterationTyped
  <2>. QED BY <1>1, <2>3
<1>. QED BY <1>4, <1>9 DEF e, D

-----------------------------------------------------------------------------
(* The first separator ends the first token, and what is after it has the  *)
(* other tokens.                                                           *)

LEMMA Fewer ==
  ASSUME NEW S \in SUBSET Nat, IsFiniteSet(S), NEW x \in S, NEW p \in S, x < p
  PROVE  Cardinality({q \in S : q <= x}) # Cardinality({q \in S : q <= p})
<1>. DEFINE below == {q \in S : q <= x}
            up == {q \in S : q <= p}
<1>1. x \in Nat /\ p \in Nat /\ \A q \in S : q \in Nat
  OBVIOUS
<1>2. \A q \in S : q <= x => q <= p
  BY <1>1
<1>3. up \in SUBSET S /\ below \in SUBSET up /\ p \in up /\ p \notin below
  <2>1. up \in SUBSET S
    OBVIOUS
  <2>2. \A q \in below : q \in up
    BY <1>2
  <2>3. p \in up
    BY <1>1
  <2>4. p \notin below
    BY <1>1
  <2>. QED BY <2>1, <2>2, <2>3, <2>4
<1>. HIDE DEF below, up
<1>4. IsFiniteSet(up)
  BY <1>3, FS_Subset
<1>5. Cardinality(below) = Cardinality(up) => up = below
  BY <1>3, <1>4, FS_Subset
<1>6. Cardinality(below) # Cardinality(up)
  BY <1>3, <1>5
<1>. QED BY <1>6 DEF below, up

LEMMA NthIs ==
  ASSUME NEW S \in SUBSET Nat, IsFiniteSet(S), NEW p \in S, NEW n,
         Cardinality({q \in S : q <= p}) = n
  PROVE  n \in 1..Cardinality(S) /\ Nth(S, n) = p
<1>. DEFINE up == {q \in S : q <= p}
            x == Nth(S, n)
<1>1. up \in SUBSET S /\ p \in up
  OBVIOUS
<1>2. n \in 1..Cardinality(S)
  <2>1. n = Cardinality(up)
    OBVIOUS
  <2>. HIDE DEF up
  <2>2. IsFiniteSet(up) /\ Cardinality(up) <= Cardinality(S)
    BY <1>1, FS_Subset
  <2>3. Cardinality(up) \in Nat /\ Cardinality(S) \in Nat /\ Cardinality(up) # 0
    BY <1>1, <2>2, FS_CardinalityType, FS_EmptySet
  <2>. QED BY <2>1, <2>2, <2>3
<1>3. x \in S /\ Cardinality({q \in S : q <= x}) = n
  BY <1>2, NthOne
<1>. HIDE DEF x
<1>4. ~(x < p) /\ ~(p < x)
  BY <1>3, Fewer
<1>5. x \in Nat /\ p \in Nat
  BY <1>3
<1>6. x = p
  BY <1>4, <1>5
<1>. QED BY <1>2, <1>6 DEF x

LEMMA ShiftedSize ==
  ASSUME NEW T \in SUBSET Nat, IsFiniteSet(T), NEW p \in Nat, \A t \in T : t >= p,
         NEW U, U = {t - p : t \in T}
  PROVE  IsFiniteSet(U) /\ Cardinality(U) = Cardinality(T)
<1>. DEFINE f == [t \in T |-> t - p]
<1>1. f \in [T -> U] /\ \A t \in T : f[t] = t - p
  OBVIOUS
<1>2. \A s, t \in T : f[s] = f[t] => s = t
  <2>1. \A s, t \in T : s - p = t - p => s = t
    OBVIOUS
  <2>. QED BY <1>1, <2>1
<1>3. \A u \in U : \E t \in T : f[t] = u
  OBVIOUS
<1>. HIDE DEF f
<1>4. f \in Bijection(T, U)
  BY <1>1, <1>2, <1>3 DEF Bijection, Injection, IsInjective, Surjection
<1>. QED BY <1>4, FS_Bijection DEF ExistsBijection

Cuts(str, sep) == {0, Len(str) + 1} \cup {i \in 1..Len(str) : str[i] = sep}

LEMMA CutsTyped ==
  ASSUME NEW S, NEW str \in Seq(S), NEW sep, NEW cuts, cuts = Cuts(str, sep)
  PROVE  /\ cuts \in SUBSET (0..(Len(str) + 1)) /\ cuts \in SUBSET Nat
         /\ IsFiniteSet(cuts) /\ Cardinality(cuts) \in Nat
         /\ 0 \in cuts /\ Len(str) + 1 \in cuts /\ Len(str) \in Nat
<1>1. Len(str) \in Nat /\ cuts \in SUBSET (0..(Len(str) + 1)) /\ cuts \in SUBSET Nat
  BY DEF Cuts
<1>2. IsFiniteSet(0..(Len(str) + 1))
  BY <1>1, FS_Interval
<1>3. IsFiniteSet(cuts) /\ Cardinality(cuts) \in Nat
  BY <1>1, <1>2, FS_Subset, FS_CardinalityType
<1>. QED BY <1>1, <1>3 DEF Cuts

Seps(str, sep) == {i \in 1..Len(str) : str[i] = sep}

LEMMA CutsCounted ==
  ASSUME NEW S, NEW str \in Seq(S), NEW sep
  PROVE  /\ IsFiniteSet(Seps(str, sep)) /\ Cardinality(Seps(str, sep)) \in Nat
         /\ Cardinality(Cuts(str, sep)) = Cardinality(Seps(str, sep)) + 2
<1>. DEFINE pipes == {i \in 1..Len(str) : str[i] = sep}
<1>1. Len(str) \in Nat /\ pipes \in SUBSET (1..Len(str))
  OBVIOUS
<1>2. 0 \notin pipes /\ Len(str) + 1 \notin pipes \cup {0}
  BY <1>1
<1>3. Cuts(str, sep) = (pipes \cup {0}) \cup {Len(str) + 1}
  BY DEF Cuts
<1>. HIDE DEF pipes
<1>4. IsFiniteSet(pipes) /\ Cardinality(pipes) \in Nat
  <2>1. IsFiniteSet(1..Len(str))
    BY <1>1, FS_Interval
  <2>2. IsFiniteSet(pipes)
    BY <1>1, <2>1, FS_Subset
  <2>. QED BY <2>2, FS_CardinalityType
<1>5. IsFiniteSet(pipes \cup {0}) /\ Cardinality(pipes \cup {0}) = Cardinality(pipes) + 1
  BY <1>2, <1>4, FS_AddElement
<1>6. Cardinality(Cuts(str, sep)) = Cardinality(pipes) + 1 + 1
  BY <1>2, <1>3, <1>5, FS_AddElement
<1>. QED BY <1>4, <1>6 DEF pipes, Seps

LEMMA TokensCut ==
  ASSUME NEW str, NEW sep, NEW cuts, cuts = Cuts(str, sep), Cardinality(cuts) \in Nat,
         Cardinality(cuts) >= 2
  PROVE  LET tokens == riot_tokenizer(str, sep) IN
         /\ Len(tokens) = Cardinality(cuts) - 1 /\ DOMAIN tokens = 1..Len(tokens)
         /\ \A i \in 1..(Cardinality(cuts) - 1) :
              tokens[i] = SubSeq(str, Nth(cuts, i) + 1, Nth(cuts, i + 1) - 1)
<1>. DEFINE k == Cardinality(cuts) - 1
            tokens == riot_tokenizer(str, sep)
<1>1. tokens = [i \in 1..k |-> SubSeq(str, Nth(cuts, i) + 1, Nth(cuts, i + 1) - 1)]
  BY DEF riot_tokenizer, Cuts
<1>2. k \in Nat
  OBVIOUS
<1>. HIDE DEF k, tokens
<1>3. Len(tokens) = k /\ DOMAIN tokens = 1..k
  BY <1>1, <1>2
<1>4. \A i \in 1..k : tokens[i] = SubSeq(str, Nth(cuts, i) + 1, Nth(cuts, i + 1) - 1)
  BY <1>1
<1>. QED BY <1>3, <1>4 DEF k, tokens

LEMMA TokensCounted ==
  ASSUME NEW S, NEW str \in Seq(S), NEW sep
  PROVE  /\ Len(riot_tokenizer(str, sep)) = Cardinality(Seps(str, sep)) + 1
         /\ Len(riot_tokenizer(str, sep)) \in Nat
<1>. DEFINE cuts == Cuts(str, sep)
<1>1. Cardinality(cuts) = Cardinality(Seps(str, sep)) + 2 /\ Cardinality(Seps(str, sep)) \in Nat
  BY CutsCounted
<1>2. Cardinality(cuts) \in Nat /\ Cardinality(cuts) >= 2
  BY <1>1
<1>. HIDE DEF cuts
<1>3. Len(riot_tokenizer(str, sep)) = Cardinality(cuts) - 1
  BY <1>2, TokensCut DEF cuts
<1>. QED BY <1>1, <1>3

Later(tokens, rest) ==
  Len(rest) = Len(tokens) - 1 /\ \A i \in 1..Len(rest) : rest[i] = tokens[i + 1]

LEMMA TokensAfter ==
  ASSUME NEW S, NEW str \in Seq(S), NEW sep, NEW tokens, tokens = riot_tokenizer(str, sep),
         Len(tokens) >= 2
  PROVE  After(str, sep) \in Seq(S) /\ Later(tokens, riot_tokenizer(After(str, sep), sep))
<1>. DEFINE L == Len(str)
            cuts == Cuts(str, sep)
            K == Cardinality(cuts)
            p == Nth(cuts, 2)
            data == SubSeq(str, p + 1, L)
            rest == Cuts(data, sep)
<1>1. L \in Nat /\ cuts \in SUBSET (0..(L + 1)) /\ cuts \in SUBSET Nat
      /\ IsFiniteSet(cuts) /\ K \in Nat /\ 0 \in cuts /\ L + 1 \in cuts
  BY CutsTyped
<1>2. /\ \A i \in 1..L : i \in cuts <=> str[i] = sep
      /\ \A i \in cuts : i \in 1..L \/ i \in {0, L + 1}
  <2>. HIDE DEF L
  <2>. QED BY <1>1 DEF Cuts, L
<1>. HIDE DEF cuts, K
<1>3. K >= 2
  <2>1. /\ Cardinality(Cuts(str, sep)) = Cardinality(Seps(str, sep)) + 2
        /\ Cardinality(Seps(str, sep)) \in Nat
    BY CutsCounted
  <2>2. Cardinality(Cuts(str, sep)) >= 2
    BY <2>1
  <2>. QED BY <2>2 DEF cuts, K
<1>4. /\ Len(tokens) = K - 1
      /\ \A i \in 1..(K - 1) : tokens[i] = SubSeq(str, Nth(cuts, i) + 1, Nth(cuts, i + 1) - 1)
  BY <1>1, <1>3, TokensCut DEF cuts, K
<1>5. K >= 3
  BY <1>1, <1>4
<1>6. Nth(cuts, 1) = 0
  <2>0. \A q \in cuts : q \in Nat /\ (q <= 0 => q = 0)
    BY <1>1
  <2>1. {q \in cuts : q <= 0} = {0}
    <3>1. 0 \in cuts /\ 0 <= 0
      BY <1>1
    <3>2. \A q \in {r \in cuts : r <= 0} : q = 0
      BY <2>0
    <3>. QED BY <3>1, <3>2
  <2>2. Cardinality({q \in cuts : q <= 0}) = 1
    BY <2>1, FS_Singleton
  <2>. QED BY <1>1, <2>2, NthIs
<1>7. p \in cuts /\ 0 < p /\ Nth(cuts, 3) \in cuts /\ p < Nth(cuts, 3)
  <2>1. 1 \in 1..(K - 1) /\ 2 \in 1..(K - 1) /\ 1 + 1 = 2 /\ 2 + 1 = 3
    BY <1>1, <1>5
  <2>2. Nth(cuts, 1) < Nth(cuts, 1 + 1) /\ Nth(cuts, 1 + 1) \in cuts
    BY <1>1, <2>1, NthAscend DEF K
  <2>3. Nth(cuts, 2) < Nth(cuts, 2 + 1) /\ Nth(cuts, 2 + 1) \in cuts
    BY <1>1, <2>1, NthAscend DEF K
  <2>. QED BY <1>6, <2>1, <2>2, <2>3
<1>8. p \in 1..L
  <2>1. p \in Nat /\ Nth(cuts, 3) \in 0..(L + 1)
    BY <1>1, <1>7
  <2>. QED BY <1>1, <1>7, <2>1
<1>9. \A q \in cuts : q = 0 \/ q >= p
  <2>1. Cardinality({q \in cuts : q <= p}) = 2
    <3>1. 2 \in 1..K
      BY <1>1, <1>5
    <3>. QED BY <1>1, <3>1, NthOne DEF K
  <2>. DEFINE up == {q \in cuts : q <= p}
  <2>2. up \in SUBSET cuts /\ {0, p} \in SUBSET up
    BY <1>1, <1>7, <1>8
  <2>3. Cardinality({0, p}) = 2
    <3>1. {0, p} = {0} \cup {p} /\ p \notin {0}
      BY <1>8
    <3>. DEFINE one == {0}
    <3>2. IsFiniteSet(one) /\ Cardinality(one) = 1
      BY FS_Singleton
    <3>. HIDE DEF p, one
    <3>3. p \notin one
      BY <3>1 DEF one
    <3>4. Cardinality(one \cup {p}) = Cardinality(one) + 1
      BY <3>2, <3>3, FS_AddElement
    <3>5. Cardinality(one \cup {p}) = 2
      BY <3>2, <3>4
    <3>. QED BY <3>1, <3>5 DEF one
  <2>4. up = {0, p}
    <3>. HIDE DEF p
    <3>1. Cardinality(up) = Cardinality({0, p})
      BY <2>1, <2>3
    <3>. HIDE DEF up
    <3>. QED BY <1>1, <2>2, <3>1, FS_Subset
  <2>5. \A q \in cuts : q \in Nat /\ (q <= p => q \in {0, p})
    BY <1>1, <2>4
  <2>. QED BY <1>8, <2>5
<1>. HIDE DEF p
<1>10. Before(str, sep) = SubSeq(str, 1, p - 1) /\ Len(Before(str, sep)) = p - 1
  <2>1. tokens[1] = SubSeq(str, 1, p - 1)
    <3>1. 1 \in 1..(K - 1) /\ 1 + 1 = 2
      BY <1>1, <1>5
    <3>2. tokens[1] = SubSeq(str, Nth(cuts, 1) + 1, Nth(cuts, 1 + 1) - 1)
      BY <1>4, <3>1
    <3>3. tokens[1] = SubSeq(str, 0 + 1, p - 1)
      <4>. USE DEF p
      <4>. QED BY <1>6, <3>1, <3>2
    <3>. QED BY <3>3
  <2>2. Before(str, sep) = tokens[1]
    BY DEF Before
  <2>3. Len(SubSeq(str, 1, p - 1)) = p - 1
    <3>1. \A i \in 1..(p - 1) : str[i] \in S
      BY <1>8
    <3>2. 1 \in Int /\ p - 1 \in Int /\ p - 1 >= 0
      BY <1>8
    <3>3. Len(SubSeq(str, 1, p - 1)) = IF 1 <= p - 1 THEN p - 1 - 1 + 1 ELSE 0
      BY <3>1, <3>2, SubSeqProperties
    <3>. QED BY <3>2, <3>3
  <2>. QED BY <2>1, <2>2, <2>3
<1>11. After(str, sep) = data
  <2>1. p - 1 + 2 = p + 1
    BY <1>8
  <2>. QED BY <1>10, <2>1 DEF After
<1>12. /\ data \in Seq(S) /\ Len(data) = L - p
       /\ \A i \in 1..(L - p) : data[i] = str[p + i]
  <2>1. \A i \in (p + 1)..L : str[i] \in S
    BY <1>8
  <2>2. /\ data \in Seq(S) /\ Len(data) = IF p + 1 <= L THEN L - (p + 1) + 1 ELSE 0
        /\ \A i \in 1..(L - (p + 1) + 1) : data[i] = str[p + 1 + i - 1]
    <3>1. p + 1 \in Int /\ L \in Int
      BY <1>1, <1>8
    <3>. QED BY <2>1, <3>1, SubSeqProperties
  <2>3. L - (p + 1) + 1 = L - p /\ (~(p + 1 <= L) => L - p = 0)
    BY <1>1, <1>8
  <2>4. \A i \in 1..(L - p) : p + 1 + i - 1 = p + i
    BY <1>1, <1>8
  <2>. HIDE DEF data
  <2>5. Len(data) = L - p
    BY <2>2, <2>3
  <2>. QED BY <2>2, <2>3, <2>4, <2>5
<1>. HIDE DEF data
<1>13. /\ rest \in SUBSET (0..(L - p + 1)) /\ rest \in SUBSET Nat
       /\ IsFiniteSet(rest) /\ Cardinality(rest) \in Nat
  BY <1>12, CutsTyped
<1>14. rest = {t - p : t \in cuts \ {0}}
  <2>1. ASSUME NEW t \in cuts \ {0} PROVE t - p \in rest
    <3>1. t >= p /\ t \in Nat
      BY <1>1, <1>9
    <3>2. CASE t = p
      BY <1>8, <3>2 DEF Cuts
    <3>3. CASE t = L + 1
      <4>1. t - p = Len(data) + 1
        BY <1>1, <1>8, <1>12, <3>3
      <4>. QED BY <4>1 DEF Cuts
    <3>4. CASE t # p /\ t # L + 1
      <4>1. t \in 1..L /\ str[t] = sep
        <5>1. t \in cuts /\ t # 0
          OBVIOUS
        <5>. QED BY <1>2, <3>4, <5>1
      <4>2. t - p \in 1..(L - p) /\ p + (t - p) = t
        BY <1>1, <1>8, <3>1, <3>4, <4>1
      <4>3. data[t - p] = sep
        BY <1>12, <4>1, <4>2
      <4>. QED BY <1>12, <4>2, <4>3 DEF Cuts
    <3>. QED BY <3>2, <3>3, <3>4
  <2>2. ASSUME NEW u \in rest PROVE \E t \in cuts \ {0} : u = t - p
    <3>1. u \in Nat /\ (u \in {0, L - p + 1} \/ (u \in 1..(L - p) /\ data[u] = sep))
      BY <1>12, <1>13 DEF Cuts
    <3>2. p + u \in cuts
      <4>1. CASE u = 0
        BY <1>7, <1>8, <4>1
      <4>2. CASE u = L - p + 1
        <5>1. p + u = L + 1
          BY <1>1, <1>8, <4>2
        <5>. QED BY <1>1, <5>1
      <4>3. CASE u \in 1..(L - p) /\ data[u] = sep
        <5>1. p + u \in 1..L
          BY <1>1, <1>8, <4>3
        <5>. QED BY <1>2, <1>12, <4>3, <5>1
      <4>. QED BY <3>1, <4>1, <4>2, <4>3
    <3>3. p + u # 0 /\ u = (p + u) - p
      BY <1>8, <3>1
    <3>. QED BY <3>2, <3>3
  <2>. HIDE DEF rest
  <2>. QED BY <2>1, <2>2
<1>. HIDE DEF rest
<1>15. Cardinality(rest) = K - 1
  <2>1. IsFiniteSet(cuts \ {0}) /\ Cardinality(cuts \ {0}) = K - 1
    BY <1>1, FS_RemoveElement DEF K
  <2>. DEFINE T == cuts \ {0}
  <2>2. T \in SUBSET Nat /\ \A t \in T : t >= p
    BY <1>1, <1>9
  <2>3. IsFiniteSet(T) /\ Cardinality(T) = K - 1 /\ rest = {t - p : t \in T}
    BY <1>14, <2>1
  <2>4. p \in Nat
    BY <1>8
  <2>. HIDE DEF T
  <2>. QED BY <2>2, <2>3, <2>4, ShiftedSize
<1>16. ASSUME NEW i \in 1..(K - 1)
       PROVE  Nth(cuts, i + 1) \in cuts /\ Nth(rest, i) = Nth(cuts, i + 1) - p
  <2>. DEFINE x == Nth(cuts, i + 1)
              up == {q \in cuts : q <= x}
              T == up \ {0}
              y == x - p
              U == {q \in rest : q <= y}
  <2>1. x \in cuts /\ Cardinality(up) = i + 1
    <3>1. i + 1 \in 1..K
      BY <1>1, <1>16
    <3>. QED BY <1>1, <3>1, NthOne DEF K
  <2>. HIDE DEF x
  <2>2. x # 0
    <3>1. ASSUME x = 0 PROVE up = {0}
      <4>1. \A q \in cuts : q \in Nat /\ (q <= x <=> q = 0)
        BY <1>1, <3>1
      <4>. QED BY <1>1, <4>1
    <3>2. ASSUME x = 0 PROVE i + 1 = 1
      BY <2>1, <3>1, <3>2, FS_Singleton
    <3>. QED BY <1>1, <3>2
  <2>3. x \in Nat /\ x >= p /\ y \in rest
    BY <1>1, <1>9, <1>14, <2>1, <2>2
  <2>4. T \in SUBSET Nat /\ IsFiniteSet(T) /\ Cardinality(T) = i /\ \A t \in T : t >= p
    <3>1. up \in SUBSET cuts /\ 0 \in up
      BY <1>1, <2>3
    <3>. HIDE DEF up
    <3>2. IsFiniteSet(up)
      BY <1>1, <3>1, FS_Subset
    <3>3. IsFiniteSet(up \ {0}) /\ Cardinality(up \ {0}) = Cardinality(up) - 1
      BY <3>1, <3>2, FS_RemoveElement
    <3>4. Cardinality(up) - 1 = i
      BY <1>1, <2>1
    <3>5. T \in SUBSET cuts /\ \A t \in T : t # 0
      BY <3>1
    <3>. HIDE DEF T
    <3>6. T \in SUBSET Nat /\ \A t \in T : t >= p
      BY <1>1, <1>9, <3>5
    <3>. QED BY <3>3, <3>4, <3>6 DEF T
  <2>5. U = {t - p : t \in T}
    <3>1. ASSUME NEW t \in T PROVE t - p \in U
      <4>1. t \in cuts \ {0} /\ t <= x /\ t \in Nat
        BY <1>1
      <4>2. t - p \in rest
        BY <1>14, <4>1
      <4>3. t - p <= x - p
        BY <1>8, <2>3, <4>1
      <4>. QED BY <4>2, <4>3
    <3>2. ASSUME NEW u \in U PROVE \E t \in T : u = t - p
      <4>1. PICK t \in cuts \ {0} : u = t - p
        BY <1>14
      <4>2. t \in Nat /\ t - p <= x - p
        BY <1>1, <4>1
      <4>3. t <= x
        BY <1>8, <2>3, <4>2
      <4>. QED BY <4>1, <4>3
    <3>. HIDE DEF U, T
    <3>. QED BY <3>1, <3>2
  <2>6. Cardinality(U) = i
    <3>. HIDE DEF U, T
    <3>. QED BY <1>8, <2>4, <2>5, ShiftedSize
  <2>. HIDE DEF y
  <2>7. Nth(rest, i) = y
    BY <1>13, <2>3, <2>6, NthIs
  <2>. QED BY <2>1, <2>7 DEF x, y
<1>. DEFINE later == riot_tokenizer(data, sep)
<1>17. /\ Len(later) = K - 2
       /\ \A i \in 1..(K - 2) : later[i] = SubSeq(data, Nth(rest, i) + 1, Nth(rest, i + 1) - 1)
  <2>1. Cardinality(rest) >= 2 /\ Cardinality(rest) - 1 = K - 2 /\ Cardinality(rest) \in Nat
    BY <1>1, <1>5, <1>15
  <2>. QED BY <2>1, TokensCut DEF rest
<1>. HIDE DEF later
<1>18. ASSUME NEW i \in 1..(K - 2) PROVE later[i] = tokens[i + 1]
  <2>. DEFINE a == Nth(cuts, i + 1)
              b == Nth(cuts, i + 2)
  <2>1. /\ Nth(rest, i) = a - p /\ a \in cuts
        /\ Nth(rest, i + 1) = b - p /\ b \in cuts
    <3>1. i \in 1..(K - 1) /\ i + 1 \in 1..(K - 1) /\ i + 1 + 1 = i + 2
      BY <1>1, <1>18
    <3>. QED BY <1>16, <3>1
  <2>2. a < b
    <3>1. i + 1 \in 1..(K - 1) /\ i + 1 + 1 = i + 2
      BY <1>1, <1>18
    <3>2. Nth(cuts, i + 1) < Nth(cuts, (i + 1) + 1)
      BY <1>1, <3>1, NthAscend DEF K
    <3>. QED BY <3>1, <3>2
  <2>3. tokens[i + 1] = SubSeq(str, a + 1, b - 1)
    <3>1. i + 1 \in 1..(K - 1) /\ i + 1 + 1 = i + 2
      BY <1>1, <1>18
    <3>. QED BY <1>4, <3>1
  <2>4. later[i] = SubSeq(data, a - p + 1, b - p - 1)
    BY <1>17, <2>1
  <2>5. a \in 0..(L + 1) /\ b \in 0..(L + 1) /\ a >= p
    <3>1. Nth(rest, i) \in Nat
      <4>1. i \in 1..Cardinality(rest)
        BY <1>1, <1>15, <1>18
      <4>2. Nth(rest, i) \in rest
        BY <1>13, <4>1, NthOne
      <4>. QED BY <1>13, <4>2
    <3>2. a \in 0..(L + 1) /\ b \in 0..(L + 1)
      BY <1>1, <2>1
    <3>. QED BY <1>8, <2>1, <3>1, <3>2
  <2>. HIDE DEF a, b
  <2>. DEFINE s == SubSeq(str, a + 1, b - 1)
              d == SubSeq(data, a - p + 1, b - p - 1)
              n == b - 1 - a
  <2>6. n \in Nat /\ \A j \in 1..n : /\ a + j \in 1..L /\ a - p + j \in 1..(L - p)
                                     /\ a + 1 + j - 1 = a + j /\ a - p + 1 + j - 1 = a - p + j
                                     /\ p + (a - p + j) = a + j
    BY <1>1, <1>8, <2>2, <2>5
  <2>7. /\ s \in Seq(S) /\ Len(s) = n /\ \A j \in 1..n : s[j] = str[a + j]
    <3>1. \A j \in (a + 1)..(b - 1) : str[j] \in S
      BY <1>1, <2>5
    <3>2. /\ s \in Seq(S) /\ Len(s) = IF a + 1 <= b - 1 THEN b - 1 - (a + 1) + 1 ELSE 0
          /\ \A j \in 1..(b - 1 - (a + 1) + 1) : s[j] = str[a + 1 + j - 1]
      <4>1. a + 1 \in Int /\ b - 1 \in Int
        BY <2>5
      <4>. QED BY <3>1, <4>1, SubSeqProperties
    <3>3. b - 1 - (a + 1) + 1 = n /\ (~(a + 1 <= b - 1) => n = 0)
      BY <2>2, <2>5
    <3>. HIDE DEF s, n
    <3>4. Len(s) = n
      BY <3>2, <3>3
    <3>. QED BY <2>6, <3>2, <3>3, <3>4
  <2>8. /\ d \in Seq(S) /\ Len(d) = n /\ \A j \in 1..n : d[j] = data[a - p + j]
    <3>1. \A j \in (a - p + 1)..(b - p - 1) : data[j] \in S
      BY <1>1, <1>8, <1>12, <2>5
    <3>2. /\ d \in Seq(S) /\ Len(d) = IF a - p + 1 <= b - p - 1 THEN b - p - 1 - (a - p + 1) + 1 ELSE 0
          /\ \A j \in 1..(b - p - 1 - (a - p + 1) + 1) : d[j] = data[a - p + 1 + j - 1]
      <4>1. a - p + 1 \in Int /\ b - p - 1 \in Int
        BY <1>8, <2>5
      <4>. QED BY <3>1, <4>1, SubSeqProperties
    <3>3. b - p - 1 - (a - p + 1) + 1 = n /\ (~(a - p + 1 <= b - p - 1) => n = 0)
      BY <1>8, <2>2, <2>5
    <3>. HIDE DEF d, n
    <3>4. Len(d) = n
      BY <3>2, <3>3
    <3>. QED BY <2>6, <3>2, <3>3, <3>4
  <2>9. \A j \in 1..n : s[j] = d[j]
    <3>. TAKE j \in 1..n
    <3>1. data[a - p + j] = str[p + (a - p + j)]
      BY <1>12, <2>6
    <3>. HIDE DEF s, d, n
    <3>. QED BY <2>6, <2>7, <2>8, <3>1
  <2>10. s = d
    <3>. HIDE DEF s, d, n
    <3>. QED BY <2>7, <2>8, <2>9, SeqEqual
  <2>. QED BY <2>3, <2>4, <2>10
<1>19. Later(tokens, later)
  BY <1>1, <1>4, <1>5, <1>17, <1>18 DEF Later
<1>. QED BY <1>11, <1>12, <1>19 DEF later

-----------------------------------------------------------------------------
(* What holds at the beginning, and goes on from each number to the next.  *)
LEMMA Upwards ==
  ASSUME NEW N \in Nat, NEW good, 0 \in good, \A i \in 1..N : i - 1 \in good => i \in good
  PROVE  \A i \in 0..N : i \in good
<1>. DEFINE f == [i \in 0..N |-> i]
<1>1. f[0] = 0 /\ \A i \in 1..N : f[i - 1] = i - 1 /\ f[i] = i
  OBVIOUS
<1>2. \A i \in 0..N : f[i] = i
  OBVIOUS
<1>. HIDE DEF f
<1>3. \A i \in 0..N : f[i] \in good
  BY <1>1, IterationTyped
<1>. QED BY <1>2, <1>3

(* If texts that are not empty make a text with as many symbols as there   *)
(* are texts, then each of them is one symbol.                             *)
FollowedBy(S, w, t, u) ==
  /\ w \in Seq(S) /\ Len(w) = Len(t) + Len(u) /\ Len(t) \in Nat /\ Len(u) \in Nat
  /\ Len(t) = 1 => w[1] = t[1] /\ \A j \in 1..Len(u) : w[j + 1] = u[j]

LEMMA OneMore ==
  ASSUME NEW S, NEW t \in Seq(S), NEW u \in Seq(S), NEW w, w = t \o u
  PROVE  FollowedBy(S, w, t, u)
<1>1. Len(t) \in Nat /\ Len(u) \in Nat
  OBVIOUS
<1>2. /\ w \in Seq(S) /\ Len(w) = Len(t) + Len(u)
      /\ \A i \in 1..(Len(t) + Len(u)) : w[i] = IF i <= Len(t) THEN t[i] ELSE u[i - Len(t)]
  BY ConcatProperties
<1>3. ASSUME Len(t) = 1 PROVE w[1] = t[1] /\ \A j \in 1..Len(u) : w[j + 1] = u[j]
  <2>1. w[1] = t[1]
    <3>1. 1 \in 1..(Len(t) + Len(u)) /\ 1 <= Len(t)
      BY <1>1, <1>3
    <3>. QED BY <1>2, <3>1
  <2>2. ASSUME NEW j \in 1..Len(u) PROVE w[j + 1] = u[j]
    <3>1. j + 1 \in 1..(Len(t) + Len(u)) /\ ~(j + 1 <= Len(t)) /\ j + 1 - Len(t) = j
      BY <1>1, <1>3
    <3>. QED BY <1>2, <3>1
  <2>. QED BY <2>1, <2>2
<1>. QED BY <1>1, <1>2, <1>3 DEF FollowedBy

LEMMA JoinedOnes ==
  ASSUME NEW S, NEW texts \in Seq(Seq(S)), \A i \in 1..Len(texts) : Len(texts[i]) >= 1,
         Len(Joined(texts)) = Len(texts)
  PROVE  \A i \in 1..Len(texts) : Len(texts[i]) = 1 /\ Joined(texts)[i] = texts[i][1]
<1>. DEFINE N == Len(texts)
            next == [i \in 1..N |-> i + 1]
            w == Walk(texts, next)
            all == Joined(texts)
<1>1. /\ N \in Nat /\ next \in [1..N -> 1..(N + 1)]
      /\ \A i \in 1..N : i < next[i] /\ next[i] = i + 1 /\ texts[i] \in Seq(S)
  OBVIOUS
<1>2. all = w[1]
  BY DEF Joined
<1>3. /\ \A i \in 1..(N + 1) : w[i] \in Seq(S)
      /\ w[N + 1] = <<>> /\ \A i \in 1..N : w[i] = texts[i] \o w[i + 1]
  <2>. HIDE DEF next
  <2>1. IsRead(S, N, texts, next, w)
    BY <1>1, WalkReads
  <2>. HIDE DEF w, N
  <2>. QED BY <1>1, <2>1 DEF IsRead
<1>4. \A i \in 1..N : Len(texts[i]) >= 1
  OBVIOUS
<1>5. Len(all) = N
  OBVIOUS
<1>. HIDE DEF N, next, w, all
<1>6. ASSUME NEW i \in 1..N
      PROVE  /\ Len(w[i]) = Len(texts[i]) + Len(w[i + 1]) /\ Len(w[i + 1]) \in Nat
             /\ Len(texts[i]) \in Nat /\ Len(texts[i]) >= 1
             /\ Len(texts[i]) = 1 => /\ w[i][1] = texts[i][1]
                                     /\ \A j \in 1..Len(w[i + 1]) : w[i][j + 1] = w[i + 1][j]
  <2>1. w[i + 1] \in Seq(S) /\ texts[i] \in Seq(S) /\ w[i] = texts[i] \o w[i + 1]
    BY <1>1, <1>3
  <2>. DEFINE t == texts[i]
              u == w[i + 1]
  <2>2. t \in Seq(S) /\ u \in Seq(S) /\ w[i] = t \o u /\ Len(t) >= 1
    BY <1>4, <2>1
  <2>. HIDE DEF t, u
  <2>3. /\ Len(w[i]) = Len(t) + Len(u) /\ Len(u) \in Nat /\ Len(t) \in Nat
        /\ Len(t) = 1 => w[i][1] = t[1] /\ \A j \in 1..Len(u) : w[i][j + 1] = u[j]
    <3>1. FollowedBy(S, w[i], t, u)
      BY <2>2, OneMore
    <3>. QED BY <3>1 DEF FollowedBy
  <2>. QED BY <2>2, <2>3 DEF t, u
<1>. DEFINE long == {k \in 0..N : Len(w[N + 1 - k]) >= k}
<1>7. \A k \in 0..N : k \in long
  <2>1. 0 \in long
    <3>1. N + 1 - 0 = N + 1 /\ Len(w[N + 1]) >= 0 /\ 0 \in 0..N
      BY <1>1, <1>3
    <3>. QED BY <3>1
  <2>2. ASSUME NEW k \in 1..N, k - 1 \in long PROVE k \in long
    <3>1. N + 1 - k \in 1..N /\ N + 1 - (k - 1) = N + 1 - k + 1 /\ k \in 0..N
      BY <1>1
    <3>2. Len(w[N + 1 - k + 1]) >= k - 1
      BY <2>2, <3>1
    <3>3. /\ Len(w[N + 1 - k]) = Len(texts[N + 1 - k]) + Len(w[N + 1 - k + 1])
          /\ Len(texts[N + 1 - k]) \in Nat /\ Len(texts[N + 1 - k]) >= 1
          /\ Len(w[N + 1 - k + 1]) \in Nat
      BY <1>6, <3>1
    <3>4. \A a, b, d \in Nat : a >= k - 1 /\ b >= 1 /\ d = b + a => d >= k
      BY <1>1
    <3>5. Len(w[N + 1 - k]) \in Nat
      <4>1. \A a, b \in Nat : a + b \in Nat
        OBVIOUS
      <4>. QED BY <3>3, <4>1
    <3>6. Len(w[N + 1 - k]) >= k
      BY <3>2, <3>3, <3>4, <3>5
    <3>. QED BY <3>1, <3>6
  <2>. HIDE DEF long
  <2>. QED BY <1>1, <2>1, <2>2, Upwards
<1>8. ASSUME NEW i \in 1..N PROVE Len(w[i + 1]) >= N - i
  <2>1. N - i \in 0..N /\ N + 1 - (N - i) = i + 1
    BY <1>1
  <2>2. N - i \in long
    BY <1>7, <2>1
  <2>. QED BY <2>1, <2>2
<1>. DEFINE fits == {i \in 0..N : /\ Len(w[i + 1]) = N - i
                                  /\ \A j \in 1..(N - i) : all[i + j] = w[i + 1][j]}
<1>9. ASSUME NEW i \in 1..N, i - 1 \in fits
      PROVE  i \in fits /\ Len(texts[i]) = 1 /\ all[i] = texts[i][1]
  <2>1. /\ i - 1 + 1 = i /\ N - (i - 1) = N - i + 1 /\ N - i \in Nat /\ i \in 0..N
        /\ \A j \in 1..(N - i) : j + 1 \in 1..(N - i + 1) /\ i - 1 + (j + 1) = i + j
        /\ 1 \in 1..(N - i + 1)
    BY <1>1
  <2>2. Len(w[i]) = N - i + 1 /\ \A j \in 1..(N - i + 1) : all[i - 1 + j] = w[i][j]
    BY <1>9, <2>1
  <2>3. Len(texts[i]) = 1 /\ Len(w[i + 1]) = N - i
    <3>1. \A a, b, d \in Nat : a + b = d + 1 /\ a >= 1 /\ b >= d => a = 1 /\ b = d
      OBVIOUS
    <3>2. /\ Len(w[i]) = Len(texts[i]) + Len(w[i + 1]) /\ Len(w[i + 1]) \in Nat
          /\ Len(texts[i]) \in Nat /\ Len(texts[i]) >= 1
      BY <1>6
    <3>3. Len(texts[i]) + Len(w[i + 1]) = N - i + 1
      BY <2>2, <3>2
    <3>4. Len(w[i + 1]) >= N - i
      BY <1>8
    <3>. QED BY <2>1, <3>1, <3>2, <3>3, <3>4
  <2>4. w[i][1] = texts[i][1] /\ \A j \in 1..(N - i) : w[i][j + 1] = w[i + 1][j]
    BY <1>6, <2>3
  <2>5. all[i] = texts[i][1]
    BY <2>1, <2>2, <2>4
  <2>6. ASSUME NEW j \in 1..(N - i) PROVE all[i + j] = w[i + 1][j]
    <3>1. all[i - 1 + (j + 1)] = w[i][j + 1]
      BY <2>1, <2>2
    <3>. QED BY <2>1, <2>4, <3>1
  <2>. QED BY <2>1, <2>3, <2>5, <2>6
<1>10. 0 \in fits
  <2>1. 0 \in 0..N /\ 0 + 1 = 1 /\ N - 0 = N /\ \A j \in 1..N : 0 + j = j
    BY <1>1
  <2>. QED BY <1>2, <1>5, <2>1
<1>. HIDE DEF fits
<1>11. \A i \in 0..N : i \in fits
  BY <1>1, <1>9, <1>10, Upwards
<1>12. ASSUME NEW i \in 1..N PROVE Len(texts[i]) = 1 /\ all[i] = texts[i][1]
  <2>1. i - 1 \in 0..N
    BY <1>1
  <2>. QED BY <1>9, <1>11, <2>1
<1>. QED BY <1>12 DEF N, all

-----------------------------------------------------------------------------
(* The tokens of one measure: what they make is not nothing, and when it   *)
(* is one element and the first token is not empty, they are the name and  *)
(* the value.                                                              *)

PairMade(made, tokens, c, at) ==
  /\ IsList(made) /\ Len(made) >= 1
  /\ (Len(made) = 1 /\ made[1].why = "ok" /\ tokens[1] # <<>>) =>
       /\ Len(tokens) = 2 /\ tokens[2] # <<>>
       /\ made[1] = Made(Element(c, tokens[1], tokens[2], at))

LEMMA ParametersOne ==
  ASSUME NEW c, NEW at, NEW tokens, Len(tokens) \in Nat, Len(tokens) >= 1,
         NEW made, made = TranslateParameters(tokens, c, at)
  PROVE  PairMade(made, tokens, c, at)
<1>. DEFINE n == Len(tokens)
            each == [j \in 1..n |-> Parameter(tokens, c, at, j)]
            next == [j \in 1..n |-> IF each[j].why = "ok" THEN NameAt(tokens, j) + 2 ELSE n + 1]
            texts == [j \in 1..n |-> <<each[j]>>]
            S == {each[j] : j \in 1..n}
            w == Walk(texts, next)
<1>1. made = w[1]
  BY DEF TranslateParameters
<1>0. n \in Nat /\ n >= 1 /\ n = Len(tokens)
  OBVIOUS
<1>. HIDE DEF n
<1>2. ASSUME NEW j \in 1..n, each[j].why = "ok"
      PROVE  LET k == NameAt(tokens, j)
             IN /\ k \in {j, j + 1} /\ k < n /\ (k = j <=> tokens[j] # <<>>)
                /\ tokens[k + 1] # <<>>
                /\ each[j] = Made(Element(c, tokens[k], tokens[k + 1], at))
  <2>. DEFINE k == NameAt(tokens, j)
  <2>1. k \in {j, j + 1} /\ (k = j <=> tokens[j] # <<>>)
    BY DEF NameAt
  <2>. HIDE DEF k
  <2>2. each[j] = IF k >= Len(tokens) THEN Stop("undefined")
                  ELSE IF tokens[k + 1] = <<>> THEN Stop("bad")
                  ELSE IF Endless(c, tokens[k]) THEN Stop("endless")
                  ELSE Made(Element(c, tokens[k], tokens[k + 1], at))
    BY DEF Parameter, k, each
  <2>. HIDE DEF each
  <2>3. /\ Stop("undefined").why # "ok" /\ Stop("bad").why # "ok" /\ Stop("endless").why # "ok"
    BY DEF Stop
  <2>4. ~(k >= n) /\ tokens[k + 1] # <<>>
        /\ each[j] = Made(Element(c, tokens[k], tokens[k + 1], at))
    BY <1>0, <1>2, <2>2, <2>3
  <2>5. k < n
    BY <1>0, <2>1, <2>4
  <2>. QED BY <2>1, <2>4, <2>5 DEF k
<1>3. texts \in Seq(Seq(S)) /\ Len(texts) = n /\ \A j \in 1..n : texts[j] = <<each[j]>>
  <2>. HIDE DEF each
  <2>1. \A j \in 1..n : each[j] \in S
    OBVIOUS
  <2>. HIDE DEF S
  <2>2. \A j \in 1..n : <<each[j]>> \in Seq(S)
    BY <2>1
  <2>3. texts \in [1..n -> Seq(S)]
    BY <2>2
  <2>. QED BY <1>0, <2>3
<1>4. /\ next \in [1..n -> 1..(n + 1)] /\ \A j \in 1..n : j < next[j]
      /\ \A j \in 1..n : next[j] = IF each[j].why = "ok" THEN NameAt(tokens, j) + 2 ELSE n + 1
  <2>. HIDE DEF each
  <2>1. \A j \in 1..n : next[j] = IF each[j].why = "ok" THEN NameAt(tokens, j) + 2 ELSE n + 1
    OBVIOUS
  <2>2. ASSUME NEW j \in 1..n PROVE next[j] \in 1..(n + 1) /\ j < next[j]
    <3>. HIDE DEF next
    <3>1. CASE each[j].why = "ok"
      <4>1. NameAt(tokens, j) \in {j, j + 1} /\ NameAt(tokens, j) < n
        BY <1>2, <3>1
      <4>. QED BY <1>0, <2>1, <3>1, <4>1
    <3>2. CASE each[j].why # "ok"
      BY <1>0, <2>1, <3>2
    <3>. QED BY <3>1, <3>2
  <2>3. next = [j \in 1..n |-> next[j]]
    OBVIOUS
  <2>. HIDE DEF next
  <2>. QED BY <2>1, <2>2, <2>3
<1>5. IsRead(S, n, texts, next, w)
  <2>. HIDE DEF texts, next, S
  <2>. QED BY <1>0, <1>3, <1>4, WalkReads
<1>. HIDE DEF w, next, S, texts, each
<1>6. ASSUME NEW j \in 1..n
      PROVE  /\ w[j] \in Seq(S) /\ w[next[j]] \in Seq(S) /\ Len(w[j]) = 1 + Len(w[next[j]])
             /\ Len(w[next[j]]) \in Nat /\ w[j][1] = each[j]
  <2>. DEFINE t == texts[j]
              u == w[next[j]]
  <2>1. next[j] \in 1..(n + 1) /\ t = <<each[j]>>
    BY <1>3, <1>4
  <2>2. w[j] = t \o u /\ u \in Seq(S)
    BY <1>5, <2>1 DEF IsRead
  <2>3. t \in Seq(S) /\ Len(t) = 1 /\ t[1] = each[j]
    <3>1. t \in Seq(S)
      BY <1>3
    <3>. QED BY <2>1, <3>1
  <2>. HIDE DEF t, u
  <2>4. /\ w[j] \in Seq(S) /\ Len(w[j]) = Len(t) + Len(u) /\ Len(u) \in Nat /\ w[j][1] = t[1]
    <3>1. FollowedBy(S, w[j], t, u)
      BY <2>2, <2>3, OneMore
    <3>. QED BY <2>3, <3>1 DEF FollowedBy
  <2>. QED BY <2>2, <2>3, <2>4 DEF u
<1>7. IsList(made) /\ Len(made) >= 1
  <2>1. 1 \in 1..n
    BY <1>0
  <2>2. made \in Seq(S) /\ Len(made) >= 1
    BY <1>1, <1>6, <2>1
  <2>. QED BY <2>2 DEF IsList
<1>8. ASSUME Len(made) = 1, made[1].why = "ok", tokens[1] # <<>>
      PROVE  /\ n = 2 /\ tokens[2] # <<>>
             /\ made[1] = Made(Element(c, tokens[1], tokens[2], at))
  <2>1. 1 \in 1..n
    BY <1>0
  <2>2. Len(w[next[1]]) = 0 /\ made[1] = each[1]
    <3>1. Len(w[1]) = 1 + Len(w[next[1]]) /\ Len(w[next[1]]) \in Nat /\ w[1][1] = each[1]
      BY <1>6, <2>1
    <3>2. \A m \in Nat : 1 + m = 1 => m = 0
      OBVIOUS
    <3>. QED BY <1>1, <1>8, <3>1, <3>2
  <2>3. next[1] = n + 1
    <3>1. ASSUME next[1] \in 1..n PROVE FALSE
      <4>. DEFINE m == next[1]
      <4>1. m \in 1..n
        BY <3>1
      <4>2. Len(w[m]) = 1 + Len(w[next[m]]) /\ Len(w[next[m]]) \in Nat
        BY <1>6, <4>1
      <4>3. \A k \in Nat : 1 + k # 0
        OBVIOUS
      <4>. QED BY <2>2, <4>2, <4>3
    <3>. QED BY <1>0, <1>4, <2>1, <3>1
  <2>4. each[1].why = "ok"
    BY <1>8, <2>2
  <2>5. /\ NameAt(tokens, 1) = 1 /\ NameAt(tokens, 1) + 2 = n + 1
        /\ tokens[NameAt(tokens, 1) + 1] # <<>>
        /\ each[1] = Made(Element(c, tokens[NameAt(tokens, 1)], tokens[NameAt(tokens, 1) + 1], at))
    BY <1>2, <1>4, <1>8, <2>1, <2>3, <2>4
  <2>6. n = 2 /\ 1 + 1 = 2
    BY <1>0, <2>5
  <2>. QED BY <2>2, <2>5, <2>6
<1>. QED BY <1>0, <1>7, <1>8 DEF PairMade

-----------------------------------------------------------------------------
(* A piece that makes one element is a measure as the protocol has it: a   *)
(* name and a value, and a date before them or none.                       *)

MeasureOK(f) == Len(f) \in {2, 3} /\ f[Len(f)] # <<>> /\ f[Len(f) - 1] # <<>>

MeasureAt(f, time) == DateToCB(IF Len(f) = 3 THEN f[1] ELSE time)

MeasureElto(c, f, time) == Element(c, f[Len(f) - 1], f[Len(f)], MeasureAt(f, time))

LEMMA FirstToken ==
  ASSUME NEW S, NEW str \in Seq(S), NEW sep, NEW tokens, tokens = riot_tokenizer(str, sep)
  PROVE  /\ Len(tokens) \in Nat /\ Len(tokens) >= 1 /\ Before(str, sep) = tokens[1]
         /\ Len(tokens) = Cardinality(Seps(str, sep)) + 1
         /\ Cardinality(Seps(str, sep)) \in Nat /\ IsFiniteSet(Seps(str, sep))
<1>1. /\ Len(tokens) = Cardinality(Seps(str, sep)) + 1
      /\ Cardinality(Seps(str, sep)) \in Nat /\ IsFiniteSet(Seps(str, sep))
  BY TokensCounted, CutsCounted
<1>2. Before(str, sep) = tokens[1]
  BY DEF Before
<1>. QED BY <1>1, <1>2

LEMMA EmptyBefore == Before(<<>>, "|") = <<>>
<1>. DEFINE tokens == riot_tokenizer(<<>>, "|")
<1>1. <<>> \in Seq({})
  OBVIOUS
<1>2. Len(tokens) \in Nat /\ Len(tokens) >= 1 /\ Before(<<>>, "|") = tokens[1]
  BY <1>1, FirstToken
<1>3. \A i \in 1..Len(tokens) : tokens[i] \in Seq({})
  BY <1>1, TokensTyped
<1>. HIDE DEF tokens
<1>4. tokens[1] \in Seq({})
  BY <1>2, <1>3
<1>5. ASSUME NEW s \in Seq({}) PROVE s = <<>>
  <2>1. Len(s) = 0
    <3>1. ASSUME Len(s) # 0 PROVE FALSE
      <4>1. 1 \in 1..Len(s)
        BY <3>1
      <4>2. s[1] \in {}
        BY <4>1
      <4>. QED BY <4>2
    <3>. QED BY <3>1
  <2>. QED BY <2>1
<1>. QED BY <1>2, <1>4, <1>5

LEMMA MeasureOne ==
  ASSUME NEW S, NEW io \in Seq(S), NEW c, NEW time, NEW f, f = riot_tokenizer(io, "|"),
         NEW made, made = TranslateMeasure(io, c, time)
  PROVE  /\ IsList(made) /\ Len(made) >= 1
         /\ (Len(made) = 1 /\ made[1].why = "ok") =>
               MeasureOK(f) /\ made[1].elto = MeasureElto(c, f, time)
<1>. DEFINE pipes == Seps(io, "|")
            m == contentForSBCProtocol(io, time)
            tokens == riot_tokenizer(m.data, "|")
            at == DateToCB(m.date)
<1>1. /\ Len(f) = Cardinality(pipes) + 1 /\ Cardinality(pipes) \in Nat /\ IsFiniteSet(pipes)
      /\ Before(io, "|") = f[1]
  BY FirstToken
<1>2. /\ m.alias = Before(m.data, "|")
      /\ pipes = {} => m.data = <<>>
      /\ Cardinality(pipes) = 1 => m.data = io /\ m.date = time
      /\ Cardinality(pipes) \notin {0, 1} => m.data = After(io, "|") /\ m.date = f[1]
  <2>. HIDE DEF pipes
  <2>1. pipes = {} <=> Cardinality(pipes) = 0
    BY <1>1, FS_EmptySet
  <2>2. /\ m.data = (IF pipes = {} THEN <<>>
                     ELSE IF Cardinality(pipes) = 1 THEN io ELSE After(io, "|"))
        /\ m.date = (CASE pipes = {} -> <<>>
                       [] Cardinality(pipes) = 1 -> time
                       [] OTHER -> Before(io, "|"))
        /\ m.alias = Before(m.data, "|")
    BY DEF contentForSBCProtocol, pipes, Seps
  <2>. HIDE DEF m
  <2>3. pipes = {} => m.data = <<>>
    BY <2>2
  <2>4. Cardinality(pipes) = 1 => m.data = io /\ m.date = time
    BY <2>1, <2>2
  <2>5. Cardinality(pipes) \notin {0, 1} => m.data = After(io, "|") /\ m.date = f[1]
    BY <1>1, <2>1, <2>2
  <2>. QED BY <2>2, <2>3, <2>4, <2>5
<1>. HIDE DEF m, pipes
<1>3. made = IF m.alias = <<>> THEN <<Stop("bad")>> ELSE TranslateParameters(tokens, c, at)
  BY DEF TranslateMeasure, m
<1>4. CASE m.alias = <<>>
  <2>1. made = <<Stop("bad")>> /\ Stop("bad").why # "ok"
    BY <1>3, <1>4 DEF Stop
  <2>. DEFINE x == Stop("bad")
  <2>. HIDE DEF x
  <2>2. \A X : <<x>> \in Seq({x}) /\ Len(<<x>>) = 1 /\ <<x>>[1] = x /\ IsList(<<x>>)
    BY DEF IsList
  <2>. QED BY <2>1, <2>2 DEF x
<1>5. CASE m.alias # <<>>
  <2>1. Cardinality(pipes) # 0
    <3>1. pipes = {} => m.alias = <<>>
      BY <1>2, EmptyBefore
    <3>. QED BY <1>1, <1>5, <3>1, FS_EmptySet
  <2>2. m.data \in Seq(S)
    <3>1. CASE Cardinality(pipes) = 1
      BY <1>2, <3>1
    <3>2. CASE Cardinality(pipes) # 1
      <4>1. Len(f) >= 2
        BY <1>1, <2>1
      <4>2. After(io, "|") \in Seq(S)
        BY <4>1, TokensAfter
      <4>. QED BY <1>2, <2>1, <3>2, <4>2
    <3>. QED BY <3>1, <3>2
  <2>3. Len(tokens) \in Nat /\ Len(tokens) >= 1 /\ m.alias = tokens[1]
    BY <1>2, <2>2, FirstToken
  <2>4. made = TranslateParameters(tokens, c, at)
    BY <1>3, <1>5
  <2>. HIDE DEF at
  <2>5. /\ IsList(made) /\ Len(made) >= 1
        /\ (Len(made) = 1 /\ made[1].why = "ok" /\ tokens[1] # <<>>) =>
             /\ Len(tokens) = 2 /\ tokens[2] # <<>>
             /\ made[1] = Made(Element(c, tokens[1], tokens[2], at))
    <3>. HIDE DEF tokens
    <3>1. PairMade(made, tokens, c, at)
      BY <2>3, <2>4, ParametersOne
    <3>. QED BY <3>1 DEF PairMade
  <2>6. ASSUME Len(made) = 1, made[1].why = "ok"
        PROVE  MeasureOK(f) /\ made[1].elto = MeasureElto(c, f, time)
    <3>1. /\ Len(tokens) = 2 /\ tokens[2] # <<>> /\ tokens[1] # <<>>
          /\ made[1] = Made(Element(c, tokens[1], tokens[2], at))
      BY <1>5, <2>3, <2>5, <2>6
    <3>2. made[1].elto = Element(c, tokens[1], tokens[2], at)
      BY <3>1 DEF Made
    <3>3. CASE Cardinality(pipes) = 1
      <4>1. Len(f) = 2 /\ tokens = f /\ at = MeasureAt(f, time) /\ 2 - 1 = 1
        <5>1. Len(f) = 2 /\ m.data = io /\ m.date = time
          BY <1>1, <1>2, <3>3
        <5>2. tokens = f
          BY <5>1
        <5>3. (IF Len(f) = 3 THEN f[1] ELSE time) = m.date
          <6>0. \A q \in Nat : q = 2 => q # 3
            OBVIOUS
          <6>1. Len(f) # 3
            BY <5>1, <6>0
          <6>2. (IF Len(f) = 3 THEN f[1] ELSE time) = time
            BY <6>1
          <6>. QED BY <5>1, <6>2
        <5>4. at = MeasureAt(f, time)
          BY <5>3 DEF MeasureAt, at
        <5>. HIDE DEF tokens
        <5>. QED BY <5>1, <5>2, <5>4
      <4>. HIDE DEF tokens
      <4>2. Element(c, tokens[1], tokens[2], at) = MeasureElto(c, f, time)
        BY <4>1 DEF MeasureElto
      <4>. QED BY <3>1, <3>2, <4>1, <4>2 DEF MeasureOK
    <3>4. CASE Cardinality(pipes) # 1
      <4>1. Len(f) >= 2 /\ m.data = After(io, "|") /\ m.date = f[1]
        BY <1>1, <1>2, <2>1, <3>4
      <4>2. Later(f, tokens)
        BY <4>1, TokensAfter
      <4>. HIDE DEF tokens
      <4>3. Len(f) - 1 = 2 /\ \A i \in 1..2 : tokens[i] = f[i + 1]
        BY <3>1, <4>2 DEF Later
      <4>4. Len(f) = 3 /\ 3 - 1 = 2
        BY <1>1, <4>3
      <4>5. tokens[1] = f[2] /\ tokens[2] = f[3]
        <5>1. tokens[1] = f[1 + 1] /\ tokens[2] = f[2 + 1] /\ 1 + 1 = 2 /\ 2 + 1 = 3
          BY <4>3
        <5>. QED BY <5>1
      <4>6. at = MeasureAt(f, time)
        BY <4>1, <4>4 DEF MeasureAt, at
      <4>7. Element(c, tokens[1], tokens[2], at) = MeasureElto(c, f, time)
        BY <4>4, <4>5, <4>6 DEF MeasureElto
      <4>. QED BY <3>1, <3>2, <4>4, <4>5, <4>7 DEF MeasureOK
    <3>. QED BY <3>3, <3>4
  <2>. QED BY <2>5, <2>6
<1>. QED BY <1>4, <1>5

(* A content that is translated is well formed, and each of its pieces is  *)
(* one element.                                                            *)
LEMMA SeqWider ==
  ASSUME NEW A, NEW B, A \subseteq B, NEW s \in Seq(A) PROVE s \in Seq(B)
OBVIOUS

Translated(content, c, time) ==
  LET t == translate(content, c, time)
      n == Len(riot_tokenizer(content, "#"))
  IN /\ n \in Nat /\ Len(t.eltos) = n /\ IsList(t.eltos)
     /\ \A i \in 1..n : /\ MeasureOK(Fields(content, i))
                        /\ t.eltos[i] = MeasureElto(c, Fields(content, i), time)

LEMMA TranslateMeans ==
  ASSUME NEW S, NEW content \in Seq(S), NEW c, NEW time,
         translate(content, c, time).why = "ok"
  PROVE  Translated(content, c, time)
<1>. DEFINE pieces == riot_tokenizer(content, "#")
            n == Len(pieces)
            texts == [i \in 1..n |-> TranslateMeasure(pieces[i], c, time)]
            all == AllMade(content, c, time)
            t == translate(content, c, time)
            stops == {i \in 1..Len(all) : all[i].why # "ok"}
            bad == [why |-> "bad", eltos |-> <<>>]
<1>1. n \in Nat /\ \A i \in 1..n : pieces[i] \in Seq(S)
  BY TokensTyped
<1>2. all = Joined(texts)
  BY DEF AllMade
<1>. HIDE DEF pieces
<1>3. ASSUME NEW i \in 1..n
      PROVE  LET f == Fields(content, i) IN
             /\ IsList(texts[i]) /\ Len(texts[i]) >= 1
             /\ (Len(texts[i]) = 1 /\ texts[i][1].why = "ok") =>
                  MeasureOK(f) /\ texts[i][1].elto = MeasureElto(c, f, time)
  <2>. DEFINE io == pieces[i]
              f == riot_tokenizer(io, "|")
              made == TranslateMeasure(io, c, time)
  <2>1. io \in Seq(S)
    BY <1>1
  <2>2. texts[i] = made
    OBVIOUS
  <2>3. f = Fields(content, i)
    BY DEF Fields, pieces
  <2>. HIDE DEF io
  <2>4. /\ IsList(made) /\ Len(made) >= 1
        /\ (Len(made) = 1 /\ made[1].why = "ok") =>
             MeasureOK(f) /\ made[1].elto = MeasureElto(c, f, time)
    BY <2>1, MeasureOne
  <2>. HIDE DEF made, f, texts
  <2>. QED BY <2>2, <2>3, <2>4
<1>. HIDE DEF all, texts, n
<1>4. /\ stops = {} /\ Len(all) = n /\ t.eltos = EltosOf(all)
  <2>1. t = IF stops # {} THEN [why |-> all[Min(stops)].why, eltos |-> <<>>]
            ELSE IF Len(all) # n THEN bad ELSE [why |-> "ok", eltos |-> EltosOf(all)]
    BY DEF translate, all, n, pieces
  <2>2. CASE stops # {}
    <3>1. t.why = all[Min(stops)].why
      BY <2>1, <2>2
    <3>2. Len(all) \in Nat \/ TRUE
      OBVIOUS
    <3>3. Min(stops) \in stops
      <4>1. stops \in SUBSET Nat
        OBVIOUS
      <4>. HIDE DEF stops
      <4>. QED BY <2>2, <4>1, MinOf
    <3>4. all[Min(stops)].why # "ok"
      BY <3>3
    <3>. QED BY <3>1, <3>4
  <2>3. CASE stops = {}
    <3>. HIDE DEF stops
    <3>1. bad.why # "ok"
      OBVIOUS
    <3>. HIDE DEF t, bad
    <3>2. t.why = "ok"
      BY DEF t
    <3>3. Len(all) = n
      BY <2>1, <2>3, <3>1, <3>2
    <3>4. t = [why |-> "ok", eltos |-> EltosOf(all)]
      BY <2>1, <2>3, <3>3
    <3>. QED BY <2>3, <3>3, <3>4
  <2>. QED BY <2>2, <2>3
<1>. DEFINE Kinds == UNION {{texts[i][j] : j \in DOMAIN texts[i]} : i \in 1..n}
<1>5. texts \in Seq(Seq(Kinds)) /\ Len(texts) = n
  <2>1. ASSUME NEW i \in 1..n PROVE texts[i] \in Seq(Kinds)
    <3>. DEFINE own == {texts[i][j] : j \in DOMAIN texts[i]}
    <3>1. texts[i] \in Seq(own)
      BY <1>3 DEF IsList
    <3>2. own \subseteq Kinds
      OBVIOUS
    <3>. HIDE DEF own, Kinds
    <3>. QED BY <3>1, <3>2, SeqWider
  <2>2. texts = [i \in 1..n |-> texts[i]]
    BY DEF texts
  <2>. HIDE DEF Kinds
  <2>3. texts \in [1..n -> Seq(Kinds)]
    BY <2>1, <2>2
  <2>. QED BY <1>1, <2>3
<1>. HIDE DEF Kinds
<1>6. \A i \in 1..n : Len(texts[i]) >= 1
  BY <1>3
<1>7. \A i \in 1..n : Len(texts[i]) = 1 /\ all[i] = texts[i][1]
  BY <1>2, <1>4, <1>5, <1>6, JoinedOnes
<1>8. \A i \in 1..n : all[i].why = "ok"
  BY <1>4
<1>9. EltosOf(all) = [i \in 1..n |-> all[i].elto]
  BY <1>4 DEF EltosOf
<1>10. ASSUME NEW i \in 1..n
       PROVE  MeasureOK(Fields(content, i)) /\ t.eltos[i] = MeasureElto(c, Fields(content, i), time)
  <2>1. texts[i][1].why = "ok" /\ Len(texts[i]) = 1
    BY <1>7, <1>8
  <2>2. MeasureOK(Fields(content, i)) /\ texts[i][1].elto = MeasureElto(c, Fields(content, i), time)
    BY <1>3, <2>1
  <2>3. t.eltos[i] = all[i].elto
    BY <1>4, <1>9
  <2>. QED BY <1>7, <2>2, <2>3
<1>11. Len(t.eltos) = n /\ IsList(t.eltos)
  <2>. DEFINE e == t.eltos
  <2>1. e = [i \in 1..n |-> all[i].elto]
    BY <1>4, <1>9
  <2>. HIDE DEF e
  <2>2. DOMAIN e = 1..n /\ Len(e) = n
    BY <1>1, <2>1
  <2>3. e \in [1..n -> {e[i] : i \in DOMAIN e}]
    BY <2>1, <2>2
  <2>4. IsList(e)
    BY <1>1, <2>3 DEF IsList
  <2>. QED BY <2>2, <2>4 DEF e
<1>. HIDE DEF t
<1>. QED BY <1>1, <1>10, <1>11 DEF Translated, t, n, pieces

-----------------------------------------------------------------------------
(* The entity of a measure: what is static, then the measure, then the     *)
(* time of it; under one name and type, which formatting leaves alone.     *)

Instant == <<"TimeInstant">>
AttributeOf(c, name, value, time) == [name |-> Renamed(c, name), value |-> value, time |-> time]

EltoOf(x, c, name, value, at) ==
  LET n == Len(x.attributes) IN
  /\ x.id = get_real_name(c) /\ x.type = EntityType(c) /\ format(x, c) = x
  /\ n \in Nat /\ n >= 2
  /\ x.attributes[n - 1] = AttributeOf(c, name, value, at)
  /\ x.attributes[n] = AttributeOf(c, Instant, at, <<>>)
  /\ \A j \in 1..(n - 2) : x.attributes[j] \in StaticNamed(c)

Record(e) == e = [id |-> e.id, type |-> e.type, attributes |-> e.attributes]

Added(x, e, c, name, value, time) ==
  /\ Record(x) /\ x.id = e.id /\ x.type = e.type
  /\ x.attributes = Append(e.attributes, AttributeOf(c, name, value, time))

LEMMA AddGiven ==
  ASSUME NEW e, Record(e), NEW c, NEW name, NEW value, value # <<>>, NEW time,
         NEW x, x = add_attribute(e, c, [name |-> name, value |-> value, time |-> time])
  PROVE  Added(x, e, c, name, value, time)
<1>. DEFINE a == [name |-> name, value |-> value, time |-> time]
            b == AttributeOf(c, name, value, time)
<1>1. a.value = value /\ [a EXCEPT !.name = Renamed(c, @)] = b
  BY DEF AttributeOf
<1>2. x = [e EXCEPT !.attributes = Append(@, [a EXCEPT !.name = Renamed(c, @)])]
  <2>1. add_attribute(e, c, a) = IF a.value = <<>> THEN e
            ELSE [e EXCEPT !.attributes = Append(@, [a EXCEPT !.name = Renamed(c, @)])]
    BY DEF add_attribute
  <2>. HIDE DEF a
  <2>. QED BY <1>1, <2>1 DEF a
<1>. HIDE DEF a, b
<1>3. x = [e EXCEPT !.attributes = Append(@, b)]
  BY <1>1, <1>2
<1>4. x = [id |-> e.id, type |-> e.type, attributes |-> Append(e.attributes, b)]
  BY <1>3 DEF Record
<1>. QED BY <1>4 DEF Record, b, Added

LEMMA DateGiven == ASSUME NEW date PROVE DateToCB(date) # <<>>
BY DEF DateToCB

LEMMA ElementIs ==
  ASSUME NEW c, StaticsOK(c.device_static), StaticsOK(c.service_static),
         NEW name, NEW value, value # <<>>, NEW at, at # <<>>,
         NEW x, x = Element(c, name, value, at)
  PROVE  EltoOf(x, c, name, value, at)
<1>. DEFINE e == set_env_info(NewElement(c), c)
            measure == [name |-> name, value |-> value, time |-> at]
            y == add_attribute(e, c, measure)
            instant == [name |-> Instant, value |-> at, time |-> <<>>]
            m == AttributeOf(c, name, value, at)
            t == AttributeOf(c, Instant, at, <<>>)
            s == e.attributes
<1>1. x = add_attribute(y, c, instant)
  BY DEF Element, NewElement, Instant
<1>2. e \in EntityOf(c)
  BY EnvironmentSet
<1>. HIDE DEF e
<1>3. /\ Record(e) /\ e.id = get_real_name(c) /\ e.type = EntityType(c)
      /\ s \in Seq(StaticNamed(c))
  BY <1>2 DEF EntityOf, Record
<1>4. Record(y) /\ y.id = e.id /\ y.type = e.type /\ y.attributes = Append(s, m)
  <2>1. Added(y, e, c, name, value, at)
    BY <1>3, AddGiven
  <2>. HIDE DEF y
  <2>. QED BY <2>1 DEF Added
<1>. HIDE DEF y, s
<1>5. Record(x) /\ x.id = y.id /\ x.type = y.type /\ x.attributes = Append(Append(s, m), t)
  <2>1. Added(x, y, c, Instant, at, <<>>)
    BY <1>1, <1>4, AddGiven
  <2>. QED BY <1>4, <2>1 DEF Added
<1>6. x.id = get_real_name(c) /\ x.type = EntityType(c)
  BY <1>3, <1>4, <1>5
<1>7. format(x, c) = x
  BY <1>5, <1>6, FormatAgain DEF Record
<1>. DEFINE a == x.attributes
            k == Len(s)
<1>. HIDE DEF m, t
<1>8. /\ k \in Nat /\ Len(a) = k + 2 /\ a[k + 1] = m /\ a[k + 2] = t
      /\ \A j \in 1..k : a[j] = s[j] /\ s[j] \in StaticNamed(c)
  <2>. DEFINE X == StaticNamed(c) \cup {m, t}
              u == Append(s, m)
  <2>1. s \in Seq(X) /\ k \in Nat /\ \A j \in 1..k : s[j] \in StaticNamed(c)
    BY <1>3
  <2>2. m \in X /\ t \in X
    OBVIOUS
  <2>. HIDE DEF X
  <2>3. u \in Seq(X) /\ Len(u) = k + 1 /\ u[k + 1] = m /\ \A j \in 1..k : u[j] = s[j]
    BY <2>1, <2>2, AppendProperties
  <2>4. a = Append(u, t)
    BY <1>5
  <2>. HIDE DEF u, a, k
  <2>5. Len(a) = Len(u) + 1 /\ a[Len(u) + 1] = t /\ \A j \in 1..Len(u) : a[j] = u[j]
    BY <2>2, <2>3, <2>4, AppendProperties
  <2>6. k + 1 + 1 = k + 2 /\ k + 1 \in 1..(k + 1) /\ \A j \in 1..k : j \in 1..(k + 1)
    BY <2>1
  <2>7. Len(a) = k + 2 /\ a[k + 2] = t /\ a[k + 1] = m
    BY <2>3, <2>5, <2>6
  <2>8. \A j \in 1..k : a[j] = s[j]
    BY <2>3, <2>5, <2>6
  <2>. QED BY <2>1, <2>7, <2>8
<1>. HIDE DEF k, a
<1>9. Len(a) - 1 = k + 1 /\ Len(a) - 2 = k /\ Len(a) \in Nat /\ Len(a) >= 2
  BY <1>8
<1>10. a[Len(a) - 1] = m /\ a[Len(a)] = t /\ \A j \in 1..(Len(a) - 2) : a[j] \in StaticNamed(c)
  BY <1>8, <1>9
<1>. QED BY <1>6, <1>7, <1>9, <1>10 DEF EltoOf, a, m, t

(* What a content that is translated gives, element by element. *)
EltosTold(content, c, time, all) ==
  LET n == Len(riot_tokenizer(content, "#"))
      f(i) == Fields(content, i)
  IN /\ n \in Nat /\ Len(all) = n /\ IsList(all)
     /\ \A i \in 1..n :
          /\ MeasureOK(f(i))
          /\ EltoOf(all[i], c, f(i)[Len(f(i)) - 1], f(i)[Len(f(i))], MeasureAt(f(i), time))

LEMMA TranslateTells ==
  ASSUME NEW content, IsList(content), NEW c \in Configs, NEW time,
         translate(content, c, time).why = "ok"
  PROVE  EltosTold(content, c, time, translate(content, c, time).eltos)
<1>. DEFINE all == translate(content, c, time).eltos
            n == Len(riot_tokenizer(content, "#"))
<1>1. Translated(content, c, time)
  BY TranslateMeans DEF IsList
<1>2. /\ n \in Nat /\ Len(all) = n /\ IsList(all)
      /\ \A i \in 1..n : MeasureOK(Fields(content, i)) /\ all[i] = MeasureElto(c, Fields(content, i), time)
  BY <1>1 DEF Translated
<1>3. StaticsOK(c.device_static) /\ StaticsOK(c.service_static)
  BY ULConfigsAssumption DEF ULConfigsAssumption
<1>. HIDE DEF all, n
<1>4. ASSUME NEW i \in 1..n
      PROVE  LET f == Fields(content, i)
             IN  EltoOf(all[i], c, f[Len(f) - 1], f[Len(f)], MeasureAt(f, time))
  <2>. DEFINE f == Fields(content, i)
              v == f[Len(f)]
              at == MeasureAt(f, time)
              name == f[Len(f) - 1]
  <2>1. all[i] = Element(c, name, v, at) /\ v # <<>>
    BY <1>2 DEF MeasureElto, MeasureOK
  <2>2. at # <<>>
    BY DateGiven DEF MeasureAt
  <2>. HIDE DEF v, at, name
  <2>3. EltoOf(all[i], c, name, v, at)
    BY <1>3, <2>1, <2>2, ElementIs
  <2>. QED BY <2>3 DEF v, at, name
<1>. QED BY <1>2, <1>4 DEF EltosTold, all, n

-----------------------------------------------------------------------------
(* What is sent and what is still to be sent is what the content was       *)
(* translated to; a message that is refused has sent nothing.              *)

Translation == translate(request.content, config, request.time)

Handed(done, rest, all) ==
  LET X == {all[i] : i \in DOMAIN all}
  IN  done \in Seq(X) /\ rest \in Seq(X) /\ all = done \o rest

Unsent == sent = <<>> /\ eltos = <<>> /\ code = 200

Read == IsMeasure /\ Translation.why = "ok" /\ code = 200

ULInv ==
  /\ config \in Configs
  /\ request \in Requests \cup {NoRequest}
  /\ ulpc \in {"idle", "content", "send", "commands", "answered", "answered with commands", "crashed"}
  /\ ulpc \in {"idle", "content"} => Unsent
  /\ ulpc = "crashed" => sent = <<>>
  /\ ulpc = "send" => Read /\ Handed(sent, eltos, Translation.eltos)
  /\ ulpc \in {"commands", "answered", "answered with commands"} =>
       \/ sent = <<>> /\ code = 400
       \/ sent = <<>> /\ code = 200 /\ ~IsMeasure
       \/ Read /\ Handed(sent, <<>>, Translation.eltos)

LEMMA InitULInv == ULInit("idle") => ULInv
BY DEF ULInit, ULInv, Unsent

LEMMA RequestKeeps == ULInv /\ Request => ULInv'
<1>. SUFFICES ASSUME ULInv, Request PROVE ULInv'
  OBVIOUS
<1>1. /\ ulpc = "idle" /\ config' = config /\ eltos' = eltos /\ sent' = sent /\ request' \in Requests
      /\ \/ code' = 400 /\ ulpc' = "commands"
         \/ code' = code /\ ulpc' = "content"
  BY DEF Request
<1>2. sent = <<>> /\ eltos = <<>> /\ code = 200
  BY <1>1 DEF ULInv, Unsent
<1>. QED BY <1>1, <1>2 DEF ULInv, Unsent

LEMMA TranslateList ==
  ASSUME NEW content, IsList(content), NEW c, NEW time
  PROVE  LET t == translate(content, c, time) IN
         /\ t.why # "ok" => t.eltos = <<>>
         /\ t.why = "ok" => Handed(<<>>, t.eltos, t.eltos)
<1>. DEFINE t == translate(content, c, time)
<1>1. ASSUME t.why # "ok" PROVE t.eltos = <<>>
  <2>1. \/ \E w : t = [why |-> w, eltos |-> <<>>]
        \/ t = [why |-> "ok", eltos |-> EltosOf(AllMade(content, c, time))]
    BY Zenon DEF translate
  <2>. HIDE DEF t
  <2>. QED BY <1>1, <2>1
<1>2. ASSUME t.why = "ok" PROVE Handed(<<>>, t.eltos, t.eltos)
  <2>1. IsList(t.eltos)
    BY <1>2, TranslateMeans DEF IsList, Translated
  <2>. DEFINE e == t.eltos
              X == {e[i] : i \in DOMAIN e}
  <2>2. e \in Seq(X)
    BY <2>1 DEF IsList
  <2>. HIDE DEF e, X
  <2>3. <<>> \in Seq(X) /\ <<>> \o e = e
    BY <2>2
  <2>. QED BY <2>2, <2>3 DEF Handed, e, X
<1>. QED BY <1>1, <1>2

LEMMA RequestsTyped == ULInv => IsList(request.content)
<1>1. IsList(NoRequest.content)
  BY EmptyList DEF NoRequest
<1>2. \A r \in Requests : IsList(r.content)
  BY ULRequestsAssumption DEF ULRequestsAssumption
<1>. QED BY <1>1, <1>2 DEF ULInv

LEMMA ContentKeeps == ULInv /\ Content => ULInv'
<1>. SUFFICES ASSUME ULInv, Content PROVE ULInv'
  OBVIOUS
<1>. DEFINE c == request.content
            t == Translation
<1>1. /\ ulpc = "content" /\ config' = config /\ request' = request /\ sent' = sent
      /\ \/ /\ ~IsMeasure /\ ulpc' = "commands" /\ eltos' = eltos /\ code' = code
         \/ /\ IsMeasure /\ eltos' = t.eltos
            /\ \/ t.why = "ok" /\ ulpc' = "send" /\ code' = code
               \/ t.why # "ok" /\ code' = 400 /\ ulpc' = "commands"
               \/ t.why # "ok" /\ ulpc' = "crashed" /\ code' = code
  BY DEF Content, IsMeasure, Translation
<1>2. sent = <<>> /\ eltos = <<>> /\ code = 200
  BY <1>1 DEF ULInv, Unsent
<1>3. /\ IsMeasure' = IsMeasure /\ Translation' = Translation
  BY <1>1 DEF IsMeasure, Translation
<1>4. /\ t.why = "ok" => Handed(<<>>, t.eltos, t.eltos)
  BY RequestsTyped, TranslateList DEF Translation
<1>. QED BY <1>1, <1>2, <1>3, <1>4 DEF ULInv, Unsent, Read

LEMMA HandedOn ==
  ASSUME NEW done, NEW rest, NEW all, Handed(done, rest, all), rest # <<>>
  PROVE  Handed(Append(done, Head(rest)), Tail(rest), all)
<1>. DEFINE X == {all[i] : i \in DOMAIN all}
            h == Head(rest)
            r == Tail(rest)
<1>1. done \in Seq(X) /\ rest \in Seq(X) /\ all = done \o rest
  BY DEF Handed
<1>. HIDE DEF X
<1>2. h \in X /\ r \in Seq(X) /\ rest = <<h>> \o r
  BY <1>1, HeadTailProperties
<1>. HIDE DEF h, r
<1>3. Append(done, h) = done \o <<h>> /\ Append(done, h) \in Seq(X) /\ <<h>> \in Seq(X)
  BY <1>1, <1>2, AppendIsConcat, AppendProperties
<1>4. done \o (<<h>> \o r) = (done \o <<h>>) \o r
  BY <1>1, <1>2, <1>3, ConcatAssociative
<1>. QED BY <1>1, <1>2, <1>3, <1>4 DEF Handed, X, h, r

LEMMA SendKeeps == ULInv /\ SendElement => ULInv'
<1>. SUFFICES ASSUME ULInv, SendElement PROVE ULInv'
  OBVIOUS
<1>1. /\ ulpc = "send" /\ config' = config /\ request' = request /\ code' = code
      /\ \/ eltos = <<>> /\ ulpc' = "commands" /\ eltos' = eltos /\ sent' = sent
         \/ /\ eltos # <<>> /\ ulpc' = "send" /\ eltos' = Tail(eltos)
            /\ sent' = Append(sent, Head(eltos))
  BY DEF SendElement
<1>2. Read /\ Handed(sent, eltos, Translation.eltos)
  BY <1>1 DEF ULInv
<1>3. /\ Read' = Read /\ Translation' = Translation
  BY <1>1 DEF IsMeasure, Translation, Read
<1>4. eltos # <<>> => Handed(Append(sent, Head(eltos)), Tail(eltos), Translation.eltos)
  BY <1>2, HandedOn
<1>. QED BY <1>1, <1>2, <1>3, <1>4 DEF ULInv

LEMMA AnswerDeviceKeeps == ULInv /\ AnswerDevice => ULInv'
<1>. SUFFICES ASSUME ULInv, AnswerDevice PROVE ULInv'
  OBVIOUS
<1>1. /\ ulpc = "commands" /\ ulpc' \in {"answered", "answered with commands"}
      /\ config' = config /\ request' = request /\ code' = code /\ sent' = sent /\ eltos' = eltos
  BY DEF AnswerDevice
<1>2. /\ Read' = Read /\ Translation' = Translation /\ IsMeasure' = IsMeasure
  BY <1>1 DEF IsMeasure, Translation, Read
<1>. QED BY <1>1, <1>2 DEF ULInv

LEMMA StepULInv == ULInv /\ [ULNext]_ultralight => ULInv'
<1>1. ULInv /\ UNCHANGED ultralight => ULInv'
  <2>. SUFFICES ASSUME ULInv, UNCHANGED ultralight PROVE ULInv'
    OBVIOUS
  <2>1. /\ config' = config /\ request' = request /\ ulpc' = ulpc /\ eltos' = eltos
        /\ sent' = sent /\ code' = code
    BY DEF ultralight
  <2>2. /\ Unsent' = Unsent /\ Read' = Read /\ Translation' = Translation /\ IsMeasure' = IsMeasure
    BY <2>1 DEF Unsent, Read, IsMeasure, Translation
  <2>3. /\ (ulpc \in {"idle", "content"} => Unsent)'
        /\ (ulpc = "crashed" => sent = <<>>)'
        /\ (ulpc = "send" => Read /\ Handed(sent, eltos, Translation.eltos))'
    BY <2>1, <2>2 DEF ULInv
  <2>4. (ulpc \in {"commands", "answered", "answered with commands"} =>
           \/ sent = <<>> /\ code = 400
           \/ sent = <<>> /\ code = 200 /\ ~IsMeasure
           \/ Read /\ Handed(sent, <<>>, Translation.eltos))'
    BY <2>1, <2>2 DEF ULInv
  <2>5. /\ (config \in Configs)' /\ (request \in Requests \cup {NoRequest})'
        /\ (ulpc \in {"idle", "content", "send", "commands", "answered", "answered with commands",
                       "crashed"})'
    BY <2>1 DEF ULInv
  <2>. QED BY <2>3, <2>4, <2>5 DEF ULInv
<1>. QED BY <1>1, RequestKeeps, ContentKeeps, SendKeeps, AnswerDeviceKeeps DEF ULNext

-----------------------------------------------------------------------------
(* What is sent is then whole, in order and of one entity. *)

SentIs(n) ==
  /\ IsMeasure /\ Translation.why = "ok" /\ Len(sent) = n
  /\ \A i \in 1..n : i \in 1..Len(Translation.eltos) /\ sent[i] = Translation.eltos[i]

LEMMA HandedFirst ==
  ASSUME NEW done, NEW rest, NEW all, Handed(done, rest, all)
  PROVE  /\ Len(done) \in Nat /\ \A i \in 1..Len(done) : i \in 1..Len(all) /\ done[i] = all[i]
         /\ rest = <<>> => done = all
<1>. DEFINE X == {all[i] : i \in DOMAIN all}
<1>1. done \in Seq(X) /\ rest \in Seq(X) /\ all = done \o rest
  BY DEF Handed
<1>. HIDE DEF X
<1>2. /\ Len(done) \in Nat /\ Len(rest) \in Nat /\ Len(all) = Len(done) + Len(rest)
      /\ \A i \in 1..(Len(done) + Len(rest)) :
            all[i] = IF i <= Len(done) THEN done[i] ELSE rest[i - Len(done)]
  BY <1>1, ConcatProperties
<1>3. ASSUME NEW i \in 1..Len(done) PROVE i \in 1..Len(all) /\ done[i] = all[i]
  <2>1. i \in 1..(Len(done) + Len(rest)) /\ i <= Len(done)
    BY <1>2
  <2>. QED BY <1>2, <2>1
<1>4. ASSUME rest = <<>> PROVE done = all
  BY <1>1, <1>4
<1>. QED BY <1>2, <1>3, <1>4

LEMMA SentTold ==
  ASSUME ULInv, sent # <<>>
  PROVE  /\ IsMeasure /\ Translation.why = "ok"
         /\ EltosTold(request.content, config, request.time, Translation.eltos)
         /\ \A i \in 1..Len(sent) :
              i \in 1..Len(Translation.eltos) /\ sent[i] = Translation.eltos[i]
<1>1. /\ IsMeasure /\ Translation.why = "ok"
      /\ \E rest : Handed(sent, rest, Translation.eltos)
  BY DEF ULInv, Unsent, Read
<1>2. EltosTold(request.content, config, request.time, Translation.eltos)
  BY <1>1, RequestsTyped, TranslateTells DEF Translation, ULInv
<1>. QED BY <1>1, <1>2, HandedFirst

LEMMA EltoExpected ==
  ASSUME NEW i, NEW x, NEW c, NEW r, NEW f, f = Fields(r.content, i), c \in Configs, Unchained(c),
         EltoOf(x, c, f[Len(f) - 1], f[Len(f)], MeasureAt(f, r.time))
  PROVE  LET n == Len(x.attributes) IN
         /\ x.attributes[n - 1] = Expected(c, r, i) /\ n - 1 \in 1..n
         /\ Contains(x.attributes, Expected(c, r, i))
<1>. DEFINE name == f[Len(f) - 1]
            n == Len(x.attributes)
            e == Expected(c, r, i)
<1>1. n \in Nat /\ n >= 2 /\ x.attributes[n - 1] = AttributeOf(c, name, f[Len(f)], MeasureAt(f, r.time))
  BY DEF EltoOf
<1>2. Renamed(c, name) = MappedOnce(c, name)
  BY RenamedOnce, ULConfigsAssumption DEF ULConfigsAssumption
<1>3. e = AttributeOf(c, name, f[Len(f)], MeasureAt(f, r.time))
  BY <1>2 DEF Expected, AttributeOf, MeasureAt, MappedOnce
<1>. HIDE DEF n, e
<1>4. n - 1 \in 1..n
  BY <1>1
<1>. QED BY <1>1, <1>3, <1>4 DEF Contains, n, e

LEMMA InvWhole == ULInv => WholeMessageOrNothing
<1>. SUFFICES ASSUME ULInv PROVE WholeMessageOrNothing
  OBVIOUS
<1>. DEFINE all == Translation.eltos
<1>1. ASSUME sent # <<>>, Unchained(config)
      PROVE  /\ WellFormed(request.content)
             /\ \A i \in 1..Len(sent) : Contains(sent[i].attributes, Expected(config, request, i))
  <2>1. /\ EltosTold(request.content, config, request.time, all)
        /\ \A i \in 1..Len(sent) : i \in 1..Len(all) /\ sent[i] = all[i]
    BY <1>1, SentTold
  <2>2. WellFormed(request.content)
    BY <2>1 DEF EltosTold, WellFormed, Pieces, MeasureOK
  <2>3. ASSUME NEW i \in 1..Len(sent)
        PROVE  Contains(sent[i].attributes, Expected(config, request, i))
    <3>. DEFINE f == Fields(request.content, i)
    <3>1. EltoOf(sent[i], config, f[Len(f) - 1], f[Len(f)], MeasureAt(f, request.time))
      BY <2>1 DEF EltosTold
    <3>. HIDE DEF f
    <3>. QED BY <1>1, <3>1, EltoExpected DEF ULInv, f
  <2>. QED BY <2>2, <2>3
<1>2. ASSUME Done, IsMeasure, code = 200
      PROVE  Len(sent) = Cardinality(Pieces(request.content))
  <2>1. ulpc \in {"answered", "answered with commands"}
    BY <1>2 DEF Done
  <2>2. Read /\ Handed(sent, <<>>, all)
    <3>1. ~(code = 400)
      BY <1>2
    <3>. QED BY <1>2, <2>1, <3>1 DEF ULInv
  <2>3. sent = all
    BY <2>2, HandedFirst
  <2>4. EltosTold(request.content, config, request.time, all)
    BY <2>2, RequestsTyped, TranslateTells DEF Read, Translation, ULInv
  <2>. DEFINE n == Len(riot_tokenizer(request.content, "#"))
  <2>5. n \in Nat /\ Len(all) = n
    BY <2>4 DEF EltosTold
  <2>. HIDE DEF n, all
  <2>6. Cardinality(1..n) = n
    <3>1. Cardinality(1..n) = IF 1 > n THEN 0 ELSE n - 1 + 1
      BY <2>5, FS_Interval
    <3>. QED BY <2>5, <3>1
  <2>. QED BY <2>3, <2>5, <2>6 DEF Pieces, n
<1>3. ASSUME Done, code = 400 PROVE sent = <<>>
  <2>1. ~(code = 200)
    BY <1>3
  <2>. QED BY <1>3, <2>1 DEF Done, ULInv, Read
<1>. QED BY <1>1, <1>2, <1>3 DEF WholeMessageOrNothing

LEMMA StaticFrom ==
  ASSUME NEW c \in Configs, NEW a \in StaticNamed(c)
  PROVE  \E x \in Range(c.device_static) \cup Range(c.service_static) : Renamed(c, x.name) = a.name
<1>1. PICK y \in Statics(c) : a = [y EXCEPT !.name = Renamed(c, @)]
  BY DEF StaticNamed
<1>2. StaticsOK(c.device_static) /\ StaticsOK(c.service_static)
  BY ULConfigsAssumption DEF ULConfigsAssumption
<1>3. /\ DOMAIN c.device_static = 1..Len(c.device_static)
      /\ DOMAIN c.service_static = 1..Len(c.service_static)
  BY <1>2 DEF StaticsOK, IsList
<1>4. y \in Range(c.device_static) \cup Range(c.service_static) /\ DOMAIN y = {"name", "value", "time"}
  BY <1>2, <1>3 DEF Statics, StaticsOK, Range
<1>5. a.name = Renamed(c, y.name)
  BY <1>1, <1>4
<1>. QED BY <1>4, <1>5

LEMMA InvOne == ULInv => OneEntity
<1>. SUFFICES ASSUME ULInv, NEW i \in 1..Len(sent)
     PROVE  /\ sent[i].id = get_real_name(config)
            /\ sent[i].type = EntityType(config)
            /\ format(sent[i], config) = sent[i]
            /\ LET s == Range(config.device_static) \cup Range(config.service_static)
                   a == sent[i].attributes
               IN Unchained(config) =>
                    \A j, k \in 1..Len(a) :
                      (j < k /\ a[j].name = a[k].name) =>
                        \/ \E x \in s : Renamed(config, x.name) = a[j].name
                        \/ /\ a[j].name = Expected(config, request, i).name
                           /\ a[k].name = Renamed(config, <<"TimeInstant">>)
  BY DEF OneEntity
<1>. DEFINE f == Fields(request.content, i)
            x == sent[i]
            a == x.attributes
            n == Len(a)
            s == Range(config.device_static) \cup Range(config.service_static)
<1>1. sent # <<>>
  OBVIOUS
<1>2. EltoOf(x, config, f[Len(f) - 1], f[Len(f)], MeasureAt(f, request.time))
  <2>1. /\ EltosTold(request.content, config, request.time, Translation.eltos)
        /\ i \in 1..Len(Translation.eltos) /\ x = Translation.eltos[i]
    BY <1>1, SentTold
  <2>. QED BY <2>1 DEF EltosTold
<1>. HIDE DEF f, x
<1>3. ASSUME Unchained(config), NEW j \in 1..n, NEW k \in 1..n, j < k, a[j].name = a[k].name
      PROVE  \/ \E y \in s : Renamed(config, y.name) = a[j].name
             \/ /\ a[j].name = Expected(config, request, i).name
                /\ a[k].name = Renamed(config, <<"TimeInstant">>)
  <2>1. /\ n \in Nat /\ n >= 2 /\ a[n] = AttributeOf(config, Instant, MeasureAt(f, request.time), <<>>)
        /\ \A m \in 1..(n - 2) : a[m] \in StaticNamed(config)
    BY <1>2 DEF EltoOf
  <2>2. config \in Configs
    BY DEF ULInv
  <2>3. CASE j \in 1..(n - 2)
    BY <2>1, <2>2, <2>3, StaticFrom
  <2>4. CASE j \notin 1..(n - 2)
    <3>1. j = n - 1 /\ k = n
      BY <1>3, <2>1, <2>4
    <3>2. a[n - 1] = Expected(config, request, i)
      BY <1>2, <1>3, <2>2, EltoExpected DEF f
    <3>3. a[n].name = Renamed(config, <<"TimeInstant">>)
      BY <2>1 DEF AttributeOf, Instant
    <3>. QED BY <3>1, <3>2, <3>3
  <2>. QED BY <2>3, <2>4
<1>4. x.id = get_real_name(config) /\ x.type = EntityType(config) /\ format(x, config) = x
  BY <1>2 DEF EltoOf
<1>. QED BY <1>3, <1>4 DEF x

(* A device is told 200 only when each of its measures went to the Context *)
(* Broker, once, in the order of the message, under the name it is mapped  *)
(* to and with its own date; a message it is told 400 for has published    *)
(* nothing; and all that is sent is of one entity, the one its commands    *)
(* have, in which only a measure named like a static attribute or like the *)
(* time of a measure gives a name twice (UL20Service::service, translate,  *)
(* ContextElement::set_env_info and format).                               *)
THEOREM MeasuresAreUpdates == ULSpec => []MessageBecomesUpdate
<1>1. ULInit("idle") => ULInv
  BY InitULInv
<1>2. ULInv /\ [ULNext]_ultralight => ULInv'
  BY StepULInv
<1>3. ULInv => MessageBecomesUpdate
  BY InvWhole, InvOne DEF MessageBecomesUpdate
<1>. QED BY <1>1, <1>2, <1>3, PTL DEF ULSpec
=============================================================================
