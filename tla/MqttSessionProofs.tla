------------------------- MODULE MqttSessionProofs --------------------------
(***************************************************************************)
(* A message crosses the MQTT plugin once at most, and only stop() takes   *)
(* away what runs, for any number of commands, messages and failures.      *)
(* The other protocol that reads devices piece by piece is Modbus: every   *)
(* answer is judged rightly, for all operations, registers and pieces.     *)
(***************************************************************************)
EXTENDS MqttSession, Modbus, FiniteSetTheorems, SequenceTheorems, WellFoundedInduction, TLAPS

-----------------------------------------------------------------------------
(* The inductive invariant. *)

InputPcs == {"start", "opened", "accept", "stopmqtt", "erase", "closed", "ended"}
CommandPcs == {"none", "open", "insert", "reading", "write", "flush", "stopmqtt", "erase",
               "answered"}
MessagePcs == {"none", "reading", "close", "stopmqtt", "erase", "ended"}

Packets == Seq({Connack} \cup Messages)
Buffers == Seq(Messages)
Wrapper == [at : {"none", "new", "mapped", "freed", "gone"}, topic : {"", "#"},
            status : {"connecting", "connected", "disconnected"},
            link : {"none", "up", "broken"}, ack : {"none", "due"}, subscribed : {"yes", "no"},
            wire : Packets, buffer : Buffers]
Thread == [pc : InputPcs \cup CommandPcs \cup MessagePcs, id : Int, ref : Int,
           output : {"some", "none"}]

TypeOK ==
  /\ bound \in Bounds /\ sent \in 0..bound.messages
  /\ wrapper \in [Ids -> Wrapper] /\ nextid \in Nat
  /\ sid \in [Inputs -> Int] /\ keep \subseteq Inputs
  /\ clientid \in [Inputs -> Int] /\ clients \in [Inputs -> SUBSET Int]
  /\ thread \in [Threads -> Thread]
  /\ \A i \in Inputs : thread[i].pc \in InputPcs
  /\ \A c \in Commands : thread[c].pc \in CommandPcs
  /\ \A m \in Messages : thread[m].pc \in MessagePcs
  /\ halted \subseteq Messages
  /\ handed \in [Commands -> Nat] /\ taken \in Seq(Messages)
  /\ stop \in {"no", "servers", "clients", "done"}

(* A command has no output left once it has been published. *)
CommandInv ==
  \A c \in Commands :
    /\ handed[c] = IF thread[c].output = "none" THEN 1 ELSE 0
    /\ thread[c].pc \in {"stopmqtt", "erase", "answered"} => thread[c].output = "none"

(* The m messages of the buffer b and those of n packets on the wire q are *)
(* in order, later than lo (what was taken) and not later than hi (what    *)
(* was sent).                                                              *)
Ordered(b, m, q, n, lo, hi) ==
  /\ \A j \in 1..m : lo < b[j] /\ b[j] <= hi
  /\ \A j \in 1..n : q[j] # 0 => lo < q[j] /\ q[j] <= hi
  /\ \A j, k \in 1..m : j < k => b[j] < b[k]
  /\ \A j, k \in 1..n : j < k /\ q[j] # 0 /\ q[k] # 0 => q[j] < q[k]
  /\ \A j \in 1..m, k \in 1..n : q[k] # 0 => b[j] < q[k]
(* All that waits in a wrapper came by a subscription. *)
Unsubscribed(b, q, subscribed) ==
  subscribed = "no" /\ b = <<>> /\ \A k \in 1..Len(q) : q[k] = 0
InOrder(v, lo, hi) ==
  /\ Ordered(v.buffer, Len(v.buffer), v.wire, Len(v.wire), lo, hi)
  /\ v.topic = "" => Unsubscribed(v.buffer, v.wire, v.subscribed)
LastTaken == IF taken = <<>> THEN 0 ELSE taken[Len(taken)]
MessageInv ==
  /\ TakenInOrder
  /\ LastTaken \in Nat /\ LastTaken <= sent
  /\ \A j \in 1..Len(taken) : taken[j] <= LastTaken
  /\ \A w \in Ids : InOrder(wrapper[w], LastTaken, sent)
  /\ \A m \in Messages : thread[m].pc # "none" => m <= LastTaken

(* The one wrapper with a topic is that of the server thread of mqttrunner, *)
(* as long as that thread runs; what is to be erased has none.             *)
TopicInv ==
  /\ \A w \in Ids : wrapper[w].topic # "" =>
       \/ thread[mqttrunner].pc = "opened" /\ thread[mqttrunner].id = w
       \/ /\ thread[mqttrunner].pc = "accept" /\ sid[mqttrunner] = w
          /\ wrapper[w].at = "mapped"
       \/ /\ thread[mqttrunner].pc = "stopmqtt" /\ thread[mqttrunner].id = w
          /\ wrapper[w].at = "mapped"
  /\ \A t \in Threads :
       /\ thread[t].pc \in {"opened", "insert", "erase"} =>
            thread[t].id \in Ids /\ thread[t].id < nextid
       /\ thread[t].pc = "erase" => wrapper[thread[t].id].topic = ""
  /\ \A w \in Ids : wrapper[w].at # "none" => w < nextid

StopInv ==
  /\ stop \in {"clients", "done"} => \A i \in Inputs : thread[i].pc = "ended"
  /\ stop = "done" => clientRunners = {}
  /\ stop = "no" => keep = Inputs /\ halted = {}

(* The threads that may still make a wrapper: there are ids for all. *)
Pending == {t \in Inputs \cup Commands : thread[t].pc \in {"start", "none", "open"}}
CountInv == nextid + Cardinality(Pending) <= 2 + Cardinality(Commands)

(* The wrappers that only thread t uses or deletes, while nobody stops.    *)
Served == sid[mqttwriter] >= 0
Own(t) ==
  CASE thread[t].pc \in {"opened", "insert", "stopmqtt", "erase"} -> {thread[t].id}
    [] thread[t].pc = "accept" -> {sid[t]}
    [] thread[t].pc \in {"reading", "write"} -> IF Served THEN {} ELSE {thread[t].id}
    [] thread[t].pc = "flush" -> {thread[t].ref} \ {sid[mqttwriter]}
    [] OTHER -> {}
Owners == Inputs \cup Commands
StateOf(t) ==
  CASE thread[t].pc \in {"opened", "insert"} -> "new"
    [] thread[t].pc = "erase" -> "freed"
    [] OTHER -> "mapped"

OwnInv ==
  /\ \A i \in Inputs : /\ thread[i].pc \in {"start", "opened", "accept"}
                       /\ sid[i] >= 0 <=> thread[i].pc = "accept"
  /\ \A t \in Owners : \A w \in Own(t) : w \in Ids /\ w < nextid /\ wrapper[w].at = StateOf(t)
  /\ \A t, u \in Owners : t # u => Own(t) \cap Own(u) = {}
  /\ \A c \in Commands : /\ thread[c].pc = "flush" /\ ~Served => thread[c].ref = thread[c].id
                         /\ thread[c].pc = "flush" => thread[c].ref >= 0
  /\ \A m \in Messages : /\ thread[m].pc \in {"none", "reading", "close", "ended"}
                         /\ thread[m].pc # "none" => sid[mqttrunner] >= 0
  /\ \A k \in clients[mqttrunner] : \E m \in clientRunners : thread[m].id = k

SessionInv ==
  /\ TypeOK /\ CommandInv /\ MessageInv /\ TopicInv /\ StopInv /\ CountInv
  /\ stop = "no" => OwnInv

-----------------------------------------------------------------------------
(* The library's calls: what they do to one wrapper. *)

(* v may become u: in order if v was, and the same wrapper. *)
Orderly(v, u) == \A lo, hi \in Nat : InOrder(v, lo, hi) => InOrder(u, lo, hi)
Later(v, u) == u \in Wrapper /\ u.at = v.at /\ u.topic = v.topic /\ Orderly(v, u)

LEMMA LaterTrans ==
  ASSUME NEW u, NEW v, NEW w, Later(u, v), Later(v, w)
  PROVE  Later(u, w)
BY DEF Later, Orderly

LEMMA LaterSame == ASSUME NEW v \in Wrapper PROVE Later(v, v)
BY DEF Later, Orderly

(* Nothing is left on the wire. *)
LEMMA CutLater ==
  ASSUME NEW v \in Wrapper, NEW u \in Wrapper, u.at = v.at, u.topic = v.topic,
         u.buffer = v.buffer, u.wire = <<>>, u.subscribed = "no"
  PROVE  Later(v, u)
<1>1. ASSUME NEW b, NEW m, NEW q, NEW n, NEW lo \in Nat, NEW hi \in Nat,
             Ordered(b, m, q, n, lo, hi)
      PROVE  Ordered(b, m, <<>>, Len(<<>>), lo, hi)
  BY <1>1 DEF Ordered
<1>2. Unsubscribed(v.buffer, v.wire, v.subscribed) => Unsubscribed(u.buffer, u.wire, u.subscribed)
  BY DEF Unsubscribed
<1>. QED BY <1>1, <1>2 DEF Later, Orderly, InOrder

(* Nothing is read, nor subscribed. *)
LEMMA StatusLater ==
  ASSUME NEW v \in Wrapper, NEW u \in Wrapper, u.at = v.at, u.topic = v.topic,
         u.buffer = v.buffer, u.wire = v.wire, u.subscribed = v.subscribed
  PROVE  Later(v, u)
BY DEF Later, Orderly, InOrder

LEMMA EmptySequences == <<>> \in Packets /\ <<>> \in Buffers
BY DEF Packets, Buffers

LEMMA BrokenLater == ASSUME NEW v \in Wrapper PROVE Later(v, Broken(v))
<1>1. /\ Broken(v) \in Wrapper /\ Broken(v).at = v.at /\ Broken(v).topic = v.topic
      /\ Broken(v).buffer = v.buffer /\ Broken(v).wire = <<>> /\ Broken(v).subscribed = "no"
  BY EmptySequences DEF Broken, Wrapper
<1>. QED BY <1>1, CutLater

LEMMA DisconnectLater == ASSUME NEW v \in Wrapper PROVE Later(v, on_disconnect(v))
<1>. DEFINE u == on_disconnect(v)
<1>1. /\ u \in Wrapper /\ u.at = v.at /\ u.topic = v.topic /\ u.buffer = v.buffer
      /\ u.wire = v.wire /\ u.subscribed = v.subscribed
  BY DEF on_disconnect, Wrapper
<1>. HIDE DEF u
<1>2. Later(v, u)
  BY <1>1, StatusLater
<1>. QED BY <1>2 DEF u

LEMMA SubscribeLater == ASSUME NEW v \in Wrapper PROVE Later(v, doSubscribe(v))
<1>. DEFINE u == [v EXCEPT !.subscribed = "yes"]
<1>1. /\ u \in Wrapper /\ u.at = v.at /\ u.topic = v.topic /\ u.buffer = v.buffer
      /\ u.wire = v.wire
  BY DEF Wrapper
<1>. HIDE DEF u
<1>2. ASSUME v.topic # "", NEW lo \in Nat, NEW hi \in Nat, InOrder(v, lo, hi)
      PROVE  InOrder(u, lo, hi)
  BY <1>1, <1>2 DEF InOrder
<1>3. v.topic # "" => Later(v, u)
  BY <1>1, <1>2 DEF Later, Orderly
<1>. QED BY <1>3, LaterSame DEF doSubscribe, u

(* The order of a buffer b of m messages and a wire q of n packets, when   *)
(* the first packet goes (r) and when it is put at the end of b (c).       *)
Shifted(b, m, q, n, r, c) ==
  /\ \A k \in 1..n : r[k] = q[k + 1]
  /\ \A j \in 1..m : b[j] \in Nat /\ c[j] = b[j]
  /\ \A k \in 1..(n + 1) : q[k] \in Nat
  /\ c[m + 1] = q[1]
LEMMA ShiftOrdered ==
  ASSUME NEW m \in Nat, NEW n \in Nat, NEW b, NEW q, NEW r, NEW c,
         NEW lo \in Nat, NEW hi \in Nat,
         Shifted(b, m, q, n, r, c), Ordered(b, m, q, n + 1, lo, hi)
  PROVE  /\ Ordered(b, m, r, n, lo, hi)
         /\ q[1] # 0 => Ordered(c, m + 1, r, n, lo, hi)
<1>. USE DEF Ordered, Shifted
<1>0. 1 \in 1..(n + 1) /\ \A k \in 1..n : k + 1 \in 1..(n + 1) /\ 1 < k + 1
  OBVIOUS
<1>1. \A j \in 1..n : r[j] # 0 => lo < r[j] /\ r[j] <= hi
  <2>. TAKE j \in 1..n
  <2>1. r[j] = q[j + 1] /\ j + 1 \in 1..(n + 1)
    BY <1>0
  <2>. QED BY <2>1
<1>2. \A j, k \in 1..n : j < k /\ r[j] # 0 /\ r[k] # 0 => r[j] < r[k]
  <2>. TAKE j, k \in 1..n
  <2>1. r[j] = q[j + 1] /\ j + 1 \in 1..(n + 1) /\ r[k] = q[k + 1] /\ k + 1 \in 1..(n + 1)
    BY <1>0
  <2>2. j < k => j + 1 < k + 1
    OBVIOUS
  <2>. QED BY <2>1, <2>2
<1>3. \A j \in 1..m, k \in 1..n : r[k] # 0 => b[j] < r[k]
  <2>. TAKE j \in 1..m, k \in 1..n
  <2>1. r[k] = q[k + 1] /\ k + 1 \in 1..(n + 1)
    BY <1>0
  <2>. QED BY <2>1
<1>4. ASSUME q[1] # 0
      PROVE  Ordered(c, m + 1, r, n, lo, hi)
  <2>0. \A j \in 1..(m + 1) : j = m + 1 \/ j \in 1..m
    OBVIOUS
  <2>1. lo < q[1] /\ q[1] <= hi /\ \A j \in 1..m : b[j] < q[1]
    BY <1>0, <1>4
  <2>2. \A k \in 1..n : r[k] # 0 => q[1] < r[k]
    <3>. TAKE k \in 1..n
    <3>1. r[k] = q[k + 1] /\ k + 1 \in 1..(n + 1) /\ 1 < k + 1
      BY <1>0
    <3>. QED BY <1>0, <1>4, <3>1
  <2>3. \A j \in 1..(m + 1) : lo < c[j] /\ c[j] <= hi
    <3>. TAKE j \in 1..(m + 1)
    <3>. QED BY <2>0, <2>1
  <2>4. \A j, k \in 1..(m + 1) : j < k => c[j] < c[k]
    <3>. TAKE j, k \in 1..(m + 1)
    <3>1. CASE k = m + 1
      BY <2>0, <2>1, <3>1
    <3>2. CASE k \in 1..m
      BY <2>0, <3>2
    <3>. QED BY <2>0, <3>1, <3>2
  <2>5. \A j \in 1..(m + 1), k \in 1..n : r[k] # 0 => c[j] < r[k]
    <3>. TAKE j \in 1..(m + 1), k \in 1..n
    <3>. QED BY <1>3, <2>0, <2>2
  <2>. QED BY <1>1, <1>2, <2>3, <2>4, <2>5
<1>. QED BY <1>1, <1>2, <1>3, <1>4

LEMMA PacketOrdered ==
  ASSUME NEW b \in Seq(Nat), NEW q \in Seq(Nat), q # <<>>,
         NEW lo \in Nat, NEW hi \in Nat, Ordered(b, Len(b), q, Len(q), lo, hi)
  PROVE  LET r == Tail(q)
             c == Append(b, Head(q))
         IN  /\ Ordered(b, Len(b), r, Len(r), lo, hi)
             /\ Head(q) # 0 => Ordered(c, Len(c), r, Len(r), lo, hi)
<1>. DEFINE r == Tail(q)
            c == Append(b, Head(q))
            m == Len(b)
            n == Len(r)
<1>1. /\ Len(q) = n + 1 /\ n \in Nat /\ Head(q) = q[1]
      /\ \A k \in 1..(n + 1) : q[k] \in Nat
      /\ \A k \in 1..n : r[k] = q[k + 1]
  OBVIOUS
<1>2. /\ Len(c) = m + 1 /\ c[m + 1] = q[1] /\ m \in Nat
      /\ \A j \in 1..m : b[j] \in Nat /\ c[j] = b[j]
  BY <1>1
<1>3. Ordered(b, m, q, n + 1, lo, hi)
  BY <1>1
<1>. HIDE DEF r, c, m, n
<1>4. Ordered(b, m, r, n, lo, hi) /\ (q[1] # 0 => Ordered(c, m + 1, r, n, lo, hi))
  <2>1. Shifted(b, m, q, n, r, c)
    BY <1>1, <1>2, Zenon DEF Shifted
  <2>. QED BY <1>1, <1>2, <1>3, <2>1, ShiftOrdered
<1>. QED BY <1>1, <1>2, <1>4 DEF r, c, m, n

(* One packet is read. *)
LEMMA PacketLater ==
  ASSUME NEW v \in Wrapper, v.wire # <<>>
  PROVE  /\ Head(v.wire) = Connack => Later(v, on_connect(v))
         /\ Head(v.wire) # Connack => Later(v, on_message(v))
<1>. DEFINE b == v.buffer
            q == v.wire
<1>0. q \in Packets /\ b \in Buffers
  BY DEF Wrapper
<1>. HIDE DEF b, q
<1>1. /\ b \in Seq(Nat) /\ q \in Seq(Nat) /\ Tail(q) \in Packets
      /\ Head(q) \in {0} \cup Messages /\ Head(q) = q[1] /\ q # <<>>
      /\ \A k \in 1..Len(Tail(q)) : Tail(q)[k] = q[k + 1] /\ k + 1 \in 1..Len(q)
      /\ 1 \in 1..Len(q)
  <2>1. Messages \subseteq Nat
    BY SessionAssumption DEF Messages
  <2>2. q # <<>>
    BY DEF q
  <2>3. q \in Seq({0} \cup Messages) /\ b \in Seq(Messages)
    BY <1>0 DEF Packets, Buffers, Connack
  <2>4. Tail(q) \in Seq({0} \cup Messages) /\ Head(q) \in {0} \cup Messages /\ Head(q) = q[1]
    BY <2>2, <2>3
  <2>5. /\ \A k \in 1..Len(Tail(q)) : Tail(q)[k] = q[k + 1] /\ k + 1 \in 1..Len(q)
        /\ 1 \in 1..Len(q)
    BY <2>2, <2>3
  <2>6. b \in Seq(Nat) /\ q \in Seq(Nat)
    <3>1. {0} \cup Messages \subseteq Nat
      BY <2>1
    <3>. QED BY <2>1, <2>3, <3>1, SeqMonotonic, Zenon
  <2>. QED BY <2>2, <2>4, <2>5, <2>6 DEF Packets, Connack
<1>2. Unsubscribed(b, q, v.subscribed) => Head(q) = 0 /\ Unsubscribed(b, Tail(q), v.subscribed)
  BY <1>1 DEF Unsubscribed
<1>3. CASE Head(q) = 0
  <2>. DEFINE u == on_connect(v)
  <2>1. /\ u \in Wrapper /\ u.at = v.at /\ u.topic = v.topic /\ u.buffer = b
        /\ u.wire = Tail(q) /\ u.subscribed = v.subscribed
    BY <1>1 DEF on_connect, Wrapper, b, q
  <2>. HIDE DEF u
  <2>2. Later(v, u)
    BY <1>1, <1>2, <2>1, PacketOrdered DEF Later, Orderly, InOrder, b, q
  <2>. QED BY <1>3, <2>2 DEF u, Connack, q
<1>4. CASE Head(q) # 0
  <2>. DEFINE u == on_message(v)
  <2>1. Append(b, Head(q)) \in Buffers
    BY <1>0, <1>1, <1>4 DEF Buffers
  <2>2. /\ u \in Wrapper /\ u.at = v.at /\ u.topic = v.topic
        /\ u.buffer = Append(b, Head(q)) /\ u.wire = Tail(q) /\ u.subscribed = v.subscribed
    BY <1>1, <2>1 DEF on_message, Wrapper, b, q
  <2>. HIDE DEF u
  <2>3. Later(v, u)
    BY <1>1, <1>2, <1>4, <2>2, PacketOrdered DEF Later, Orderly, InOrder, b, q
  <2>. QED BY <1>4, <2>3 DEF u, Connack, q
<1>. QED BY <1>3, <1>4

LEMMA LoopLater == ASSUME NEW v \in Wrapper PROVE Later(v, mqttLoop(v))
BY DisconnectLater, LaterSame, PacketLater DEF mqttLoop

LEMMA ConnectLater == ASSUME NEW v \in Wrapper, NEW u \in mqttConnect(v) PROVE Later(v, u)
<1>. DEFINE linked == [v EXCEPT !.link = "up", !.subscribed = "no", !.wire = <<>>]
            a == [linked EXCEPT !.ack = "due"]
            b == on_connect([linked EXCEPT !.wire = <<Connack>>])
<1>1. /\ a \in Wrapper /\ a.at = v.at /\ a.topic = v.topic /\ a.buffer = v.buffer
      /\ a.wire = <<>> /\ a.subscribed = "no"
  BY EmptySequences DEF Wrapper
<1>2. /\ b \in Wrapper /\ b.at = v.at /\ b.topic = v.topic /\ b.buffer = v.buffer
      /\ b.wire = <<>> /\ b.subscribed = "no"
  <2>1. Tail(<<Connack>>) = <<>>
    OBVIOUS
  <2>. QED BY <2>1, EmptySequences DEF Wrapper, on_connect
<1>3. u \in {a, b} \/ u = on_disconnect(v)
  BY DEF mqttConnect
<1>. HIDE DEF a, b
<1>. QED BY <1>1, <1>2, <1>3, CutLater, DisconnectLater

LEMMA HostLater == ASSUME NEW v \in Wrapper, NEW u \in doConnectHost(v) PROVE Later(v, u)
<1>1. Later(v, mqttLoop(v)) /\ mqttLoop(v) \in Wrapper
  BY LoopLater DEF Later
<1>2. \A x \in mqttConnect(v) : Later(v, x) /\ x \in Wrapper
  BY ConnectLater DEF Later
<1>3. \E x \in mqttConnect(v) \cup {mqttLoop(v)} : u = x \/ u = doSubscribe(x)
  BY DEF doConnectHost
<1>. QED BY <1>1, <1>2, <1>3, SubscribeLater, LaterTrans

LEMMA ReadLater == ASSUME NEW v \in Wrapper, NEW u \in readFromChannel(v) PROVE Later(v, u)
<1>1. Later(v, mqttLoop(v)) /\ mqttLoop(v) \in Wrapper
  BY LoopLater DEF Later
<1>2. u = mqttLoop(v) \/ u \in doConnectHost(mqttLoop(v))
  BY DEF readFromChannel
<1>. QED BY <1>1, <1>2, HostLater, LaterTrans

-----------------------------------------------------------------------------
(* A thread that goes on, and what that leaves alone. *)

Pcs == InputPcs \cup CommandPcs \cup MessagePcs
Moved(t, pc, id, ref, output) ==
  /\ thread' \in [Threads -> Thread]
  /\ \A u \in Threads : u # t => thread'[u] = thread[u]
  /\ thread'[t].pc = pc /\ thread'[t].id = id /\ thread'[t].ref = ref
  /\ thread'[t].output = output
(* The pc fits the kind of the thread. *)
Fits(t, pc) ==
  /\ t \in Inputs => pc \in InputPcs
  /\ t \in Commands => pc \in CommandPcs
  /\ t \in Messages => pc \in MessagePcs

LEMMA Kinds ==
  /\ mqttwriter \in Inputs /\ mqttrunner \in Inputs /\ mqttwriter # mqttrunner
  /\ Inputs \cap Commands = {} /\ Inputs \cap Messages = {} /\ Commands \cap Messages = {}
  /\ Inputs \subseteq Threads /\ Commands \subseteq Threads /\ Messages \subseteq Threads
  /\ \A t \in Threads : t \in Inputs \/ t \in Commands \/ t \in Messages
  /\ Inputs = {mqttwriter, mqttrunner} /\ Messages \subseteq Nat \ {0}
BY SessionAssumption DEF Inputs, Messages, Threads

LEMMA ExceptMoved ==
  ASSUME TypeOK, NEW t \in Threads, NEW x \in Thread, thread' = [thread EXCEPT ![t] = x]
  PROVE  Moved(t, x.pc, x.id, x.ref, x.output)
BY DEF TypeOK, Moved

LEMMA GotoMoved ==
  ASSUME TypeOK, NEW t \in Threads, NEW pc \in Pcs, Goto(t, pc)
  PROVE  Moved(t, pc, thread[t].id, thread[t].ref, thread[t].output)
<1>. DEFINE x == [thread[t] EXCEPT !.pc = pc]
<1>1. thread[t] \in Thread
  BY DEF TypeOK
<1>2. /\ x \in Thread /\ x.pc = pc /\ x.id = thread[t].id /\ x.ref = thread[t].ref
      /\ x.output = thread[t].output
  BY <1>1 DEF Thread, Pcs
<1>3. thread' = [thread EXCEPT ![t] = x]
  BY DEF Goto
<1>. HIDE DEF x
<1>. QED BY <1>2, <1>3, ExceptMoved

LEMMA GotoWithMoved ==
  ASSUME TypeOK, NEW t \in Threads, NEW pc \in Pcs, NEW id \in Int, GotoWith(t, pc, id)
  PROVE  Moved(t, pc, id, thread[t].ref, thread[t].output)
<1>. DEFINE x == [thread[t] EXCEPT !.pc = pc, !.id = id]
<1>1. thread[t] \in Thread
  BY DEF TypeOK
<1>2. /\ x \in Thread /\ x.pc = pc /\ x.id = id /\ x.ref = thread[t].ref
      /\ x.output = thread[t].output
  BY <1>1 DEF Thread, Pcs
<1>3. thread' = [thread EXCEPT ![t] = x]
  BY DEF GotoWith
<1>. HIDE DEF x
<1>. QED BY <1>2, <1>3, ExceptMoved

(* The threads keep their kinds of pc. *)
ThreadsOK ==
  /\ thread \in [Threads -> Thread]
  /\ \A i \in Inputs : thread[i].pc \in InputPcs
  /\ \A c \in Commands : thread[c].pc \in CommandPcs
  /\ \A m \in Messages : thread[m].pc \in MessagePcs
LEMMA ThreadsFrame ==
  ASSUME TypeOK, NEW t \in Threads, NEW pc, NEW id, NEW ref, NEW output,
         Moved(t, pc, id, ref, output), Fits(t, pc)
  PROVE  ThreadsOK'
BY Kinds DEF TypeOK, ThreadsOK, Moved, Fits

LEMMA CommandFrame ==
  ASSUME TypeOK, CommandInv, NEW t \in Threads, NEW pc, NEW id, NEW ref,
         Moved(t, pc, id, ref, thread[t].output), handed' = handed,
         t \in Commands /\ pc \in {"stopmqtt", "erase", "answered"} => thread[t].output = "none"
  PROVE  CommandInv'
<1>. SUFFICES ASSUME NEW c \in Commands
              PROVE  /\ handed'[c] = IF thread'[c].output = "none" THEN 1 ELSE 0
                     /\ thread'[c].pc \in {"stopmqtt", "erase", "answered"} =>
                          thread'[c].output = "none"
  BY DEF CommandInv
<1>1. c \in Threads
  BY Kinds
<1>2. CASE c = t
  BY <1>1, <1>2 DEF Moved, CommandInv
<1>3. CASE c # t
  BY <1>1, <1>3 DEF Moved, CommandInv
<1>. QED BY <1>2, <1>3

(* No message is sent or taken, and no runner starts. *)
LEMMA MessageFrame ==
  ASSUME TypeOK, MessageInv, UNCHANGED <<taken, sent>>,
         \A w \in Ids : Orderly(wrapper[w], wrapper'[w]),
         \A m \in Messages : thread'[m].pc # "none" => thread[m].pc # "none"
  PROVE  MessageInv'
<1>1. LastTaken' = LastTaken /\ sent' = sent /\ taken' = taken /\ sent \in Nat
  BY SessionAssumption DEF LastTaken, TypeOK
<1>2. TakenInOrder'
  BY <1>1 DEF MessageInv, TakenInOrder
<1>3. \A w \in Ids : InOrder(wrapper'[w], LastTaken, sent)
  BY <1>1 DEF MessageInv, Orderly
<1>. QED BY <1>1, <1>2, <1>3 DEF MessageInv

LEMMA MovedMessages ==
  ASSUME NEW t \in Threads, NEW pc, NEW id, NEW ref, NEW output,
         Moved(t, pc, id, ref, output), t \in Messages => thread[t].pc # "none"
  PROVE  \A m \in Messages : thread'[m].pc # "none" => thread[m].pc # "none"
BY Kinds DEF Moved

LEMMA LessNext == \A a \in Int, b \in Nat : a < b => a < b + 1 /\ a # b
OBVIOUS

LEMMA LessTrans == \A a \in Int, b, c \in Nat : a < b /\ b <= c => a < c
OBVIOUS

(* The wrappers keep their topics, the server thread of mqttrunner its     *)
(* place, and no thread comes to erase one.                                *)
LEMMA TopicFrame ==
  ASSUME TopicInv, nextid \in Nat, nextid' \in Nat, nextid <= nextid', ThreadsOK, ThreadsOK',
         \A w \in Ids : /\ wrapper'[w].topic = wrapper[w].topic
                        /\ \/ wrapper'[w].at = wrapper[w].at
                           \/ wrapper'[w].at = "mapped" /\ w < nextid,
         thread'[mqttrunner] = thread[mqttrunner], sid'[mqttrunner] = sid[mqttrunner],
         \A t \in Threads : thread'[t].pc \in {"opened", "insert", "erase"} =>
                              thread'[t] = thread[t]
  PROVE  TopicInv'
<1>0. Ids \subseteq Int
  BY DEF Ids
<1>1. \A t \in Threads : thread[t].id \in Int
  BY DEF ThreadsOK, Thread
<1>2. ASSUME NEW t \in Threads, thread'[t].pc \in {"opened", "insert", "erase"}
      PROVE  /\ thread'[t].id \in Ids /\ thread'[t].id < nextid'
             /\ thread'[t].pc = "erase" => wrapper'[thread'[t].id].topic = ""
  <2>. DEFINE w == thread[t].id
  <2>1. thread'[t] = thread[t]
    BY <1>2
  <2>2. w \in Ids /\ w < nextid /\ (thread[t].pc = "erase" => wrapper[w].topic = "")
    BY <1>2, <2>1 DEF TopicInv
  <2>3. w \in Int /\ thread'[t].id = w /\ thread'[t].pc = thread[t].pc
    BY <1>1, <2>1
  <2>. HIDE DEF w
  <2>4. w < nextid'
    BY <2>2, <2>3, LessTrans, Zenon
  <2>5. wrapper'[w].topic = wrapper[w].topic
    BY <2>2
  <2>. QED BY <2>2, <2>3, <2>4, <2>5
<1>3. ASSUME NEW w \in Ids, wrapper'[w].topic # ""
      PROVE  \/ thread'[mqttrunner].pc = "opened" /\ thread'[mqttrunner].id = w
             \/ /\ thread'[mqttrunner].pc = "accept" /\ sid'[mqttrunner] = w
                /\ wrapper'[w].at = "mapped"
             \/ /\ thread'[mqttrunner].pc = "stopmqtt" /\ thread'[mqttrunner].id = w
                /\ wrapper'[w].at = "mapped"
  BY <1>3 DEF TopicInv
<1>4. ASSUME NEW w \in Ids, wrapper'[w].at # "none" PROVE w < nextid'
  <2>1. w < nextid
    BY <1>4 DEF TopicInv
  <2>. QED BY <1>0, <2>1, LessTrans, Zenon
<1>. QED BY <1>2, <1>3, <1>4 DEF TopicInv

(* stop() stands still: who has ended stays so. *)
LEMMA StopFrame ==
  ASSUME TypeOK, StopInv, NEW t \in Threads, NEW pc, NEW id, NEW ref, NEW output,
         Moved(t, pc, id, ref, output), UNCHANGED <<stop, keep, halted>>,
         t \in Inputs => thread[t].pc # "ended",
         t \in Messages => thread[t].pc \notin {"none", "ended"}
  PROVE  StopInv'
<1>1. stop \in {"clients", "done"} => \A i \in Inputs : thread'[i].pc = "ended"
  BY Kinds DEF StopInv, Moved
<1>2. ASSUME stop = "done" PROVE clientRunners' = {}
  <2>1. t \notin Messages
    BY <1>2 DEF StopInv, clientRunners
  <2>2. \A m \in Messages : thread'[m] = thread[m]
    BY <2>1, Kinds DEF Moved
  <2>. QED BY <1>2, <2>2 DEF StopInv, clientRunners
<1>3. stop' = stop /\ keep' = keep /\ halted' = halted
  OBVIOUS
<1>. QED BY <1>1, <1>2, <1>3 DEF StopInv

LEMMA PendingFinite ==
  /\ IsFiniteSet(Pending) /\ Cardinality(Pending) \in Nat /\ Cardinality(Commands) \in Nat
<1>1. IsFiniteSet(Inputs \cup Commands)
  <2>1. Inputs = {mqttwriter} \cup {mqttrunner}
    BY DEF Inputs
  <2>2. IsFiniteSet({mqttwriter})
    BY FS_Singleton
  <2>3. IsFiniteSet(Inputs)
    BY <2>1, <2>2, FS_AddElement
  <2>. QED BY <2>3, SessionAssumption, FS_Union
<1>2. IsFiniteSet(Pending)
  BY <1>1, FS_Subset DEF Pending
<1>. QED BY <1>2, SessionAssumption, FS_CardinalityType

(* One packet more on the wire: no message, or the next one. *)
Longer(q, n, r, x) == (\A k \in 1..n : r[k] = q[k] /\ q[k] \in Nat) /\ r[n + 1] = x
LEMMA LongerOrdered ==
  ASSUME NEW m \in Nat, NEW n \in Nat, NEW b, NEW q, NEW r, NEW x \in Nat,
         NEW lo \in Nat, NEW hi \in Nat, NEW top \in Nat,
         Longer(q, n, r, x), Ordered(b, m, q, n, lo, hi), \A j \in 1..m : b[j] \in Nat,
         hi <= top, x = 0 \/ (lo < x /\ hi < x /\ x <= top)
  PROVE  Ordered(b, m, r, n + 1, lo, top)
<1>. USE DEF Ordered, Longer
<1>0. \A k \in 1..(n + 1) : k = n + 1 \/ k \in 1..n
  OBVIOUS
<1>1. \A j \in 1..m : lo < b[j] /\ b[j] <= top
  OBVIOUS
<1>2. \A j \in 1..(n + 1) : r[j] # 0 => lo < r[j] /\ r[j] <= top
  <2>. TAKE j \in 1..(n + 1)
  <2>. QED BY <1>0
<1>3. \A j, k \in 1..(n + 1) : j < k /\ r[j] # 0 /\ r[k] # 0 => r[j] < r[k]
  <2>. TAKE j, k \in 1..(n + 1)
  <2>1. CASE k = n + 1
    BY <1>0, <2>1
  <2>2. CASE k \in 1..n
    BY <1>0, <2>2
  <2>. QED BY <1>0, <2>1, <2>2
<1>4. \A j \in 1..m, k \in 1..(n + 1) : r[k] # 0 => b[j] < r[k]
  <2>. TAKE j \in 1..m, k \in 1..(n + 1)
  <2>. QED BY <1>0
<1>. QED BY <1>1, <1>2, <1>3, <1>4

(* The first message of the buffer is taken. *)
LEMMA TakenOrdered ==
  ASSUME NEW m \in Nat, NEW n \in Nat, NEW b, NEW c, NEW q, NEW lo \in Nat, NEW hi \in Nat,
         \A k \in 1..m : c[k] = b[k + 1], \A k \in 1..(m + 1) : b[k] \in Nat,
         Ordered(b, m + 1, q, n, lo, hi)
  PROVE  lo < b[1] /\ b[1] <= hi /\ Ordered(c, m, q, n, b[1], hi)
<1>. USE DEF Ordered
<1>0. 1 \in 1..(m + 1) /\ \A k \in 1..m : k + 1 \in 1..(m + 1) /\ 1 < k + 1
  OBVIOUS
<1>1. lo < b[1] /\ b[1] <= hi
  BY <1>0
<1>2. \A j \in 1..m : b[1] < c[j] /\ c[j] <= hi
  <2>. TAKE j \in 1..m
  <2>1. c[j] = b[j + 1] /\ j + 1 \in 1..(m + 1) /\ 1 < j + 1
    BY <1>0
  <2>. QED BY <1>0, <2>1
<1>3. \A k \in 1..n : q[k] # 0 => b[1] < q[k] /\ q[k] <= hi
  BY <1>0
<1>4. \A j, k \in 1..m : j < k => c[j] < c[k]
  <2>. TAKE j, k \in 1..m
  <2>1. /\ c[j] = b[j + 1] /\ j + 1 \in 1..(m + 1) /\ c[k] = b[k + 1] /\ k + 1 \in 1..(m + 1)
        /\ j < k => j + 1 < k + 1
    BY <1>0
  <2>. QED BY <2>1
<1>5. \A j \in 1..m, k \in 1..n : q[k] # 0 => c[j] < q[k]
  <2>. TAKE j \in 1..m, k \in 1..n
  <2>1. c[j] = b[j + 1] /\ j + 1 \in 1..(m + 1)
    BY <1>0
  <2>. QED BY <2>1
<1>. QED BY <1>1, <1>2, <1>3, <1>4, <1>5

LEMMA SequenceTypes ==
  ASSUME NEW v \in Wrapper
  PROVE  /\ v.buffer \in Seq(Nat) /\ v.wire \in Seq(Nat)
         /\ v.buffer \in Seq(Messages) /\ v.wire \in Seq({0} \cup Messages)
<1>1. v.buffer \in Seq(Messages) /\ v.wire \in Seq({0} \cup Messages)
  BY DEF Wrapper, Packets, Buffers, Connack
<1>2. Messages \subseteq Nat /\ {0} \cup Messages \subseteq Nat
  BY SessionAssumption DEF Messages
<1>. QED BY <1>1, <1>2, SeqMonotonic, Zenon

LEMMA LastIndex == \A n \in Nat : \A k \in 1..(n + 1) : k = n + 1 \/ k \in 1..n
OBVIOUS

(* A packet comes from the broker. *)
LEMMA WireGrows ==
  ASSUME NEW b \in Seq(Nat), NEW q \in Seq(Nat), NEW x \in Nat,
         NEW lo \in Nat, NEW hi \in Nat, NEW top \in Nat,
         Ordered(b, Len(b), q, Len(q), lo, hi), hi <= top,
         x = 0 \/ (lo < x /\ hi < x /\ x <= top)
  PROVE  /\ Ordered(b, Len(b), Append(q, x), Len(Append(q, x)), lo, top)
         /\ x = 0 /\ (\A k \in 1..Len(q) : q[k] = 0) =>
              \A k \in 1..Len(Append(q, x)) : Append(q, x)[k] = 0
<1>. DEFINE r == Append(q, x)
            m == Len(b)
            n == Len(q)
<1>1. /\ Len(r) = n + 1 /\ m \in Nat /\ n \in Nat
      /\ \A k \in 1..n : r[k] = q[k] /\ q[k] \in Nat
      /\ r[n + 1] = x /\ \A j \in 1..m : b[j] \in Nat
  OBVIOUS
<1>. HIDE DEF r, m, n
<1>2. Longer(q, n, r, x)
  BY <1>1, Zenon DEF Longer
<1>3. Ordered(b, m, q, n, lo, hi)
  BY DEF m, n
<1>4. Ordered(b, m, r, n + 1, lo, top)
  BY <1>1, <1>2, <1>3, LongerOrdered
<1>5. x = 0 /\ (\A k \in 1..n : q[k] = 0) => \A k \in 1..(n + 1) : r[k] = 0
  BY <1>1, LastIndex
<1>. QED BY <1>1, <1>4, <1>5 DEF r, m, n

LEMMA PacketComes ==
  ASSUME NEW v \in Wrapper, NEW u \in Wrapper, NEW x \in Nat,
         u.buffer = v.buffer, u.wire = Append(v.wire, x), u.topic = v.topic,
         u.subscribed = v.subscribed,
         NEW lo \in Nat, NEW hi \in Nat, NEW top \in Nat, InOrder(v, lo, hi),
         hi <= top, x = 0 \/ (lo < x /\ hi < x /\ x <= top), x # 0 => v.topic # ""
  PROVE  InOrder(u, lo, top)
<1>1. v.buffer \in Seq(Nat) /\ v.wire \in Seq(Nat)
  BY SequenceTypes
<1>3. Ordered(v.buffer, Len(v.buffer), v.wire, Len(v.wire), lo, hi)
  BY DEF InOrder
<1>. DEFINE r == Append(v.wire, x)
<1>4. Ordered(v.buffer, Len(v.buffer), r, Len(r), lo, top)
  BY <1>1, <1>3, WireGrows
<1>5. v.topic = "" => Unsubscribed(v.buffer, r, v.subscribed)
  BY <1>1, <1>3, WireGrows DEF InOrder, Unsubscribed
<1>. HIDE DEF r
<1>6. u.wire = r
  BY DEF r
<1>. QED BY <1>4, <1>5, <1>6 DEF InOrder

-----------------------------------------------------------------------------
(* The steps outside of the plugin. *)

(* The wrappers are the same and keep what waits in them in order. *)
Quiet == wrapper' \in [Ids -> Wrapper] /\ \A w \in Ids : Later(wrapper[w], wrapper'[w])

LEMMA QuietExcept ==
  ASSUME TypeOK, NEW w \in Ids, NEW v, Later(wrapper[w], v), wrapper' = [wrapper EXCEPT ![w] = v]
  PROVE  Quiet
<1>1. v \in Wrapper /\ wrapper \in [Ids -> Wrapper]
  BY DEF TypeOK, Later
<1>2. wrapper' \in [Ids -> Wrapper] /\ wrapper'[w] = v
  BY <1>1
<1>3. \A x \in Ids : x # w => wrapper'[x] = wrapper[x] /\ wrapper[x] \in Wrapper
  BY <1>1
<1>. QED BY <1>2, <1>3, LaterSame DEF Quiet

LEMMA QuietSame == ASSUME TypeOK, UNCHANGED wrapper PROVE Quiet
<1>1. wrapper \in [Ids -> Wrapper]
  BY DEF TypeOK
<1>. QED BY <1>1, LaterSame DEF Quiet

(* The threads of the plugin do nothing. *)
LEMMA AckQuiet ==
  ASSUME TypeOK, NEW w \in Ids, BrokerAcks(w)
  PROVE  Quiet
<1>. DEFINE v == wrapper[w]
            u == [v EXCEPT !.ack = "none", !.wire = Append(@, Connack)]
<1>1. v \in Wrapper
  BY DEF TypeOK
<1>2. Append(v.wire, Connack) \in Packets
  <2>1. v.wire \in Packets
    BY <1>1 DEF Wrapper
  <2>. HIDE DEF v
  <2>. QED BY <2>1 DEF Packets
<1>3. wrapper' = [wrapper EXCEPT ![w] = u]
  BY <1>1 DEF BrokerAcks, Wrapper
<1>. HIDE DEF v
<1>4. /\ u \in Wrapper /\ u.at = v.at /\ u.topic = v.topic /\ u.buffer = v.buffer
      /\ u.wire = Append(v.wire, Connack) /\ u.subscribed = v.subscribed
  BY <1>1, <1>2 DEF Wrapper
<1>. HIDE DEF u
<1>5. ASSUME NEW lo \in Nat, NEW hi \in Nat, InOrder(v, lo, hi) PROVE InOrder(u, lo, hi)
  <2>1. u.wire = Append(v.wire, 0)
    BY <1>4 DEF Connack
  <2>2. 0 \in Nat /\ hi <= hi
    OBVIOUS
  <2>. QED BY <1>1, <1>4, <1>5, <2>1, <2>2, PacketComes, Zenon
<1>. QED BY <1>3, <1>4, <1>5, QuietExcept DEF Later, Orderly, v

Outside == BrokerFails \/ BrokerRestarts \/ \E w \in Ids : LinkBreaks(w) \/ BrokerAcks(w)

LEMMA OutsideQuiet ==
  ASSUME TypeOK, Outside
  PROVE  Quiet /\ UNCHANGED <<bound, sent, inputs, thread, history, stopping>>
<1>1. CASE BrokerFails
  <2>1. wrapper' = [w \in Ids |-> Broken(wrapper[w])] /\ wrapper \in [Ids -> Wrapper]
    BY <1>1 DEF BrokerFails, TypeOK
  <2>2. \A w \in Ids : Later(wrapper[w], wrapper'[w])
    BY <2>1, BrokenLater
  <2>3. \A w \in Ids : wrapper'[w] \in Wrapper
    BY <2>2 DEF Later
  <2>4. wrapper' \in [Ids -> Wrapper]
    BY <2>1, <2>3
  <2>. QED BY <1>1, <2>2, <2>4 DEF Quiet, BrokerFails
<1>2. CASE BrokerRestarts
  BY <1>2, QuietSame DEF BrokerRestarts, broking, inputs, history, stopping
<1>3. ASSUME NEW w \in Ids, LinkBreaks(w)
      PROVE  Quiet /\ UNCHANGED <<bound, sent, inputs, thread, history, stopping>>
  <2>1. wrapper[w] \in Wrapper
    BY DEF TypeOK
  <2>2. Later(wrapper[w], Broken(wrapper[w]))
    BY <2>1, BrokenLater
  <2>3. wrapper' = [wrapper EXCEPT ![w] = Broken(wrapper[w])]
    BY <1>3 DEF LinkBreaks
  <2>4. Quiet
    BY <2>2, <2>3, QuietExcept
  <2>. QED BY <1>3, <2>4 DEF LinkBreaks
<1>4. ASSUME NEW w \in Ids, BrokerAcks(w)
      PROVE  Quiet /\ UNCHANGED <<bound, sent, inputs, thread, history, stopping>>
  BY <1>4, AckQuiet DEF BrokerAcks, broking
<1>. QED BY <1>1, <1>2, <1>3, <1>4 DEF Outside

(* Nothing changes but what waits in the wrappers. *)
LEMMA QuietTopics ==
  ASSUME Quiet
  PROVE  \A w \in Ids : /\ wrapper'[w].topic = wrapper[w].topic
                        /\ wrapper'[w].at = wrapper[w].at
                        /\ Orderly(wrapper[w], wrapper'[w])
BY DEF Quiet, Later

LEMMA OwnSame ==
  ASSUME OwnInv, UNCHANGED <<thread, sid, nextid, clients>>,
         \A w \in Ids : wrapper'[w].at = wrapper[w].at
  PROVE  OwnInv'
<1>1. \A t \in Owners : Own(t)' = Own(t) /\ StateOf(t)' = StateOf(t)
  BY DEF Own, StateOf, Served
<1>2. Served' = Served /\ clientRunners' = clientRunners
  BY DEF Served, clientRunners
<1>. QED BY <1>1, <1>2 DEF OwnInv

LEMMA ThreadsSame ==
  ASSUME SessionInv, Quiet, UNCHANGED <<bound, sent, inputs, thread, history, stopping>>
  PROVE  SessionInv'
<1>1. TypeOK /\ CommandInv /\ MessageInv /\ TopicInv /\ StopInv /\ CountInv
      /\ (stop = "no" => OwnInv)
  BY DEF SessionInv
<1>2. TypeOK'
  BY <1>1 DEF TypeOK, Quiet, inputs, history, stopping
<1>3. CommandInv'
  BY <1>1 DEF CommandInv, history
<1>4. MessageInv'
  BY <1>1, MessageFrame, QuietTopics DEF history
<1>5. TopicInv'
  <2>1. ThreadsOK /\ ThreadsOK' /\ nextid \in Nat /\ nextid' = nextid /\ sid' = sid
    BY <1>1, <1>2 DEF TypeOK, ThreadsOK, inputs
  <2>. QED BY <1>1, <2>1, TopicFrame, QuietTopics
<1>6. StopInv'
  BY <1>1 DEF StopInv, clientRunners, stopping, inputs
<1>7. CountInv'
  BY <1>1 DEF CountInv, Pending, inputs
<1>8. stop' = "no" => OwnInv'
  BY <1>1, OwnSame, QuietTopics DEF inputs, stopping
<1>. QED BY <1>2, <1>3, <1>4, <1>5, <1>6, <1>7, <1>8 DEF SessionInv

(* A device sends: its message is the latest of every wire it gets on. *)
LEMMA SendsOrder ==
  ASSUME TypeOK, DeviceSends
  PROVE  /\ wrapper' \in [Ids -> Wrapper] /\ sent' = sent + 1 /\ sent' \in 0..bound.messages
         /\ \A w \in Ids : /\ wrapper'[w].at = wrapper[w].at
                           /\ wrapper'[w].topic = wrapper[w].topic
                           /\ \A lo \in 0..sent : InOrder(wrapper[w], lo, sent) =>
                                                  InOrder(wrapper'[w], lo, sent')
<1>1. /\ sent' = sent + 1 /\ sent \in Nat /\ sent' \in Messages /\ sent' \in 0..bound.messages
      /\ bound.messages \in 0..MaxMessages
  BY SessionAssumption DEF DeviceSends, TypeOK, Messages
<1>2. ASSUME NEW w \in Ids
      PROVE  /\ wrapper'[w] \in Wrapper /\ wrapper'[w].at = wrapper[w].at
             /\ wrapper'[w].topic = wrapper[w].topic
             /\ \A lo \in 0..sent : InOrder(wrapper[w], lo, sent) =>
                                    InOrder(wrapper'[w], lo, sent')
  <2>. DEFINE v == wrapper[w]
              u == wrapper'[w]
              packet == sent + 1
  <2>1. v \in Wrapper
    BY DEF TypeOK
  <2>2. CASE v.subscribed = "yes"
    <3>1. u = [v EXCEPT !.wire = Append(v.wire, packet)]
      BY <2>2 DEF DeviceSends
    <3>2. Append(v.wire, packet) \in Packets
      <4>1. v.wire \in Packets
        BY <2>1 DEF Wrapper
      <4>. HIDE DEF v
      <4>. QED BY <1>1, <4>1 DEF Packets
    <3>. HIDE DEF u, v
    <3>3. /\ u \in Wrapper /\ u.at = v.at /\ u.topic = v.topic /\ u.buffer = v.buffer
          /\ u.wire = Append(v.wire, packet) /\ u.subscribed = v.subscribed
      BY <2>1, <3>1, <3>2 DEF Wrapper
    <3>4. ASSUME NEW lo \in 0..sent, InOrder(v, lo, sent) PROVE InOrder(u, lo, sent')
      <4>1. v.topic # ""
        BY <2>2, <3>4 DEF InOrder, Unsubscribed
      <4>2. /\ packet \in Nat /\ packet = sent' /\ lo \in Nat /\ lo < packet /\ sent < packet
            /\ packet <= sent' /\ sent <= sent' /\ sent' \in Nat
        BY <1>1
      <4>. QED BY <1>1, <2>1, <3>3, <3>4, <4>1, <4>2, PacketComes, Zenon
    <3>. QED BY <3>3, <3>4 DEF u, v
  <2>3. CASE v.subscribed # "yes"
    <3>1. u = v
      BY <2>3 DEF DeviceSends
    <3>. HIDE DEF u, v
    <3>2. ASSUME NEW lo \in 0..sent, InOrder(v, lo, sent) PROVE InOrder(v, lo, sent')
      <4>1. /\ v.buffer \in Seq(Nat) /\ v.wire \in Seq(Nat)
        BY <2>1, SequenceTypes
      <4>. DEFINE b == v.buffer
                  q == v.wire
      <4>. HIDE DEF b, q
      <4>2. /\ \A j \in 1..Len(b) : b[j] \in Nat
            /\ \A j \in 1..Len(q) : q[j] \in Nat
        BY <4>1 DEF b, q
      <4>3. Ordered(b, Len(b), q, Len(q), lo, sent)
        BY <3>2 DEF InOrder, b, q
      <4>4. Ordered(b, Len(b), q, Len(q), lo, sent')
        BY <1>1, <4>2, <4>3 DEF Ordered
      <4>. QED BY <3>2, <4>4 DEF InOrder, b, q
    <3>. QED BY <2>1, <3>1, <3>2 DEF u, v
  <2>. QED BY <2>2, <2>3
<1>3. wrapper' \in [Ids -> Wrapper]
  BY <1>2 DEF DeviceSends
<1>. QED BY <1>1, <1>2, <1>3

LEMMA SendsInv == ASSUME SessionInv, DeviceSends PROVE SessionInv'
<1>1. TypeOK /\ CommandInv /\ MessageInv /\ TopicInv /\ StopInv /\ CountInv
      /\ (stop = "no" => OwnInv)
  BY DEF SessionInv
<1>2. /\ UNCHANGED <<bound, thread, nextid, sid, keep, clientid, clients, handed, taken, halted,
                     stop, waiting>>
  BY DEF DeviceSends, inputs, history, stopping
<1>3. /\ wrapper' \in [Ids -> Wrapper] /\ sent' = sent + 1 /\ sent' \in 0..bound.messages
      /\ \A w \in Ids : /\ wrapper'[w].at = wrapper[w].at
                        /\ wrapper'[w].topic = wrapper[w].topic
                        /\ \A lo \in 0..sent : InOrder(wrapper[w], lo, sent) =>
                                               InOrder(wrapper'[w], lo, sent')
  BY <1>1, SendsOrder
<1>4. TypeOK'
  BY <1>1, <1>2, <1>3 DEF TypeOK
<1>5. CommandInv'
  BY <1>1, <1>2 DEF CommandInv
<1>6. MessageInv'
  <2>1. /\ LastTaken' = LastTaken /\ LastTaken \in 0..sent /\ sent \in Nat
        /\ \A w \in Ids : InOrder(wrapper[w], LastTaken, sent)
    BY <1>1, <1>2, SessionAssumption DEF LastTaken, MessageInv, TypeOK
  <2>2. \A w \in Ids : InOrder(wrapper'[w], LastTaken, sent')
    BY <1>3, <2>1
  <2>3. LastTaken <= sent'
    BY <1>3, <2>1
  <2>4. TakenInOrder'
    BY <1>1, <1>2 DEF MessageInv, TakenInOrder
  <2>. QED BY <1>1, <1>2, <2>1, <2>2, <2>3, <2>4 DEF MessageInv
<1>7. TopicInv'
  <2>1. ThreadsOK /\ ThreadsOK' /\ nextid \in Nat /\ nextid' = nextid /\ sid' = sid
    BY <1>1, <1>2 DEF TypeOK, ThreadsOK
  <2>. QED BY <1>1, <1>2, <1>3, <2>1, TopicFrame
<1>8. StopInv'
  BY <1>1, <1>2 DEF StopInv, clientRunners
<1>9. CountInv'
  BY <1>1, <1>2 DEF CountInv, Pending
<1>10. stop' = "no" => OwnInv'
  BY <1>1, <1>2, <1>3, OwnSame
<1>. QED BY <1>4, <1>5, <1>6, <1>7, <1>8, <1>9, <1>10 DEF SessionInv

-----------------------------------------------------------------------------
(* A thread makes a wrapper. *)

(* There is nothing in a wrapper. *)
LEMMA EmptyInOrder ==
  ASSUME NEW v, v.buffer = <<>>, v.wire = <<>>, v.subscribed = "no"
  PROVE  \A lo, hi \in Nat : InOrder(v, lo, hi)
<1>1. Len(<<>>) = 0 /\ \A k \in 1..0 : FALSE
  OBVIOUS
<1>2. \A lo, hi \in Nat : Ordered(<<>>, Len(<<>>), <<>>, Len(<<>>), lo, hi)
  BY <1>1, Zenon DEF Ordered
<1>3. Unsubscribed(<<>>, <<>>, "no")
  BY <1>1, Zenon DEF Unsubscribed
<1>. QED BY <1>2, <1>3, Zenon DEF InOrder

LEMMA NewWrapper ==
  ASSUME NEW topic \in {"", "#"}, NEW v \in doConnectHost([NoWrapper EXCEPT !.at = "new",
                                                                            !.topic = topic])
  PROVE  /\ v \in Wrapper /\ v.at = "new" /\ v.topic = topic
         /\ \A lo, hi \in Nat : InOrder(v, lo, hi)
<1>. DEFINE new == [NoWrapper EXCEPT !.at = "new", !.topic = topic]
<1>1. /\ new \in Wrapper /\ new.at = "new" /\ new.topic = topic /\ new.buffer = <<>>
      /\ new.wire = <<>> /\ new.subscribed = "no"
  BY EmptySequences DEF NoWrapper, Wrapper
<1>2. v \in doConnectHost(new)
  OBVIOUS
<1>. HIDE DEF new
<1>3. Later(new, v)
  BY <1>1, <1>2, HostLater
<1>4. \A lo, hi \in Nat : InOrder(new, lo, hi)
  BY <1>1, EmptyInOrder
<1>. QED BY <1>1, <1>3, <1>4 DEF Later, Orderly

(* There is an id for the wrapper of a thread that has none yet. *)
LEMMA IdLeft ==
  ASSUME TypeOK, CountInv, NEW t \in Pending
  PROVE  /\ nextid \in Ids
         /\ Cardinality(Pending \ {t}) = Cardinality(Pending) - 1
<1>1. /\ Cardinality(Pending \ {t}) = Cardinality(Pending) - 1
      /\ IsFiniteSet(Pending \ {t})
  BY PendingFinite, FS_RemoveElement
<1>2. Cardinality(Pending \ {t}) \in Nat
  BY <1>1, FS_CardinalityType
<1>. QED BY <1>1, <1>2, PendingFinite DEF CountInv, Ids, TypeOK

LEMMA InitInv ==
  ASSUME SessionInv, NEW t \in Threads, NEW pc, InitMqtt(t, pc),
         \/ t \in Inputs /\ thread[t].pc = "start" /\ pc = "opened"
         \/ t \in Commands /\ thread[t].pc = "open" /\ pc = "insert"
  PROVE  SessionInv'
<1>1. TypeOK /\ CommandInv /\ MessageInv /\ TopicInv /\ StopInv /\ CountInv
      /\ (stop = "no" => OwnInv)
  BY DEF SessionInv
<1>2. /\ nextid' = nextid + 1 /\ nextid \in Nat
      /\ UNCHANGED <<bound, sent, sid, keep, clientid, clients, handed, taken, halted, stop>>
  BY <1>1 DEF InitMqtt, TypeOK, broking, history, stopping
<1>3. t \in Pending /\ pc \in Pcs /\ t \notin Messages
  BY Kinds DEF Pending, Pcs, InputPcs, CommandPcs
<1>4. nextid \in Ids /\ Cardinality(Pending \ {t}) = Cardinality(Pending) - 1
  BY <1>1, <1>3, IdLeft
<1>5. Moved(t, pc, nextid, thread[t].ref, thread[t].output)
  <2>1. GotoWith(t, pc, nextid)
    BY DEF InitMqtt
  <2>. QED BY <1>1, <1>2, <1>3, <2>1, GotoWithMoved
<1>6. PICK v : /\ wrapper' = [wrapper EXCEPT ![nextid] = v]
               /\ v \in Wrapper /\ v.at = "new"
               /\ v.topic = (IF t \in Inputs /\ t = mqttrunner THEN "#" ELSE "")
               /\ \A lo, hi \in Nat : InOrder(v, lo, hi)
  <2>. DEFINE topic == IF InputOf(t) = mqttrunner THEN "#" ELSE ""
  <2>1. \E v \in doConnectHost([NoWrapper EXCEPT !.at = "new", !.topic = topic]) :
          wrapper' = [wrapper EXCEPT ![nextid] = v]
    BY DEF InitMqtt
  <2>2. topic = IF t \in Inputs /\ t = mqttrunner THEN "#" ELSE ""
    BY Kinds DEF InputOf
  <2>3. topic \in {"", "#"}
    OBVIOUS
  <2>. HIDE DEF topic
  <2>. QED BY <2>1, <2>2, <2>3, NewWrapper
<1>7. /\ wrapper \in [Ids -> Wrapper] /\ wrapper' \in [Ids -> Wrapper] /\ wrapper'[nextid] = v
      /\ \A w \in Ids : w # nextid => wrapper'[w] = wrapper[w]
  BY <1>1, <1>4, <1>6 DEF TypeOK
<1>8. ThreadsOK'
  BY <1>1, <1>5, ThreadsFrame, Kinds DEF Fits, InputPcs, CommandPcs
<1>9. TypeOK'
  BY <1>1, <1>2, <1>7, <1>8 DEF TypeOK, ThreadsOK
<1>10. CommandInv'
  BY <1>1, <1>2, <1>5, CommandFrame
<1>11. MessageInv'
  <2>1. \A w \in Ids : Orderly(wrapper[w], wrapper'[w])
    BY <1>6, <1>7 DEF Orderly
  <2>. QED BY <1>1, <1>2, <1>3, <1>5, <2>1, MessageFrame, MovedMessages
<1>12. TopicInv'
  <2>1. \A u \in Threads : u # t => thread'[u] = thread[u] /\ thread[u].id \in Int
    BY <1>1, <1>5 DEF Moved, TypeOK, Thread
  <2>2. ASSUME NEW w \in Ids, wrapper'[w].topic # ""
        PROVE  \/ thread'[mqttrunner].pc = "opened" /\ thread'[mqttrunner].id = w
               \/ /\ thread'[mqttrunner].pc = "accept" /\ sid'[mqttrunner] = w
                  /\ wrapper'[w].at = "mapped"
               \/ /\ thread'[mqttrunner].pc = "stopmqtt" /\ thread'[mqttrunner].id = w
                  /\ wrapper'[w].at = "mapped"
    <3>1. CASE t = mqttrunner
      <4>1. \A x \in Ids : wrapper[x].topic = ""
        BY <1>1, <3>1, Kinds DEF TopicInv
      <4>2. w = nextid
        BY <1>7, <2>2, <4>1
      <4>. QED BY <1>5, <3>1, <4>2, Kinds DEF Moved
    <3>2. CASE t # mqttrunner
      <4>1. w # nextid
        BY <1>6, <1>7, <2>2, <3>2
      <4>2. thread'[mqttrunner] = thread[mqttrunner] /\ wrapper'[w] = wrapper[w]
        BY <1>7, <2>1, <3>2, <4>1, Kinds
      <4>. QED BY <1>1, <1>2, <2>2, <4>2 DEF TopicInv
    <3>. QED BY <3>1, <3>2
  <2>3. ASSUME NEW u \in Threads, thread'[u].pc \in {"opened", "insert", "erase"}
        PROVE  /\ thread'[u].id \in Ids /\ thread'[u].id < nextid'
               /\ thread'[u].pc = "erase" => wrapper'[thread'[u].id].topic = ""
    <3>1. CASE u = t
      <4>1. thread'[u].id = nextid /\ thread'[u].pc # "erase"
        BY <1>5, <3>1 DEF Moved
      <4>2. nextid < nextid'
        BY <1>2
      <4>. QED BY <1>4, <4>1, <4>2
    <3>2. CASE u # t
      <4>1. /\ thread'[u] = thread[u] /\ thread[u].id \in Int
            /\ thread[u].id \in Ids /\ thread[u].id < nextid
            /\ thread[u].pc = "erase" => wrapper[thread[u].id].topic = ""
        BY <1>1, <2>1, <2>3, <3>2 DEF TopicInv
      <4>2. thread[u].id < nextid + 1 /\ thread[u].id # nextid
        BY <1>2, <4>1, LessNext, Zenon
      <4>. QED BY <1>2, <1>7, <4>1, <4>2
    <3>. QED BY <3>1, <3>2
  <2>4. ASSUME NEW w \in Ids, wrapper'[w].at # "none" PROVE w < nextid'
    <3>1. w \in Int
      BY DEF Ids
    <3>2. w = nextid \/ w < nextid
      BY <1>1, <1>7, <2>4 DEF TopicInv
    <3>. QED BY <1>2, <3>1, <3>2
  <2>. QED BY <2>2, <2>3, <2>4 DEF TopicInv
<1>13. StopInv'
  BY <1>1, <1>2, <1>3, <1>5, StopFrame
<1>14. CountInv'
  <2>1. Pending' = Pending \ {t}
    BY <1>5, Kinds DEF Pending, Moved
  <2>. QED BY <1>1, <1>2, <1>4, <2>1, PendingFinite DEF CountInv
<1>15. ASSUME stop' = "no" PROVE OwnInv'
  <2>1. OwnInv /\ sid' = sid /\ clients' = clients
    BY <1>1, <1>2, <1>15
  <2>2. /\ \A u \in Owners : u # t => Own(u)' = Own(u) /\ StateOf(u)' = StateOf(u)
        /\ Own(t)' = {nextid} /\ StateOf(t)' = "new"
    <3>1. \A u \in Owners : u # t => thread'[u] = thread[u]
      BY <1>5, Kinds DEF Moved, Owners
    <3>. QED BY <1>5, <2>1, <3>1 DEF Own, StateOf, Served, Moved
  <2>3. \A u \in Owners : \A w \in Own(u) : w \in Int /\ w # nextid /\ w < nextid + 1
    BY <1>2, <2>1 DEF OwnInv, Ids
  <2>4. \A u \in Owners : \A w \in Own(u)' :
          w \in Ids /\ w < nextid' /\ wrapper'[w].at = StateOf(u)'
    <3>. TAKE u \in Owners
    <3>1. CASE u = t
      <4>1. nextid < nextid'
        BY <1>2
      <4>. QED BY <1>4, <1>6, <1>7, <2>2, <3>1, <4>1, Zenon
    <3>2. CASE u # t
      BY <1>2, <1>7, <2>1, <2>2, <2>3, <3>2 DEF OwnInv
    <3>. QED BY <3>1, <3>2
  <2>5. \A u, x \in Owners : u # x => Own(u)' \cap Own(x)' = {}
    BY <2>1, <2>2, <2>3 DEF OwnInv
  <2>6. \A m \in Messages : thread'[m] = thread[m]
    BY <1>3, <1>5, Kinds DEF Moved
  <2>7. \A i \in Inputs : /\ thread'[i].pc \in {"start", "opened", "accept"}
                          /\ sid'[i] >= 0 <=> thread'[i].pc = "accept"
    BY <1>5, <2>1, Kinds DEF OwnInv, Moved
  <2>8. \A c \in Commands : /\ thread'[c].pc = "flush" /\ ~Served' => thread'[c].ref = thread'[c].id
                            /\ thread'[c].pc = "flush" => thread'[c].ref >= 0
    BY <1>5, <2>1, Kinds DEF OwnInv, Moved, Served
  <2>9. clientRunners' = clientRunners
    BY <2>6 DEF clientRunners
  <2>10. \A k \in clients'[mqttrunner] : \E m \in clientRunners' : thread'[m].id = k
    BY <2>1, <2>6, <2>9 DEF OwnInv, clientRunners
  <2>. QED BY <2>1, <2>4, <2>5, <2>6, <2>7, <2>8, <2>10 DEF OwnInv
<1>. QED BY <1>9, <1>10, <1>11, <1>12, <1>13, <1>14, <1>15 DEF SessionInv

-----------------------------------------------------------------------------
(* A thread goes on: the parts of the invariant that its step can disturb. *)

LEMMA Parts ==
  ASSUME SessionInv
  PROVE  /\ TypeOK /\ CommandInv /\ MessageInv /\ TopicInv /\ StopInv /\ CountInv /\ ThreadsOK
         /\ stop = "no" => OwnInv
BY DEF SessionInv, TypeOK, ThreadsOK

(* No thread comes to the list of those that will make a wrapper. *)
LEMMA CountFrame ==
  ASSUME TypeOK, CountInv, NEW t \in Threads, NEW pc, NEW id, NEW ref, NEW output,
         Moved(t, pc, id, ref, output), nextid' = nextid,
         t \in Owners => pc \notin {"start", "none", "open"} \/ t \in Pending
  PROVE  CountInv'
<1>1. \A u \in Inputs \cup Commands : u # t => thread'[u] = thread[u]
  BY Kinds DEF Moved
<1>2. Pending' \subseteq Pending
  BY <1>1 DEF Pending, Owners, Moved
<1>3. IsFiniteSet(Pending') /\ Cardinality(Pending') <= Cardinality(Pending)
  BY <1>2, PendingFinite, FS_Subset
<1>4. Cardinality(Pending') \in Nat
  BY <1>3, FS_CardinalityType
<1>. QED BY <1>3, <1>4, PendingFinite DEF CountInv, TypeOK

(* A step of thread t that takes no message. *)
Plain(t, pc) ==
  /\ Fits(t, pc)
  /\ t \in Owners => pc \notin {"start", "none", "open"} \/ t \in Pending
  /\ t \in Inputs => thread[t].pc # "ended"
  /\ t \in Messages => thread[t].pc \notin {"none", "ended"}
  /\ wrapper' \in [Ids -> Wrapper] /\ \A w \in Ids : Orderly(wrapper[w], wrapper'[w])
  /\ sid' \in [Inputs -> Int] /\ clientid' \in [Inputs -> Int]
  /\ clients' \in [Inputs -> SUBSET Int]
  /\ handed' \in [Commands -> Nat]
  /\ UNCHANGED <<bound, sent, nextid, keep, taken, halted, stop>>

LEMMA PlainInv ==
  ASSUME SessionInv, NEW t \in Threads, NEW pc, NEW id, NEW ref, NEW output,
         Moved(t, pc, id, ref, output), Plain(t, pc),
         CommandInv', TopicInv', stop = "no" => OwnInv'
  PROVE  SessionInv'
<1>1. ThreadsOK'
  BY Parts, ThreadsFrame DEF Plain
<1>2. TypeOK'
  BY <1>1, Parts DEF TypeOK, ThreadsOK, Plain
<1>4. MessageInv'
  <2>1. \A m \in Messages : thread'[m].pc # "none" => thread[m].pc # "none"
    BY MovedMessages DEF Plain
  <2>. QED BY <2>1, Parts, MessageFrame DEF Plain
<1>5. StopInv'
  BY Parts, StopFrame DEF Plain
<1>6. CountInv'
  BY Parts, CountFrame DEF Plain
<1>. QED BY <1>2, <1>4, <1>5, <1>6 DEF SessionInv, Plain

(* The wrappers keep their topics or lose them. *)
LEMMA TopicMoved ==
  ASSUME TypeOK, TopicInv, NEW t \in Threads, NEW pc, NEW id, NEW ref, NEW output,
         Moved(t, pc, id, ref, output), nextid' = nextid,
         \A w \in Ids : /\ wrapper[w].topic = "" => wrapper'[w].topic = ""
                        /\ wrapper'[w].at # "none" => w < nextid,
         pc \in {"opened", "insert", "erase"} => id \in Ids /\ id < nextid,
         pc = "erase" => wrapper'[id].topic = "",
         \A w \in Ids : wrapper'[w].topic # "" =>
           \/ thread'[mqttrunner].pc = "opened" /\ thread'[mqttrunner].id = w
           \/ /\ thread'[mqttrunner].pc = "accept" /\ sid'[mqttrunner] = w
              /\ wrapper'[w].at = "mapped"
           \/ /\ thread'[mqttrunner].pc = "stopmqtt" /\ thread'[mqttrunner].id = w
              /\ wrapper'[w].at = "mapped"
  PROVE  TopicInv'
<1>1. ASSUME NEW u \in Threads, thread'[u].pc \in {"opened", "insert", "erase"}
      PROVE  /\ thread'[u].id \in Ids /\ thread'[u].id < nextid'
             /\ thread'[u].pc = "erase" => wrapper'[thread'[u].id].topic = ""
  <2>1. CASE u = t
    BY <1>1, <2>1 DEF Moved
  <2>2. CASE u # t
    <3>1. thread'[u] = thread[u]
      BY <2>2 DEF Moved
    <3>2. /\ thread[u].id \in Ids /\ thread[u].id < nextid
          /\ thread[u].pc = "erase" => wrapper[thread[u].id].topic = ""
      BY <1>1, <3>1 DEF TopicInv
    <3>. QED BY <3>1, <3>2
  <2>. QED BY <2>1, <2>2
<1>. QED BY <1>1 DEF TopicInv

(* What a step of one command has to do with its own wrapper, while nobody *)
(* stops: it may give it up, and leaves the others alone.                  *)
LEMMA OwnMoved ==
  ASSUME OwnInv, NEW c \in Commands, NEW pc, NEW id, NEW ref, NEW output,
         Moved(c, pc, id, ref, output), UNCHANGED <<sid, nextid>>,
         clients'[mqttrunner] = clients[mqttrunner],
         \A w \in Ids : w \notin Own(c) => wrapper'[w].at = wrapper[w].at,
         Own(c)' \subseteq Own(c), \A w \in Own(c)' : wrapper'[w].at = StateOf(c)',
         pc = "flush" => ref >= 0 /\ (~Served => ref = id)
  PROVE  OwnInv'
<1>1. \A u \in Threads : u # c => thread'[u] = thread[u]
  BY DEF Moved
<1>2. \A u \in Owners : u # c => Own(u)' = Own(u) /\ StateOf(u)' = StateOf(u)
  BY <1>1, Kinds DEF Owners, Own, StateOf, Served
<1>3. \A u \in Owners : \A w \in Own(u)' :
        w \in Ids /\ w < nextid' /\ wrapper'[w].at = StateOf(u)'
  <2>. TAKE u \in Owners
  <2>1. CASE u = c
    BY <2>1 DEF OwnInv
  <2>2. CASE u # c
    <3>1. c \in Owners
      BY DEF Owners
    <3>2. \A w \in Own(u) : w \notin Own(c)
      BY <2>2, <3>1 DEF OwnInv
    <3>. QED BY <1>2, <2>2, <3>2 DEF OwnInv
  <2>. QED BY <2>1, <2>2
<1>4. \A u, x \in Owners : u # x => Own(u)' \cap Own(x)' = {}
  BY <1>2 DEF OwnInv
<1>5. \A i \in Inputs : thread'[i] = thread[i]
  BY <1>1, Kinds
<1>6. \A m \in Messages : thread'[m] = thread[m]
  BY <1>1, Kinds
<1>7. clientRunners' = clientRunners
  BY <1>6 DEF clientRunners
<1>8. \A k \in clients'[mqttrunner] : \E m \in clientRunners' : thread'[m].id = k
  BY <1>6, <1>7 DEF OwnInv, clientRunners
<1>9. ASSUME NEW d \in Commands
      PROVE  /\ thread'[d].pc = "flush" /\ ~Served' => thread'[d].ref = thread'[d].id
             /\ thread'[d].pc = "flush" => thread'[d].ref >= 0
  <2>1. Served' = Served
    BY DEF Served
  <2>2. CASE d = c
    BY <2>1, <2>2 DEF Moved
  <2>3. CASE d # c
    BY <1>1, <2>1, <2>3, Kinds DEF OwnInv
  <2>. QED BY <2>2, <2>3
<1>. QED BY <1>3, <1>4, <1>5, <1>6, <1>8, <1>9 DEF OwnInv

(* A runner of a message starts or goes on: it stays in the table with its *)
(* client.                                                                 *)
LEMMA RunnerMoved ==
  ASSUME OwnInv, NEW m \in Messages, NEW pc, NEW id, NEW ref, NEW output,
         Moved(m, pc, id, ref, output), UNCHANGED <<sid, nextid>>,
         pc \in {"reading", "close", "ended"}, sid[mqttrunner] >= 0,
         \A w \in Ids : wrapper'[w].at = wrapper[w].at,
         \A k \in clients'[mqttrunner] : \/ k = id /\ pc # "ended"
                                         \/ /\ k \in clients[mqttrunner]
                                            /\ thread[m].pc = "none" \/ k # thread[m].id
  PROVE  OwnInv'
<1>1. \A u \in Threads : u # m => thread'[u] = thread[u]
  BY DEF Moved
<1>2. \A u \in Owners : thread'[u] = thread[u]
  BY <1>1, Kinds DEF Owners
<1>3. \A u \in Owners : Own(u)' = Own(u) /\ StateOf(u)' = StateOf(u)
  BY <1>2 DEF Own, StateOf, Served
<1>4. Served' = Served
  BY DEF Served
<1>5. \A n \in Messages : n # m => thread'[n] = thread[n]
  BY <1>1, Kinds
<1>6. \A n \in Messages : /\ thread'[n].pc \in {"none", "reading", "close", "ended"}
                          /\ thread'[n].pc # "none" => sid'[mqttrunner] >= 0
  BY <1>5 DEF OwnInv, Moved
<1>7. ASSUME NEW k \in clients'[mqttrunner]
      PROVE  \E n \in clientRunners' : thread'[n].id = k
  <2>1. CASE k = id /\ pc # "ended"
    <3>1. m \in clientRunners' /\ thread'[m].id = k
      BY <2>1 DEF clientRunners, Moved
    <3>. QED BY <3>1
  <2>2. CASE k \in clients[mqttrunner] /\ (thread[m].pc = "none" \/ k # thread[m].id)
    <3>1. PICK n \in clientRunners : thread[n].id = k
      BY <2>2 DEF OwnInv
    <3>2. n # m /\ n \in Messages
      BY <2>2, <3>1 DEF clientRunners
    <3>3. n \in clientRunners' /\ thread'[n].id = k
      BY <1>5, <3>1, <3>2 DEF clientRunners
    <3>. QED BY <3>3
  <2>. QED BY <2>1, <2>2
<1>8. /\ \A i \in Inputs : thread'[i] = thread[i]
      /\ \A c \in Commands : thread'[c] = thread[c]
  BY <1>2 DEF Owners
<1>9. \A u \in Owners : \A w \in Own(u)' :
        w \in Ids /\ w < nextid' /\ wrapper'[w].at = StateOf(u)'
  BY <1>3 DEF OwnInv
<1>10. \A u, x \in Owners : u # x => Own(u)' \cap Own(x)' = {}
  BY <1>3 DEF OwnInv
<1>. QED BY <1>4, <1>6, <1>7, <1>8, <1>9, <1>10 DEF OwnInv

(* A thread other than the server thread of mqttrunner goes on, and the    *)
(* wrappers stay what they are.                                            *)
LEMMA TopicQuiet ==
  ASSUME TypeOK, TopicInv, NEW t \in Threads, NEW pc, NEW id, NEW ref, NEW output,
         Moved(t, pc, id, ref, output), Fits(t, pc), t # mqttrunner,
         pc \notin {"opened", "insert", "erase"}, Quiet,
         nextid' = nextid, sid'[mqttrunner] = sid[mqttrunner]
  PROVE  TopicInv'
<1>1. ThreadsOK /\ ThreadsOK' /\ nextid \in Nat /\ nextid <= nextid' /\ nextid' \in Nat
  BY ThreadsFrame DEF TypeOK, ThreadsOK
<1>2. thread'[mqttrunner] = thread[mqttrunner]
  BY Kinds DEF Moved
<1>3. \A u \in Threads : thread'[u].pc \in {"opened", "insert", "erase"} => thread'[u] = thread[u]
  BY DEF Moved
<1>. QED BY <1>1, <1>2, <1>3, TopicFrame, QuietTopics

-----------------------------------------------------------------------------
(* The HTTP thread of a command. *)

LEMMA CommandStep ==
  ASSUME SessionInv, NEW c \in Commands, NEW pc, NEW id, NEW ref, NEW output,
         Moved(c, pc, id, ref, output), Quiet, CommandInv', handed' \in [Commands -> Nat],
         pc \in CommandPcs \ {"none", "insert", "erase"}, pc = "open" => c \in Pending,
         UNCHANGED <<bound, sent, nextid, sid, keep, taken, halted, stop>>,
         clientid' \in [Inputs -> Int], clients' \in [Inputs -> SUBSET Int],
         clients'[mqttrunner] = clients[mqttrunner],
         stop = "no" => /\ Own(c)' \subseteq Own(c)
                        /\ \A w \in Own(c)' : StateOf(c)' = StateOf(c)
                        /\ pc = "flush" => ref >= 0 /\ (~Served => ref = id)
  PROVE  SessionInv'
<1>1. c \in Threads /\ c \in Owners /\ c \notin Inputs /\ c \notin Messages /\ c # mqttrunner
  BY Kinds DEF Owners
<1>2. Fits(c, pc)
  BY <1>1 DEF Fits
<1>3. Plain(c, pc)
  <2>1. pc \notin {"start", "none", "open"} \/ c \in Pending
    BY DEF CommandPcs
  <2>2. wrapper' \in [Ids -> Wrapper] /\ \A w \in Ids : Orderly(wrapper[w], wrapper'[w])
    BY QuietTopics DEF Quiet
  <2>3. sid' \in [Inputs -> Int]
    BY Parts DEF TypeOK
  <2>. QED BY <1>1, <1>2, <2>1, <2>2, <2>3 DEF Plain
<1>4. TopicInv'
  <2>1. pc \notin {"opened", "insert", "erase"} /\ sid'[mqttrunner] = sid[mqttrunner]
    BY DEF CommandPcs
  <2>. QED BY <1>1, <1>2, <2>1, Parts, TopicQuiet
<1>5. ASSUME stop = "no" PROVE OwnInv'
  <2>1. OwnInv
    BY <1>5, Parts
  <2>2. \A w \in Own(c)' : wrapper'[w].at = StateOf(c)'
    BY <1>1, <1>5, <2>1, QuietTopics DEF OwnInv
  <2>3. \A w \in Ids : wrapper'[w].at = wrapper[w].at
    BY QuietTopics
  <2>. QED BY <1>5, <2>1, <2>2, <2>3, OwnMoved
<1>. QED BY <1>1, <1>3, <1>4, <1>5, PlainInv

LEMMA CommandTypes ==
  ASSUME TypeOK, NEW c \in Commands
  PROVE  /\ c \in Threads /\ thread[c] \in Thread /\ thread[c].id \in Int
         /\ thread[c].ref \in Int /\ thread[c].output \in {"some", "none"}
         /\ sid[mqttwriter] \in Int /\ InputOf(c) = mqttwriter
         /\ clientid \in [Inputs -> Int] /\ clients \in [Inputs -> SUBSET Int]
         /\ handed \in [Commands -> Nat] /\ CommandPcs \subseteq Pcs
BY Kinds DEF TypeOK, Thread, InputOf, Pcs

LEMMA ExecuteInv == ASSUME SessionInv, NEW c \in Commands, ExecuteCommand(c) PROVE SessionInv'
<1>. DEFINE pc == IF sid[mqttwriter] < 0 THEN "open" ELSE "reading"
<1>1. /\ TypeOK /\ c \in Threads /\ thread[c].pc = "none" /\ pc \in CommandPcs /\ pc \in Pcs
  BY Parts, CommandTypes DEF ExecuteCommand, At, CommandPcs, Pcs
<1>2. /\ UNCHANGED <<bound, sent, nextid, sid, keep, clientid, clients, handed, taken, halted, stop>>
      /\ UNCHANGED wrapper
  BY DEF ExecuteCommand, broking, inputs, history, stopping
<1>3. Moved(c, pc, sid[mqttwriter], thread[c].ref, thread[c].output)
  BY <1>1, GotoWithMoved, CommandTypes DEF ExecuteCommand
<1>4. CommandInv'
  BY <1>1, <1>2, <1>3, Parts, CommandFrame
<1>5. Own(c)' = {}
  BY <1>1, <1>2, <1>3, CommandTypes DEF Own, Moved, Served
<1>6. c \in Pending
  BY <1>1 DEF Pending
<1>. QED BY <1>1, <1>2, <1>3, <1>4, <1>5, <1>6, QuietSame, CommandTypes, CommandStep

(* A thread without a server reads a wrapper that is in the map. *)
LEMMA ReadQuiet ==
  ASSUME TypeOK, NEW t \in Threads, ReadWrapper(t)
  PROVE  Quiet
<1>. DEFINE w == thread[t].id
<1>1. CASE Found(w)
  <2>1. w \in Ids /\ wrapper[w] \in Wrapper
    BY <1>1 DEF Found, TypeOK
  <2>2. PICK v \in readFromChannel(wrapper[w]) : wrapper' = [wrapper EXCEPT ![w] = v]
    BY <1>1 DEF ReadWrapper
  <2>3. Later(wrapper[w], v)
    BY <2>1, <2>2, ReadLater
  <2>. HIDE DEF w
  <2>. QED BY <2>1, <2>2, <2>3, QuietExcept
<1>2. CASE ~Found(w)
  BY <1>2, QuietSame DEF ReadWrapper
<1>. QED BY <1>1, <1>2

LEMMA ReadNothingInv == ASSUME SessionInv, NEW c \in Commands, ReadNothing(c) PROVE SessionInv'
<1>1. /\ TypeOK /\ c \in Threads /\ thread[c].pc = "reading"
      /\ "write" \in CommandPcs \ {"none", "open", "insert", "erase"} /\ "write" \in Pcs
  BY Parts, CommandTypes DEF ReadNothing, At, CommandPcs, Pcs
<1>2. UNCHANGED <<bound, sent, nextid, sid, keep, clientid, clients, handed, taken, halted, stop>>
  BY DEF ReadNothing, broking, inputs, history, stopping
<1>3. Moved(c, "write", thread[c].id, thread[c].ref, thread[c].output)
  BY <1>1, GotoMoved DEF ReadNothing
<1>4. CommandInv'
  BY <1>1, <1>2, <1>3, Parts, CommandFrame
<1>5. Quiet
  BY <1>1, ReadQuiet, QuietSame DEF ReadNothing
<1>6. Own(c)' = Own(c) /\ StateOf(c)' = StateOf(c)
  BY <1>1, <1>2, <1>3 DEF Own, Moved, Served, StateOf
<1>. QED BY <1>1, <1>2, <1>3, <1>4, <1>5, <1>6, CommandTypes, CommandStep

(* The command leaves by its wrapper, or by the table of clients. *)
LEMMA AnswerInv == ASSUME SessionInv, NEW c \in Commands, AnswerCommand(c) PROVE SessionInv'
<1>1. /\ TypeOK /\ c \in Threads /\ thread[c].pc = "write" /\ thread[c].output = "none"
      /\ {"stopmqtt", "answered"} \subseteq CommandPcs \ {"none", "open", "insert", "erase"}
      /\ {"stopmqtt", "answered"} \subseteq Pcs /\ InputOf(c) = mqttwriter
  BY Parts, CommandTypes DEF AnswerCommand, At, CommandPcs, Pcs
<1>2. /\ UNCHANGED <<bound, sent, nextid, sid, keep, clientid, handed, taken, halted, stop>>
      /\ UNCHANGED wrapper
  BY DEF AnswerCommand, broking, inputs, history, stopping
<1>3. CASE sid[mqttwriter] < 0
  <2>1. Moved(c, "stopmqtt", thread[c].id, thread[c].ref, thread[c].output) /\ clients' = clients
    BY <1>1, <1>3, GotoMoved DEF AnswerCommand, CloseClient
  <2>2. CommandInv'
    BY <1>1, <1>2, <2>1, Parts, CommandFrame
  <2>3. Own(c)' = Own(c) /\ StateOf(c)' = StateOf(c)
    BY <1>1, <1>2, <1>3, <2>1, CommandTypes DEF Own, Moved, Served, StateOf
  <2>. QED BY <1>1, <1>2, <2>1, <2>2, <2>3, QuietSame, CommandTypes, CommandStep
<1>4. CASE ~(sid[mqttwriter] < 0)
  <2>0. c \notin Inputs
    BY Kinds
  <2>1. /\ Moved(c, "answered", -1, thread[c].ref, thread[c].output)
        /\ clients' = [clients EXCEPT ![mqttwriter] = @ \ {thread[c].id}]
    BY <1>1, <1>4, <2>0, GotoWithMoved DEF AnswerCommand, CloseClient, Closing
  <2>2. CommandInv'
    BY <1>1, <1>2, <2>1, Parts, CommandFrame
  <2>3. Own(c)' = {}
    BY <2>1 DEF Own, Moved
  <2>4. clients' \in [Inputs -> SUBSET Int] /\ clients'[mqttrunner] = clients[mqttrunner]
    BY <1>1, <2>1, Kinds DEF TypeOK
  <2>. QED BY <1>1, <1>2, <2>1, <2>2, <2>3, <2>4, QuietSame, CommandTypes, CommandStep
<1>. QED BY <1>3, <1>4

(* openClient(): its own wrapper, or a client of the server thread. *)
LEMMA OpenInv == ASSUME SessionInv, NEW c \in Commands, OpenClient(c) PROVE SessionInv'
<1>1. /\ TypeOK /\ c \in Threads /\ thread[c].pc = "open"
      /\ "reading" \in CommandPcs \ {"none", "open", "insert", "erase"} /\ "reading" \in Pcs
  BY Parts, CommandTypes DEF OpenClient, At, CommandPcs, Pcs
<1>2. CASE sid[mqttwriter] < 0
  <2>1. InitMqtt(c, "insert")
    BY <1>2 DEF OpenClient
  <2>. QED BY <1>1, <2>1, InitInv
<1>3. CASE ~(sid[mqttwriter] < 0)
  <2>1. /\ UNCHANGED <<bound, sent, nextid, sid, keep, handed, taken, halted, stop>>
        /\ UNCHANGED wrapper /\ NewClient(mqttwriter)
        /\ GotoWith(c, "reading", clientid[mqttwriter])
    BY <1>3 DEF OpenClient, broking, history, stopping
  <2>2. /\ clientid[mqttwriter] \in Int /\ clientid' \in [Inputs -> Int]
        /\ clients' \in [Inputs -> SUBSET Int] /\ clients'[mqttrunner] = clients[mqttrunner]
    BY <1>1, <2>1, Kinds DEF NewClient, TypeOK
  <2>3. Moved(c, "reading", clientid[mqttwriter], thread[c].ref, thread[c].output)
    BY <1>1, <2>1, <2>2, GotoWithMoved
  <2>4. CommandInv'
    BY <1>1, <2>1, <2>3, Parts, CommandFrame
  <2>5. Own(c)' = {}
    BY <1>1, <1>3, <2>1, <2>3, CommandTypes DEF Own, Moved, Served
  <2>. QED BY <1>1, <2>1, <2>2, <2>3, <2>4, <2>5, QuietSame, CommandTypes, CommandStep
<1>. QED BY <1>2, <1>3

(* A wrapper comes into the map or leaves it. *)
LEMMA AtChanges ==
  ASSUME TypeOK, NEW w \in Ids, NEW at \in {"mapped", "gone"},
         wrapper' = [wrapper EXCEPT ![w].at = at]
  PROVE  /\ wrapper' \in [Ids -> Wrapper] /\ wrapper'[w].at = at
         /\ \A x \in Ids : /\ wrapper'[x].topic = wrapper[x].topic
                           /\ Orderly(wrapper[x], wrapper'[x])
                           /\ x # w => wrapper'[x] = wrapper[x]
<1>. DEFINE v == wrapper[w]
            u == [v EXCEPT !.at = at]
<1>1. wrapper \in [Ids -> Wrapper] /\ v \in Wrapper /\ wrapper' = [wrapper EXCEPT ![w] = u]
  BY DEF TypeOK
<1>2. wrapper'[w] = u /\ \A x \in Ids : x # w => wrapper'[x] = wrapper[x]
  BY <1>1
<1>. HIDE DEF v
<1>3. /\ u \in Wrapper /\ u.at = at /\ u.topic = v.topic /\ u.buffer = v.buffer
      /\ u.wire = v.wire /\ u.subscribed = v.subscribed
  BY <1>1 DEF Wrapper
<1>. HIDE DEF u
<1>4. Orderly(v, u)
  BY <1>3 DEF Orderly, InOrder
<1>5. wrapper' \in [Ids -> Wrapper]
  BY <1>1, <1>3
<1>6. \A x \in Ids : x # w => Orderly(wrapper[x], wrapper'[x])
  BY <1>2 DEF Orderly
<1>. QED BY <1>2, <1>3, <1>4, <1>5, <1>6 DEF v

LEMMA InsertInv == ASSUME SessionInv, NEW c \in Commands, InsertOwn(c) PROVE SessionInv'
<1>. DEFINE w == thread[c].id
<1>1. /\ TypeOK /\ TopicInv /\ c \in Threads /\ thread[c].pc = "insert"
      /\ "reading" \in CommandPcs /\ "reading" \in Pcs
      /\ c \notin Inputs /\ c \notin Messages /\ c # mqttrunner
  BY Parts, CommandTypes, Kinds DEF InsertOwn, At, CommandPcs, Pcs
<1>2. UNCHANGED <<bound, sent, nextid, sid, keep, clientid, clients, handed, taken, halted, stop>>
  BY DEF InsertOwn, broking, inputs, history, stopping
<1>3. Moved(c, "reading", w, thread[c].ref, thread[c].output)
  BY <1>1, GotoMoved DEF InsertOwn
<1>4. w \in Ids /\ w < nextid
  BY <1>1 DEF TopicInv
<1>5. wrapper' = [wrapper EXCEPT ![w].at = "mapped"]
  BY DEF InsertOwn, Insert
<1>6. Fits(c, "reading")
  BY <1>1 DEF Fits
<1>7. Own(c) = {w}
  BY <1>1 DEF Own
<1>8. Own(c)' \subseteq {w} /\ StateOf(c)' = "mapped"
  BY <1>2, <1>3 DEF Own, Moved, Served, StateOf
<1>. HIDE DEF w
<1>9. /\ wrapper' \in [Ids -> Wrapper] /\ wrapper'[w].at = "mapped"
      /\ \A x \in Ids : /\ wrapper'[x].topic = wrapper[x].topic
                        /\ Orderly(wrapper[x], wrapper'[x])
                        /\ x # w => wrapper'[x] = wrapper[x]
  BY <1>1, <1>4, <1>5, AtChanges
<1>10. CommandInv'
  BY <1>1, <1>2, <1>3, Parts, CommandFrame
<1>11. Plain(c, "reading")
  BY <1>1, <1>2, <1>6, <1>9, Parts DEF Plain, TypeOK
<1>12. TopicInv'
  <2>1. ThreadsOK /\ ThreadsOK' /\ nextid \in Nat /\ nextid' = nextid
    BY <1>1, <1>2, <1>3, <1>6, ThreadsFrame DEF TypeOK, ThreadsOK
  <2>2. thread'[mqttrunner] = thread[mqttrunner]
    BY <1>1, <1>3, Kinds DEF Moved
  <2>3. \A u \in Threads : thread'[u].pc \in {"opened", "insert", "erase"} => thread'[u] = thread[u]
    BY <1>3 DEF Moved
  <2>4. \A x \in Ids : /\ wrapper'[x].topic = wrapper[x].topic
                       /\ \/ wrapper'[x].at = wrapper[x].at
                          \/ wrapper'[x].at = "mapped" /\ x < nextid
    BY <1>4, <1>9
  <2>. QED BY <1>1, <1>2, <2>1, <2>2, <2>3, <2>4, TopicFrame
<1>13. ASSUME stop = "no" PROVE OwnInv'
  <2>1. OwnInv
    BY <1>13, Parts
  <2>2. \A x \in Ids : x \notin Own(c) => wrapper'[x].at = wrapper[x].at
    BY <1>7, <1>9
  <2>3. \A x \in Own(c)' : wrapper'[x].at = StateOf(c)'
    BY <1>8, <1>9
  <2>. QED BY <1>2, <1>3, <1>7, <1>8, <2>1, <2>2, <2>3, OwnMoved
<1>. QED BY <1>1, <1>3, <1>10, <1>11, <1>12, <1>13, PlainInv

(* After publishing, mqttLoop() for the wrapper that was used. *)
LEMMA FlushInv == ASSUME SessionInv, NEW c \in Commands, Flush(c) PROVE SessionInv'
<1>1. /\ TypeOK /\ c \in Threads /\ thread[c].pc = "flush" /\ thread[c] \in Thread
      /\ "reading" \in CommandPcs \ {"none", "open", "insert", "erase"} /\ "reading" \in Pcs
  BY Parts, CommandTypes DEF Flush, At, CommandPcs, Pcs
<1>2. UNCHANGED <<bound, sent, nextid, sid, keep, clientid, clients, handed, taken, halted, stop>>
  BY DEF Flush, broking, inputs, history, stopping
<1>3. Moved(c, "reading", thread[c].id, -1, thread[c].output)
  <2>. DEFINE none == -1
              x == [thread[c] EXCEPT !.pc = "reading", !.ref = none]
  <2>0. none \in Int
    OBVIOUS
  <2>2. thread' = [thread EXCEPT ![c] = x]
    BY DEF Flush
  <2>. HIDE DEF none
  <2>1. /\ x \in Thread /\ x.pc = "reading" /\ x.id = thread[c].id /\ x.ref = none
        /\ x.output = thread[c].output
    BY <1>1, <2>0 DEF Thread, Pcs
  <2>. HIDE DEF x
  <2>3. Moved(c, "reading", thread[c].id, none, thread[c].output)
    BY <1>1, <2>1, <2>2, ExceptMoved
  <2>. QED BY <2>3 DEF none
<1>4. Quiet
  <2>. DEFINE w == thread[c].ref
  <2>1. wrapper' = [wrapper EXCEPT ![w] = mqttLoop(wrapper[w])]
    BY DEF Flush
  <2>2. wrapper \in [Ids -> Wrapper]
    BY <1>1 DEF TypeOK
  <2>. HIDE DEF w
  <2>3. CASE w \in Ids
    <3>1. Later(wrapper[w], mqttLoop(wrapper[w]))
      BY <2>2, <2>3, LoopLater
    <3>. QED BY <1>1, <2>1, <2>3, <3>1, QuietExcept
  <2>4. CASE w \notin Ids
    <3>1. wrapper' = wrapper
      BY <2>1, <2>2, <2>4
    <3>. QED BY <1>1, <3>1, QuietSame
  <2>. QED BY <2>3, <2>4
<1>5. CommandInv'
  BY <1>1, <1>2, <1>3, Parts, CommandFrame
<1>6. ASSUME stop = "no" PROVE Own(c)' \subseteq Own(c) /\ StateOf(c)' = StateOf(c)
  <2>1. OwnInv
    BY <1>6, Parts
  <2>2. thread[c].ref >= 0 /\ (~Served => thread[c].ref = thread[c].id)
    BY <1>1, <2>1 DEF OwnInv
  <2>3. CASE Served
    BY <1>1, <1>2, <1>3, <2>3 DEF Own, Moved, Served, StateOf
  <2>4. CASE ~Served
    <3>1. thread[c].ref # sid[mqttwriter]
      BY <1>1, <2>2, <2>4, CommandTypes DEF Served
    <3>. QED BY <1>1, <1>2, <1>3, <2>2, <2>4, <3>1 DEF Own, Moved, Served, StateOf
  <2>. QED BY <2>3, <2>4
<1>. QED BY <1>1, <1>2, <1>3, <1>4, <1>5, <1>6, CommandTypes, CommandStep

LEMMA WriteInv == ASSUME SessionInv, NEW c \in Commands, WriteClient(c) PROVE SessionInv'
<1>1. /\ TypeOK /\ c \in Threads /\ thread[c].pc = "write" /\ thread[c].output = "some"
      /\ thread[c] \in Thread
      /\ {"reading", "flush"} \subseteq CommandPcs \ {"none", "open", "insert", "erase"}
      /\ {"reading", "flush"} \subseteq Pcs
  BY Parts, CommandTypes DEF WriteClient, At, CommandPcs, Pcs
<1>2. /\ UNCHANGED <<bound, sent, nextid, sid, keep, clientid, clients, taken, halted, stop>>
      /\ UNCHANGED wrapper
  BY DEF WriteClient, broking, inputs, stopping
<1>3. CASE Goto(c, "reading") /\ handed' = handed
  <2>1. Moved(c, "reading", thread[c].id, thread[c].ref, thread[c].output)
    BY <1>1, <1>3, GotoMoved
  <2>2. CommandInv'
    BY <1>1, <1>3, <2>1, Parts, CommandFrame
  <2>3. Own(c)' = Own(c) /\ StateOf(c)' = StateOf(c)
    BY <1>1, <1>2, <2>1 DEF Own, Moved, Served, StateOf
  <2>. QED BY <1>1, <1>2, <1>3, <2>1, <2>2, <2>3, QuietSame, CommandTypes, CommandStep
<1>4. ASSUME NEW output \in {"some", "none"}, Found(Writer(c)),
             thread' = [thread EXCEPT ![c] = [@ EXCEPT !.pc = "flush", !.ref = Writer(c),
                                                       !.output = output]],
             handed' = [handed EXCEPT ![c] = IF output = "none" THEN @ + 1 ELSE @]
      PROVE  SessionInv'
  <2>. DEFINE w == Writer(c)
              x == [thread[c] EXCEPT !.pc = "flush", !.ref = w, !.output = output]
  <2>1. w \in Ids /\ w \in Int /\ w >= 0
    BY <1>4 DEF Found, Ids
  <2>2. thread' = [thread EXCEPT ![c] = x]
    BY <1>4
  <2>3. w = IF Served THEN sid[mqttwriter] ELSE thread[c].id
    BY <1>1, CommandTypes DEF Writer, Served
  <2>. HIDE DEF w
  <2>4. /\ x \in Thread /\ x.pc = "flush" /\ x.id = thread[c].id /\ x.ref = w
        /\ x.output = output
    BY <1>1, <2>1 DEF Thread, Pcs
  <2>. HIDE DEF x
  <2>5. Moved(c, "flush", thread[c].id, w, output)
    BY <1>1, <2>2, <2>4, ExceptMoved
  <2>6. handed' \in [Commands -> Nat] /\ CommandInv'
    <3>1. CommandInv /\ handed \in [Commands -> Nat]
      BY <1>1, Parts, CommandTypes
    <3>2. /\ handed' \in [Commands -> Nat]
          /\ handed'[c] = (IF output = "none" THEN handed[c] + 1 ELSE handed[c])
          /\ \A d \in Commands : d # c => handed'[d] = handed[d]
      BY <1>4, <3>1
    <3>3. handed[c] = 0
      BY <1>1, <3>1 DEF CommandInv
    <3>4. handed'[c] = IF output = "none" THEN 1 ELSE 0
      BY <3>2, <3>3
    <3>5. \A d \in Commands : d # c => thread'[d] = thread[d]
      BY <2>5, Kinds DEF Moved
    <3>. QED BY <2>5, <3>1, <3>2, <3>4, <3>5 DEF CommandInv, Moved
  <2>7. Own(c)' \subseteq Own(c) /\ StateOf(c)' = StateOf(c)
    BY <1>1, <1>2, <2>3, <2>5 DEF Own, Moved, Served, StateOf
  <2>8. ~Served => w = thread[c].id
    BY <2>3
  <2>. QED BY <1>1, <1>2, <2>1, <2>5, <2>6, <2>7, <2>8, QuietSame, CommandTypes, CommandStep
<1>5. CASE ~Found(Writer(c))
  BY <1>3, <1>5 DEF WriteClient
<1>6. CASE Found(Writer(c))
  <2>1. publishMaskTopic(c, Writer(c))
    BY <1>6 DEF WriteClient
  <2>2. CASE Goto(c, "reading") /\ handed' = handed
    BY <1>3, <2>2
  <2>3. CASE /\ thread' = [thread EXCEPT ![c] = [@ EXCEPT !.pc = "flush", !.ref = Writer(c),
                                                          !.output = "none"]]
             /\ handed' = [handed EXCEPT ![c] = @ + 1]
    BY <1>4, <1>6, <2>3
  <2>4. CASE /\ thread' = [thread EXCEPT ![c] = [@ EXCEPT !.pc = "flush", !.ref = Writer(c)]]
             /\ handed' = handed
    <3>1. /\ [thread[c] EXCEPT !.pc = "flush", !.ref = Writer(c)]
             = [thread[c] EXCEPT !.pc = "flush", !.ref = Writer(c), !.output = "some"]
      BY <1>1 DEF Thread
    <3>2. handed' = [handed EXCEPT ![c] = @]
      BY <1>1, <2>4, CommandTypes
    <3>. QED BY <1>4, <1>6, <2>4, <3>1, <3>2
  <2>. QED BY <2>1, <2>2, <2>3, <2>4 DEF publishMaskTopic
<1>. QED BY <1>5, <1>6

-----------------------------------------------------------------------------
(* stopMQTT(): the wrapper is emptied, then it leaves the map. *)

LEMMA FreedWrapper ==
  ASSUME TypeOK, NEW w \in Ids, wrapper' = [wrapper EXCEPT ![w] = [NoWrapper EXCEPT !.at = "freed"]]
  PROVE  /\ wrapper' \in [Ids -> Wrapper] /\ wrapper'[w].at = "freed" /\ wrapper'[w].topic = ""
         /\ \A x \in Ids : /\ Orderly(wrapper[x], wrapper'[x])
                           /\ x # w => wrapper'[x] = wrapper[x]
<1>. DEFINE u == [NoWrapper EXCEPT !.at = "freed"]
<1>1. /\ u \in Wrapper /\ u.at = "freed" /\ u.topic = "" /\ u.buffer = <<>> /\ u.wire = <<>>
      /\ u.subscribed = "no"
  BY EmptySequences DEF NoWrapper, Wrapper
<1>. HIDE DEF u
<1>2. wrapper \in [Ids -> Wrapper] /\ wrapper' = [wrapper EXCEPT ![w] = u]
  BY DEF TypeOK, u
<1>3. wrapper' \in [Ids -> Wrapper] /\ wrapper'[w] = u /\ \A x \in Ids : x # w => wrapper'[x] = wrapper[x]
  BY <1>1, <1>2
<1>4. \A lo, hi \in Nat : InOrder(u, lo, hi)
  BY <1>1, EmptyInOrder
<1>5. \A x \in Ids : Orderly(wrapper[x], wrapper'[x])
  BY <1>3, <1>4 DEF Orderly
<1>. QED BY <1>1, <1>3, <1>5

(* Where a thread that releases its wrapper goes. *)
LEMMA ReleaseFits ==
  ASSUME SessionInv, NEW t \in Threads, thread[t].pc \in {"stopmqtt", "erase"}
  PROVE  /\ Fits(t, "erase") /\ Fits(t, Closing(t)) /\ "erase" \in Pcs /\ Closing(t) \in Pcs
         /\ t \in Owners => Closing(t) \notin {"start", "none", "open"}
         /\ Closing(t) \notin {"opened", "insert", "erase", "accept", "stopmqtt"}
         /\ t \in Commands => thread[t].output = "none"
         /\ sid \in [Inputs -> Int] /\ clientid \in [Inputs -> Int]
         /\ clients \in [Inputs -> SUBSET Int] /\ handed \in [Commands -> Nat]
         /\ thread[t].id \in Int /\ wrapper \in [Ids -> Wrapper]
         /\ stop = "no" => t \in Commands
<1>1. Closing(t) = IF t \in Inputs THEN "closed" ELSE IF t \in Commands THEN "answered" ELSE "ended"
  BY DEF Closing
<1>2. /\ Fits(t, "erase") /\ Fits(t, Closing(t)) /\ "erase" \in Pcs /\ Closing(t) \in Pcs
      /\ t \in Owners => Closing(t) \notin {"start", "none", "open"}
      /\ Closing(t) \notin {"opened", "insert", "erase", "accept", "stopmqtt"}
  BY <1>1, Kinds DEF Fits, Pcs, InputPcs, CommandPcs, MessagePcs, Owners
<1>3. /\ sid \in [Inputs -> Int] /\ clientid \in [Inputs -> Int]
      /\ clients \in [Inputs -> SUBSET Int] /\ handed \in [Commands -> Nat]
      /\ thread[t].id \in Int /\ wrapper \in [Ids -> Wrapper]
  BY Parts DEF TypeOK, Thread
<1>4. t \in Commands => thread[t].output = "none"
  BY Parts DEF CommandInv
<1>5. stop = "no" => t \in Commands
  BY Parts, Kinds DEF OwnInv
<1>. QED BY <1>2, <1>3, <1>4, <1>5

LEMMA StopMqttInv == ASSUME SessionInv, NEW t \in Threads, StopMqtt(t) PROVE SessionInv'
<1>. DEFINE w == thread[t].id
<1>1. TypeOK /\ TopicInv /\ thread[t].pc = "stopmqtt"
  BY Parts DEF StopMqtt, At
<1>2. UNCHANGED <<bound, sent, nextid, sid, keep, clientid, clients, handed, taken, halted, stop>>
  BY DEF StopMqtt, broking, inputs, history, stopping
<1>3. ASSUME t = mqttrunner, NEW x \in Ids, wrapper[x].topic # ""
      PROVE  x = w /\ Found(w)
  BY <1>1, <1>3 DEF TopicInv, Found
<1>4. CASE Found(w)
  <2>1. wrapper' = [wrapper EXCEPT ![w] = [NoWrapper EXCEPT !.at = "freed"]] /\ Goto(t, "erase")
    BY <1>4 DEF StopMqtt
  <2>2. Moved(t, "erase", w, thread[t].ref, thread[t].output)
    BY <1>1, <2>1, ReleaseFits, GotoMoved
  <2>3. w \in Ids /\ w < nextid
    BY <1>1, <1>4 DEF Found, TopicInv
  <2>4. t \in Commands => Own(t) = {w} /\ Own(t)' = {w} /\ StateOf(t)' = "freed"
    BY <1>1, <2>2 DEF Own, StateOf, Moved
  <2>. HIDE DEF w
  <2>5. /\ wrapper' \in [Ids -> Wrapper] /\ wrapper'[w].at = "freed" /\ wrapper'[w].topic = ""
        /\ \A x \in Ids : /\ Orderly(wrapper[x], wrapper'[x])
                          /\ x # w => wrapper'[x] = wrapper[x]
    BY <1>1, <2>1, <2>3, FreedWrapper
  <2>6. CommandInv'
    BY <1>1, <1>2, <2>2, Parts, CommandFrame, ReleaseFits
  <2>7. Plain(t, "erase")
    BY <1>1, <1>2, <2>5, ReleaseFits DEF Plain
  <2>8. TopicInv'
    <3>1. \A x \in Ids : /\ wrapper[x].topic = "" => wrapper'[x].topic = ""
                         /\ wrapper'[x].at # "none" => x < nextid
      BY <1>1, <2>3, <2>5 DEF TopicInv
    <3>2. ASSUME NEW x \in Ids, wrapper'[x].topic # ""
          PROVE  \/ thread'[mqttrunner].pc = "opened" /\ thread'[mqttrunner].id = x
                 \/ /\ thread'[mqttrunner].pc = "accept" /\ sid'[mqttrunner] = x
                    /\ wrapper'[x].at = "mapped"
                 \/ /\ thread'[mqttrunner].pc = "stopmqtt" /\ thread'[mqttrunner].id = x
                    /\ wrapper'[x].at = "mapped"
      <4>1. x # w /\ wrapper'[x] = wrapper[x]
        BY <2>5, <3>2
      <4>2. t # mqttrunner
        BY <1>3, <3>2, <4>1
      <4>3. thread'[mqttrunner] = thread[mqttrunner]
        BY <2>2, <4>2, Kinds DEF Moved
      <4>. QED BY <1>1, <1>2, <3>2, <4>1, <4>3 DEF TopicInv
    <3>. QED BY <1>1, <1>2, <2>2, <2>3, <2>5, <3>1, <3>2, TopicMoved
  <2>9. ASSUME stop = "no" PROVE OwnInv'
    <3>1. OwnInv /\ t \in Commands
      BY <1>1, <2>9, Parts, ReleaseFits
    <3>2. \A x \in Ids : x \notin Own(t) => wrapper'[x].at = wrapper[x].at
      BY <2>4, <2>5, <3>1
    <3>3. Own(t)' \subseteq Own(t) /\ \A x \in Own(t)' : wrapper'[x].at = StateOf(t)'
      BY <2>4, <2>5, <3>1
    <3>. QED BY <1>2, <2>2, <3>1, <3>2, <3>3, OwnMoved
  <2>. QED BY <2>2, <2>6, <2>7, <2>8, <2>9, PlainInv
<1>5. CASE ~Found(w)
  <2>1. GotoWith(t, Closing(t), -1) /\ wrapper' = wrapper
    BY <1>5 DEF StopMqtt
  <2>2. Moved(t, Closing(t), -1, thread[t].ref, thread[t].output)
    BY <1>1, <2>1, ReleaseFits, GotoWithMoved
  <2>3. CommandInv'
    BY <1>1, <1>2, <2>2, Parts, CommandFrame, ReleaseFits
  <2>4. Plain(t, Closing(t))
    <3>1. \A x \in Ids : Orderly(wrapper[x], wrapper'[x])
      BY <2>1 DEF Orderly
    <3>. QED BY <1>1, <1>2, <2>1, <3>1, ReleaseFits DEF Plain
  <2>5. TopicInv'
    <3>1. Closing(t) \notin {"opened", "insert", "erase", "accept", "stopmqtt"}
      BY <1>1, ReleaseFits
    <3>2. \A x \in Ids : /\ wrapper[x].topic = "" => wrapper'[x].topic = ""
                         /\ wrapper'[x].at # "none" => x < nextid
      BY <1>1, <2>1 DEF TopicInv
    <3>3. ASSUME NEW x \in Ids, wrapper'[x].topic # ""
          PROVE  \/ thread'[mqttrunner].pc = "opened" /\ thread'[mqttrunner].id = x
                 \/ /\ thread'[mqttrunner].pc = "accept" /\ sid'[mqttrunner] = x
                    /\ wrapper'[x].at = "mapped"
                 \/ /\ thread'[mqttrunner].pc = "stopmqtt" /\ thread'[mqttrunner].id = x
                    /\ wrapper'[x].at = "mapped"
      <4>1. t # mqttrunner
        BY <1>3, <1>5, <2>1, <3>3
      <4>2. thread'[mqttrunner] = thread[mqttrunner]
        BY <2>2, <4>1, Kinds DEF Moved
      <4>. QED BY <1>1, <1>2, <2>1, <3>3, <4>2 DEF TopicInv
    <3>. QED BY <1>1, <1>2, <2>2, <3>1, <3>2, <3>3, TopicMoved
  <2>6. ASSUME stop = "no" PROVE OwnInv'
    <3>1. OwnInv /\ t \in Commands
      BY <1>1, <2>6, Parts, ReleaseFits
    <3>2. Own(t)' = {}
      BY <2>2, <3>1, Kinds DEF Own, Moved, Closing
    <3>3. Closing(t) # "flush"
      BY DEF Closing
    <3>. QED BY <1>2, <2>1, <2>2, <3>1, <3>2, <3>3, OwnMoved
  <2>. QED BY <2>2, <2>3, <2>4, <2>5, <2>6, PlainInv
<1>. QED BY <1>4, <1>5

LEMMA EraseInv == ASSUME SessionInv, NEW t \in Threads, Erase(t) PROVE SessionInv'
<1>. DEFINE w == thread[t].id
<1>1. TypeOK /\ TopicInv /\ thread[t].pc = "erase"
  BY Parts DEF Erase, At
<1>2. UNCHANGED <<bound, sent, nextid, sid, keep, clientid, clients, handed, taken, halted, stop>>
  BY DEF Erase, broking, inputs, history, stopping
<1>3. wrapper' = [wrapper EXCEPT ![w].at = "gone"] /\ GotoWith(t, Closing(t), -1)
  BY DEF Erase
<1>4. Moved(t, Closing(t), -1, thread[t].ref, thread[t].output)
  BY <1>1, <1>3, ReleaseFits, GotoWithMoved
<1>5. w \in Ids /\ w < nextid /\ wrapper[w].topic = ""
  BY <1>1 DEF TopicInv
<1>6. t \in Commands => Own(t) = {w}
  BY <1>1 DEF Own
<1>7. t = mqttrunner => \A x \in Ids : wrapper[x].topic = ""
  BY <1>1 DEF TopicInv
<1>. HIDE DEF w
<1>8. /\ wrapper' \in [Ids -> Wrapper] /\ wrapper'[w].at = "gone"
      /\ \A x \in Ids : /\ wrapper'[x].topic = wrapper[x].topic
                        /\ Orderly(wrapper[x], wrapper'[x])
                        /\ x # w => wrapper'[x] = wrapper[x]
  BY <1>1, <1>3, <1>5, AtChanges
<1>9. CommandInv'
  BY <1>1, <1>2, <1>4, Parts, CommandFrame, ReleaseFits
<1>10. Plain(t, Closing(t))
  BY <1>1, <1>2, <1>8, ReleaseFits DEF Plain
<1>11. TopicInv'
  <2>1. Closing(t) \notin {"opened", "insert", "erase", "accept", "stopmqtt"}
    BY <1>1, ReleaseFits
  <2>2. \A x \in Ids : /\ wrapper[x].topic = "" => wrapper'[x].topic = ""
                       /\ wrapper'[x].at # "none" => x < nextid
    BY <1>1, <1>5, <1>8 DEF TopicInv
  <2>3. ASSUME NEW x \in Ids, wrapper'[x].topic # ""
        PROVE  \/ thread'[mqttrunner].pc = "opened" /\ thread'[mqttrunner].id = x
               \/ /\ thread'[mqttrunner].pc = "accept" /\ sid'[mqttrunner] = x
                  /\ wrapper'[x].at = "mapped"
               \/ /\ thread'[mqttrunner].pc = "stopmqtt" /\ thread'[mqttrunner].id = x
                  /\ wrapper'[x].at = "mapped"
    <3>1. x # w /\ wrapper'[x] = wrapper[x] /\ t # mqttrunner
      BY <1>5, <1>7, <1>8, <2>3
    <3>2. thread'[mqttrunner] = thread[mqttrunner]
      BY <1>4, <3>1, Kinds DEF Moved
    <3>. QED BY <1>1, <1>2, <2>3, <3>1, <3>2 DEF TopicInv
  <2>. QED BY <1>1, <1>2, <1>4, <2>1, <2>2, <2>3, TopicMoved
<1>12. ASSUME stop = "no" PROVE OwnInv'
  <2>1. OwnInv /\ t \in Commands
    BY <1>1, <1>12, Parts, ReleaseFits
  <2>2. Own(t)' = {}
    BY <1>4, <2>1, Kinds DEF Own, Moved, Closing
  <2>3. Closing(t) # "flush"
    BY DEF Closing
  <2>4. \A x \in Ids : x \notin Own(t) => wrapper'[x].at = wrapper[x].at
    BY <1>6, <1>8, <2>1
  <2>. QED BY <1>2, <1>4, <2>1, <2>2, <2>3, <2>4, OwnMoved
<1>. QED BY <1>4, <1>9, <1>10, <1>11, <1>12, PlainInv

-----------------------------------------------------------------------------
(* The runner of a message. *)

LEMMA MessageStep ==
  ASSUME SessionInv, NEW m \in Messages, NEW pc, NEW id, NEW ref,
         Moved(m, pc, id, ref, thread[m].output), thread[m].pc \notin {"none", "ended"},
         pc \in MessagePcs \ {"none", "erase"},
         UNCHANGED <<bound, sent, wrapper, nextid, sid, keep, clientid, handed, taken, halted, stop>>,
         clients' \in [Inputs -> SUBSET Int], stop = "no" => OwnInv'
  PROVE  SessionInv'
<1>1. /\ TypeOK /\ TopicInv /\ m \in Threads /\ m \notin Inputs /\ m \notin Commands
      /\ m \notin Owners /\ m # mqttrunner
  BY Parts, Kinds DEF Owners
<1>2. Fits(m, pc) /\ pc \notin {"opened", "insert", "erase"}
  BY <1>1 DEF Fits, MessagePcs
<1>3. Plain(m, pc)
  <2>1. \A x \in Ids : Orderly(wrapper[x], wrapper'[x])
    BY DEF Orderly
  <2>. QED BY <1>1, <1>2, <2>1 DEF Plain, TypeOK
<1>4. CommandInv'
  BY <1>1, Parts, CommandFrame
<1>5. TopicInv'
  BY <1>1, <1>2, QuietSame, TopicQuiet
<1>. QED BY <1>1, <1>3, <1>4, <1>5, PlainInv

LEMMA ReadMessageInv == ASSUME SessionInv, NEW m \in Messages, ReadMessage(m) PROVE SessionInv'
<1>1. TypeOK /\ m \in Threads /\ thread[m].pc = "reading" /\ sid[mqttrunner] \in Int
  BY Parts, Kinds DEF ReadMessage, At, TypeOK
<1>2. CASE sid[mqttrunner] < 0
  <2>1. Quiet
    BY <1>1, <1>2, ReadQuiet DEF ReadMessage
  <2>2. UNCHANGED <<bound, sent, inputs, thread, history, stopping>>
    BY <1>2 DEF ReadMessage, broking
  <2>. QED BY <2>1, <2>2, ThreadsSame
<1>3. CASE ~(sid[mqttrunner] < 0)
  <2>1. /\ UNCHANGED <<bound, sent, wrapper, nextid, sid, keep, clientid, clients, handed, taken,
                       halted, stop>>
        /\ Goto(m, "close")
    BY <1>3 DEF ReadMessage, broking, inputs, history, stopping
  <2>2. "close" \in Pcs /\ "close" \in MessagePcs \ {"none", "erase"}
    BY DEF Pcs, MessagePcs
  <2>3. Moved(m, "close", thread[m].id, thread[m].ref, thread[m].output)
    BY <1>1, <2>1, <2>2, GotoMoved
  <2>4. stop = "no" => OwnInv'
    BY <1>1, <1>3, <2>1, <2>3, Parts, RunnerMoved
  <2>5. clients' \in [Inputs -> SUBSET Int]
    BY <1>1, <2>1 DEF TypeOK
  <2>. QED BY <1>1, <2>1, <2>2, <2>3, <2>4, <2>5, MessageStep
<1>. QED BY <1>2, <1>3

LEMMA RunnerClosesInv == ASSUME SessionInv, NEW m \in Messages, RunnerCloses(m) PROVE SessionInv'
<1>1. /\ TypeOK /\ m \in Threads /\ thread[m].pc \in {"reading", "close"}
      /\ InputOf(m) = mqttrunner /\ Closing(m) = "ended" /\ sid[mqttrunner] \in Int
      /\ clients \in [Inputs -> SUBSET Int]
  BY Parts, Kinds DEF RunnerCloses, At, InputOf, Closing, TypeOK
<1>2. UNCHANGED <<bound, sent, wrapper, nextid, sid, keep, clientid, handed, taken, halted, stop>>
  BY DEF RunnerCloses, broking, history, stopping
<1>3. /\ {"stopmqtt", "ended"} \subseteq Pcs
      /\ {"stopmqtt", "ended"} \subseteq MessagePcs \ {"none", "erase"}
  BY DEF Pcs, MessagePcs
<1>4. CASE sid[mqttrunner] < 0
  <2>1. Goto(m, "stopmqtt") /\ clients' = clients
    BY <1>1, <1>4 DEF RunnerCloses, CloseClient
  <2>2. Moved(m, "stopmqtt", thread[m].id, thread[m].ref, thread[m].output)
    BY <1>1, <1>3, <2>1, GotoMoved
  <2>3. stop # "no"
    BY <1>1, <1>4, Parts DEF OwnInv
  <2>. QED BY <1>1, <1>2, <1>3, <2>1, <2>2, <2>3, MessageStep
<1>5. CASE ~(sid[mqttrunner] < 0)
  <2>1. /\ GotoWith(m, "ended", -1)
        /\ clients' = [clients EXCEPT ![mqttrunner] = @ \ {thread[m].id}]
    BY <1>1, <1>5 DEF RunnerCloses, CloseClient
  <2>2. Moved(m, "ended", -1, thread[m].ref, thread[m].output)
    BY <1>1, <1>3, <2>1, GotoWithMoved
  <2>3. /\ clients' \in [Inputs -> SUBSET Int]
        /\ clients'[mqttrunner] = clients[mqttrunner] \ {thread[m].id}
    BY <1>1, <2>1, Kinds
  <2>4. stop = "no" => OwnInv'
    BY <1>1, <1>2, <1>5, <2>2, <2>3, Parts, RunnerMoved
  <2>. QED BY <1>1, <1>2, <1>3, <2>2, <2>3, <2>4, MessageStep
<1>. QED BY <1>4, <1>5

-----------------------------------------------------------------------------
(* stop(). *)

LEMMA StopStepInv ==
  ASSUME SessionInv, StopInv', keep' \subseteq Inputs, halted' \subseteq Messages,
         stop' \in {"no", "servers", "clients", "done"}, stop' = "no" => stop = "no",
         UNCHANGED <<broking, wrapper, nextid, sid, clientid, clients, thread, history>>
  PROVE  SessionInv'
<1>1. UNCHANGED <<bound, sent, wrapper, nextid, sid, clientid, clients, thread, handed, taken>>
  BY DEF broking, history
<1>2. TypeOK'
  BY <1>1, Parts DEF TypeOK
<1>3. CommandInv'
  BY <1>1, Parts DEF CommandInv
<1>4. MessageInv'
  BY <1>1, Parts, MessageFrame DEF Orderly
<1>5. TopicInv'
  BY <1>1, Parts DEF TopicInv
<1>6. CountInv'
  BY <1>1, Parts DEF CountInv, Pending
<1>7. stop' = "no" => OwnInv'
  BY <1>1, Parts, OwnSame
<1>. QED BY <1>2, <1>3, <1>4, <1>5, <1>6, <1>7 DEF SessionInv

LEMMA StoppingInv ==
  ASSUME SessionInv, Stop \/ StopServers \/ StopClients \/ StopRunner
  PROVE  SessionInv'
<1>1. keep \subseteq Inputs /\ halted \subseteq Messages /\ StopInv
      /\ stop \in {"no", "servers", "clients", "done"}
  BY Parts DEF TypeOK
<1>2. CASE Stop
  <2>1. stop' = "servers" /\ UNCHANGED <<keep, halted>>
        /\ UNCHANGED <<broking, wrapper, nextid, sid, clientid, clients, thread, history>>
    BY <1>2 DEF Stop, inputs
  <2>2. StopInv'
    BY <2>1 DEF StopInv
  <2>. QED BY <1>1, <2>1, <2>2, StopStepInv
<1>3. CASE StopServers
  <2>1. UNCHANGED <<broking, wrapper, nextid, sid, clientid, clients, thread, history, halted>>
    BY <1>3 DEF StopServers
  <2>2. CASE serverRunners = {} /\ stop' = "clients" /\ keep' = keep
    <3>1. \A i \in Inputs : thread'[i].pc = "ended"
      BY <2>1, <2>2 DEF serverRunners
    <3>2. StopInv'
      BY <2>2, <3>1 DEF StopInv
    <3>. QED BY <1>1, <2>1, <2>2, <3>2, StopStepInv
  <2>3. CASE stop = "servers" /\ stop' = stop /\ keep' = {}
    <3>1. StopInv'
      BY <2>3 DEF StopInv
    <3>. QED BY <1>1, <2>1, <2>3, <3>1, StopStepInv
  <2>. QED BY <1>3, <2>2, <2>3 DEF StopServers
<1>4. CASE StopClients
  <2>1. /\ UNCHANGED <<broking, wrapper, nextid, sid, clientid, clients, thread, history, keep>>
        /\ stop = "clients"
    BY <1>4 DEF StopClients, inputs
  <2>2. CASE clientRunners = {} /\ stop' = "done" /\ halted' = halted
    <3>1. clientRunners' = {}
      BY <2>1, <2>2 DEF clientRunners
    <3>2. StopInv'
      BY <1>1, <2>1, <2>2, <3>1 DEF StopInv
    <3>. QED BY <1>1, <2>1, <2>2, <3>2, StopStepInv
  <2>3. CASE \E m \in clientRunners : halted' = halted \cup {m} /\ stop' = stop
    <3>1. StopInv'
      BY <1>1, <2>1, <2>3 DEF StopInv
    <3>2. halted' \subseteq Messages
      BY <1>1, <2>3 DEF clientRunners
    <3>. QED BY <1>1, <2>1, <2>3, <3>1, <3>2, StopStepInv
  <2>. QED BY <1>4, <2>2, <2>3 DEF StopClients
<1>5. CASE StopRunner
  <2>1. /\ UNCHANGED <<broking, wrapper, nextid, sid, clientid, clients, thread, history, keep>>
        /\ UNCHANGED <<halted, stop>>
    BY <1>5 DEF StopRunner, inputs
  <2>2. StopInv'
    BY <1>1, <2>1 DEF StopInv, clientRunners
  <2>. QED BY <1>1, <2>1, <2>2, StopStepInv
<1>. QED BY <1>2, <1>3, <1>4, <1>5

-----------------------------------------------------------------------------
(* The server thread of an input. *)

LEMMA InputTypes ==
  ASSUME SessionInv, NEW i \in Inputs
  PROVE  /\ i \in Threads /\ i \in Owners /\ i \notin Commands /\ i \notin Messages
         /\ thread[i].id \in Int /\ sid \in [Inputs -> Int] /\ sid[i] \in Int
         /\ clientid \in [Inputs -> Int] /\ clients \in [Inputs -> SUBSET Int]
         /\ handed \in [Commands -> Nat] /\ wrapper \in [Ids -> Wrapper]
         /\ InputPcs \subseteq Pcs
BY Parts, Kinds DEF Owners, TypeOK, Thread, Pcs

(* The map gets the wrapper of the server, and _sid its id. *)
LEMMA OpenedInv == ASSUME SessionInv, NEW i \in Inputs, Opened(i) PROVE SessionInv'
<1>. DEFINE w == thread[i].id
<1>1. /\ TypeOK /\ TopicInv /\ thread[i].pc = "opened" /\ "accept" \in InputPcs
      /\ "accept" \in Pcs /\ i \in Threads
  BY Parts, InputTypes DEF Opened, At, InputPcs
<1>2. UNCHANGED <<bound, sent, nextid, keep, clientid, clients, handed, taken, halted, stop>>
  BY DEF Opened, broking, history, stopping
<1>3. /\ GotoWith(i, "accept", -1) /\ wrapper' = [wrapper EXCEPT ![w].at = "mapped"]
      /\ sid' = [sid EXCEPT ![i] = w]
  BY DEF Opened, Insert
<1>4. Moved(i, "accept", -1, thread[i].ref, thread[i].output)
  BY <1>1, <1>3, GotoWithMoved
<1>5. w \in Ids /\ w < nextid /\ w \in Int /\ w >= 0
  <2>1. w \in Ids /\ w < nextid
    BY <1>1 DEF TopicInv
  <2>. HIDE DEF w
  <2>2. w \in Int /\ w >= 0
    BY <2>1 DEF Ids
  <2>. QED BY <2>1, <2>2
<1>6. Own(i) = {w}
  BY <1>1 DEF Own
<1>7. i = mqttrunner => \A x \in Ids : wrapper[x].topic # "" => x = w
  BY <1>1 DEF TopicInv
<1>. HIDE DEF w
<1>8. /\ wrapper' \in [Ids -> Wrapper] /\ wrapper'[w].at = "mapped"
      /\ \A x \in Ids : /\ wrapper'[x].topic = wrapper[x].topic
                        /\ Orderly(wrapper[x], wrapper'[x])
                        /\ x # w => wrapper'[x] = wrapper[x]
  BY <1>1, <1>3, <1>5, AtChanges
<1>9. /\ sid' \in [Inputs -> Int] /\ sid'[i] = w
      /\ \A j \in Inputs : j # i => sid'[j] = sid[j]
  BY <1>3, <1>5, InputTypes
<1>10. CommandInv'
  BY <1>1, <1>2, <1>4, Parts, CommandFrame, InputTypes
<1>11. Plain(i, "accept")
  BY <1>1, <1>2, <1>8, <1>9, InputTypes DEF Plain, Fits
<1>12. TopicInv'
  <2>1. \A x \in Ids : /\ wrapper[x].topic = "" => wrapper'[x].topic = ""
                       /\ wrapper'[x].at # "none" => x < nextid
    BY <1>1, <1>5, <1>8 DEF TopicInv
  <2>2. ASSUME NEW x \in Ids, wrapper'[x].topic # ""
        PROVE  \/ thread'[mqttrunner].pc = "opened" /\ thread'[mqttrunner].id = x
               \/ /\ thread'[mqttrunner].pc = "accept" /\ sid'[mqttrunner] = x
                  /\ wrapper'[x].at = "mapped"
               \/ /\ thread'[mqttrunner].pc = "stopmqtt" /\ thread'[mqttrunner].id = x
                  /\ wrapper'[x].at = "mapped"
    <3>1. CASE i = mqttrunner
      BY <1>4, <1>7, <1>8, <1>9, <2>2, <3>1 DEF Moved
    <3>2. CASE i # mqttrunner
      <4>1. thread'[mqttrunner] = thread[mqttrunner] /\ sid'[mqttrunner] = sid[mqttrunner]
        BY <1>4, <1>9, <3>2, Kinds DEF Moved
      <4>. QED BY <1>1, <1>8, <2>2, <4>1 DEF TopicInv
    <3>. QED BY <3>1, <3>2
  <2>. QED BY <1>1, <1>2, <1>4, <2>1, <2>2, TopicMoved
<1>13. ASSUME stop = "no" PROVE OwnInv'
  <2>1. OwnInv /\ sid[i] \in Int /\ ~(sid[i] >= 0) /\ i \in Owners
    BY <1>1, <1>13, Parts, InputTypes DEF OwnInv
  <2>2. \A u \in Threads : u # i => thread'[u] = thread[u]
    BY <1>4 DEF Moved
  <2>3. Own(i)' = {w} /\ StateOf(i)' = "mapped"
    BY <1>4, <1>9 DEF Own, StateOf, Moved
  <2>4. ASSUME NEW u \in Owners, u # i
        PROVE  Own(u)' \subseteq Own(u) /\ StateOf(u)' = StateOf(u)
    <3>1. thread'[u] = thread[u]
      BY <2>2, <2>4, Kinds DEF Owners
    <3>2. StateOf(u)' = StateOf(u)
      BY <3>1 DEF StateOf
    <3>3. CASE u \in Inputs
      <4>1. thread[u].pc \in {"start", "opened", "accept"} /\ sid'[u] = sid[u]
        BY <1>9, <2>1, <2>4, <3>3 DEF OwnInv
      <4>. QED BY <3>1, <3>2, <4>1 DEF Own
    <3>4. CASE u \in Commands /\ i # mqttwriter
      <4>1. sid'[mqttwriter] = sid[mqttwriter] /\ thread[u].pc # "accept"
        BY <1>1, <1>9, <3>4, Kinds DEF TypeOK, CommandPcs
      <4>. QED BY <3>1, <3>2, <4>1 DEF Own, Served
    <3>5. CASE u \in Commands /\ i = mqttwriter
      <4>1. Served' /\ ~Served /\ thread[u].pc # "accept"
        BY <1>1, <1>5, <1>9, <2>1, <3>5 DEF Served, TypeOK, CommandPcs
      <4>2. CASE thread[u].pc = "flush"
        <5>1. thread[u].ref >= 0 /\ thread[u].ref # sid[mqttwriter]
          BY <2>1, <3>5, <4>2 DEF OwnInv
        <5>. QED BY <3>1, <3>2, <4>2, <5>1 DEF Own
      <4>3. CASE thread[u].pc # "flush"
        BY <3>1, <3>2, <4>1, <4>3 DEF Own
      <4>. QED BY <4>2, <4>3
    <3>. QED BY <3>3, <3>4, <3>5 DEF Owners
  <2>5. ASSUME NEW u \in Owners, NEW x \in Own(u)'
        PROVE  x \in Ids /\ x < nextid' /\ wrapper'[x].at = StateOf(u)'
    <3>1. CASE u = i
      BY <1>2, <1>5, <1>8, <2>3, <2>5, <3>1
    <3>2. CASE u # i
      <4>1. /\ x \in Own(u) /\ StateOf(u)' = StateOf(u) /\ x \in Ids /\ x < nextid
            /\ wrapper[x].at = StateOf(u)
        BY <2>1, <2>4, <2>5, <3>2 DEF OwnInv
      <4>2. x # w
        BY <1>6, <2>1, <3>2, <4>1 DEF OwnInv
      <4>. QED BY <1>2, <1>8, <4>1, <4>2
    <3>. QED BY <3>1, <3>2
  <2>6. \A u, x \in Owners : u # x => Own(u)' \cap Own(x)' = {}
    <3>1. \A u \in Owners : Own(u)' \subseteq Own(u)
      BY <1>6, <2>3, <2>4
    <3>. QED BY <2>1, <3>1 DEF OwnInv
  <2>7. \A j \in Inputs : /\ thread'[j].pc \in {"start", "opened", "accept"}
                          /\ sid'[j] >= 0 <=> thread'[j].pc = "accept"
    <3>. TAKE j \in Inputs
    <3>1. CASE j = i
      BY <1>4, <1>5, <1>9, <3>1 DEF Moved
    <3>2. CASE j # i
      BY <1>9, <2>1, <2>2, <3>2, Kinds DEF OwnInv
    <3>. QED BY <3>1, <3>2
  <2>8. ASSUME NEW c \in Commands
        PROVE  /\ thread'[c].pc = "flush" /\ ~Served' => thread'[c].ref = thread'[c].id
               /\ thread'[c].pc = "flush" => thread'[c].ref >= 0
    <3>1. thread'[c] = thread[c]
      BY <2>2, Kinds
    <3>2. Served => Served'
      BY <1>5, <1>9, Kinds DEF Served
    <3>. QED BY <2>1, <3>1, <3>2 DEF OwnInv
  <2>9. \A m \in Messages : thread'[m] = thread[m]
    BY <2>2, Kinds
  <2>10. sid[mqttrunner] >= 0 => sid'[mqttrunner] >= 0
    BY <1>5, <1>9, Kinds
  <2>11. \A m \in Messages : /\ thread'[m].pc \in {"none", "reading", "close", "ended"}
                             /\ thread'[m].pc # "none" => sid'[mqttrunner] >= 0
    BY <2>1, <2>9, <2>10 DEF OwnInv
  <2>12. clientRunners' = clientRunners
    BY <2>9 DEF clientRunners
  <2>13. \A k \in clients'[mqttrunner] : \E m \in clientRunners' : thread'[m].id = k
    BY <1>2, <2>1, <2>9, <2>12 DEF OwnInv, clientRunners
  <2>. QED BY <2>5, <2>6, <2>7, <2>8, <2>11, <2>13 DEF OwnInv
<1>. QED BY <1>1, <1>4, <1>10, <1>11, <1>12, <1>13, PlainInv

(* The loop of the server ends: not before a stop(). *)
LEMMA AcceptEndsInv == ASSUME SessionInv, NEW i \in Inputs, AcceptEnds(i) PROVE SessionInv'
<1>1. /\ TypeOK /\ TopicInv /\ thread[i].pc = "accept" /\ "stopmqtt" \in InputPcs
      /\ "stopmqtt" \in Pcs /\ i \in Threads
  BY Parts, InputTypes DEF AcceptEnds, At, InputPcs
<1>2. /\ UNCHANGED <<bound, sent, nextid, sid, keep, clientid, clients, handed, taken, halted, stop>>
      /\ UNCHANGED wrapper
  BY DEF AcceptEnds, broking, inputs, history, stopping
<1>3. Moved(i, "stopmqtt", sid[i], thread[i].ref, thread[i].output)
  BY <1>1, GotoWithMoved, InputTypes DEF AcceptEnds
<1>4. CommandInv'
  BY <1>1, <1>2, <1>3, Parts, CommandFrame, InputTypes
<1>5. Plain(i, "stopmqtt")
  <2>1. \A x \in Ids : Orderly(wrapper[x], wrapper'[x])
    BY <1>2 DEF Orderly
  <2>. QED BY <1>1, <1>2, <2>1, InputTypes DEF Plain, Fits
<1>6. TopicInv'
  <2>1. \A x \in Ids : /\ wrapper[x].topic = "" => wrapper'[x].topic = ""
                       /\ wrapper'[x].at # "none" => x < nextid
    BY <1>1, <1>2 DEF TopicInv
  <2>2. ASSUME NEW x \in Ids, wrapper'[x].topic # ""
        PROVE  \/ thread'[mqttrunner].pc = "opened" /\ thread'[mqttrunner].id = x
               \/ /\ thread'[mqttrunner].pc = "accept" /\ sid'[mqttrunner] = x
                  /\ wrapper'[x].at = "mapped"
               \/ /\ thread'[mqttrunner].pc = "stopmqtt" /\ thread'[mqttrunner].id = x
                  /\ wrapper'[x].at = "mapped"
    <3>1. CASE i = mqttrunner
      BY <1>1, <1>2, <1>3, <2>2, <3>1 DEF Moved, TopicInv
    <3>2. CASE i # mqttrunner
      <4>1. thread'[mqttrunner] = thread[mqttrunner]
        BY <1>3, <3>2, Kinds DEF Moved
      <4>. QED BY <1>1, <1>2, <2>2, <4>1 DEF TopicInv
    <3>. QED BY <3>1, <3>2
  <2>. QED BY <1>1, <1>2, <1>3, <2>1, <2>2, TopicMoved
<1>7. stop # "no"
  <2>. SUFFICES ASSUME stop = "no" PROVE FALSE
    OBVIOUS
  <2>1. OwnInv /\ keep = Inputs
    BY Parts DEF StopInv
  <2>2. Own(i) = {sid[i]} /\ StateOf(i) = "mapped"
    BY <1>1 DEF Own, StateOf
  <2>3. sid[i] \in Ids /\ wrapper[sid[i]].at = "mapped"
    BY <2>1, <2>2, InputTypes DEF OwnInv
  <2>. QED BY <2>1, <2>3 DEF AcceptEnds, Found
<1>. QED BY <1>1, <1>3, <1>4, <1>5, <1>6, <1>7, PlainInv

LEMMA CloseServerInv == ASSUME SessionInv, NEW i \in Inputs, CloseServer(i) PROVE SessionInv'
<1>1. /\ TypeOK /\ TopicInv /\ thread[i].pc = "closed" /\ "ended" \in InputPcs
      /\ "ended" \in Pcs /\ i \in Threads
  BY Parts, InputTypes DEF CloseServer, At, InputPcs
<1>2. /\ UNCHANGED <<bound, sent, nextid, keep, clientid, clients, handed, taken, halted, stop>>
      /\ UNCHANGED wrapper /\ Goto(i, "ended") /\ sid' = [sid EXCEPT ![i] = -1]
  BY DEF CloseServer, broking, history, stopping
<1>3. Moved(i, "ended", thread[i].id, thread[i].ref, thread[i].output)
  BY <1>1, <1>2, GotoMoved
<1>4. CommandInv'
  BY <1>1, <1>2, <1>3, Parts, CommandFrame, InputTypes
<1>5. sid' \in [Inputs -> Int] /\ \A j \in Inputs : j # i => sid'[j] = sid[j]
  BY <1>2, InputTypes
<1>6. Plain(i, "ended")
  <2>1. \A x \in Ids : Orderly(wrapper[x], wrapper'[x])
    BY <1>2 DEF Orderly
  <2>. QED BY <1>1, <1>2, <1>5, <2>1, InputTypes DEF Plain, Fits
<1>7. TopicInv'
  <2>1. \A x \in Ids : /\ wrapper[x].topic = "" => wrapper'[x].topic = ""
                       /\ wrapper'[x].at # "none" => x < nextid
    BY <1>1, <1>2 DEF TopicInv
  <2>2. ASSUME NEW x \in Ids, wrapper'[x].topic # ""
        PROVE  \/ thread'[mqttrunner].pc = "opened" /\ thread'[mqttrunner].id = x
               \/ /\ thread'[mqttrunner].pc = "accept" /\ sid'[mqttrunner] = x
                  /\ wrapper'[x].at = "mapped"
               \/ /\ thread'[mqttrunner].pc = "stopmqtt" /\ thread'[mqttrunner].id = x
                  /\ wrapper'[x].at = "mapped"
    <3>1. i # mqttrunner
      BY <1>1, <1>2, <2>2 DEF TopicInv
    <3>2. thread'[mqttrunner] = thread[mqttrunner] /\ sid'[mqttrunner] = sid[mqttrunner]
      BY <1>3, <1>5, <3>1, Kinds DEF Moved
    <3>. QED BY <1>1, <1>2, <2>2, <3>2 DEF TopicInv
  <2>. QED BY <1>1, <1>2, <1>3, <2>1, <2>2, TopicMoved
<1>8. stop # "no"
  BY <1>1, Parts DEF OwnInv
<1>. QED BY <1>1, <1>3, <1>4, <1>6, <1>7, <1>8, PlainInv

(* The first message of a buffer b goes to its runner. *)
LEMMA HeadTaken ==
  ASSUME NEW b \in Seq(Messages), b # <<>>, NEW q, NEW n \in Nat, NEW lo \in Nat, NEW hi \in Nat,
         Ordered(b, Len(b), q, n, lo, hi)
  PROVE  /\ Head(b) \in Messages /\ Tail(b) \in Seq(Messages)
         /\ lo < Head(b) /\ Head(b) <= hi
         /\ Ordered(Tail(b), Len(Tail(b)), q, n, Head(b), hi)
<1>. DEFINE c == Tail(b)
            m == Len(c)
<1>1. /\ Len(b) = m + 1 /\ m \in Nat /\ Head(b) = b[1] /\ Head(b) \in Messages
      /\ c \in Seq(Messages)
      /\ \A k \in 1..m : c[k] = b[k + 1]
      /\ \A k \in 1..(m + 1) : b[k] \in Messages
  OBVIOUS
<1>2. \A k \in 1..(m + 1) : b[k] \in Nat
  BY <1>1, Kinds
<1>3. Ordered(b, m + 1, q, n, lo, hi)
  BY <1>1
<1>. HIDE DEF c, m
<1>4. lo < b[1] /\ b[1] <= hi /\ Ordered(c, m, q, n, b[1], hi)
  BY <1>1, <1>2, <1>3, TakenOrdered
<1>. QED BY <1>1, <1>4 DEF c, m

LEMMA UnsubscribedOrder ==
  ASSUME NEW v \in Wrapper, Unsubscribed(v.buffer, v.wire, v.subscribed)
  PROVE  \A lo, hi \in Nat : InOrder(v, lo, hi)
<1>. DEFINE q == v.wire
            n == Len(v.wire)
<1>1. v.buffer = <<>> /\ \A k \in 1..n : q[k] = 0
  BY DEF Unsubscribed
<1>2. Len(<<>>) = 0 /\ \A k \in 1..0 : FALSE
  OBVIOUS
<1>. HIDE DEF q, n
<1>3. \A lo, hi \in Nat : Ordered(<<>>, Len(<<>>), q, n, lo, hi)
  BY <1>1, <1>2, Zenon DEF Ordered
<1>. QED BY <1>1, <1>3 DEF InOrder, q, n

(* A message later than all that were taken is taken. *)
LEMMA TakenGrows ==
  ASSUME TypeOK, MessageInv, NEW m \in Messages, LastTaken < m, m <= sent,
         taken' = Append(taken, m)
  PROVE  /\ taken' \in Seq(Messages) /\ TakenInOrder' /\ LastTaken' = m
         /\ \A j \in 1..Len(taken') : taken'[j] <= LastTaken'
<1>. DEFINE n == Len(taken)
            next == taken'
<1>1. /\ next \in Seq(Messages) /\ Len(next) = n + 1 /\ next[n + 1] = m /\ n \in Nat
      /\ \A j \in 1..n : next[j] = taken[j] /\ taken[j] \in Messages
      /\ next # <<>>
  BY DEF TypeOK
<1>2. LastTaken' = m
  BY <1>1 DEF LastTaken
<1>3. \A j \in 1..n : taken[j] <= LastTaken
  BY DEF MessageInv
<1>4. \A j, k \in 1..n : j < k => taken[j] < taken[k]
  BY DEF MessageInv, TakenInOrder
<1>5. LastTaken \in Nat /\ m \in Nat /\ \A j \in 1..n : taken[j] \in Nat
  BY <1>1, Kinds DEF MessageInv
<1>. HIDE DEF n, next
<1>6. \A j \in 1..n : next[j] < m
  BY <1>1, <1>3, <1>5
<1>7. \A j \in 1..(n + 1) : next[j] <= m
  <2>. TAKE j \in 1..(n + 1)
  <2>1. j = n + 1 \/ j \in 1..n
    BY <1>1, LastIndex
  <2>. QED BY <1>1, <1>3, <1>5, <2>1
<1>8. \A j, k \in 1..(n + 1) : j < k => next[j] < next[k]
  <2>. TAKE j, k \in 1..(n + 1)
  <2>1. (j = n + 1 \/ j \in 1..n) /\ (k = n + 1 \/ k \in 1..n)
    BY <1>1, LastIndex
  <2>2. CASE k = n + 1
    BY <1>1, <1>6, <2>1, <2>2
  <2>3. CASE k \in 1..n
    BY <1>1, <1>4, <2>1, <2>3
  <2>. QED BY <2>1, <2>2, <2>3
<1>9. TakenInOrder'
  BY <1>1, <1>8 DEF TakenInOrder, next
<1>. QED BY <1>1, <1>2, <1>7, <1>9 DEF next

LEMMA AcceptInv == ASSUME SessionInv, NEW i \in Inputs, AcceptServer(i) PROVE SessionInv'
<1>. DEFINE s == sid[i]
<1>1. /\ TypeOK /\ TopicInv /\ MessageInv /\ StopInv /\ thread[i].pc = "accept" /\ s \in Ids
      /\ wrapper \in [Ids -> Wrapper] /\ wrapper[s] \in Wrapper
  BY Parts, InputTypes DEF AcceptServer, At, Found
<1>2. UNCHANGED <<bound, sent, nextid, sid, keep, handed, stopping, halted, stop>>
  BY DEF AcceptServer, broking, stopping
<1>3. PICK v \in readFromChannel(wrapper[s]) :
        IF v.buffer = <<>>
        THEN /\ wrapper' = [wrapper EXCEPT ![s] = v]
             /\ UNCHANGED <<clientid, clients, taken, thread>>
        ELSE /\ wrapper' = [wrapper EXCEPT ![s] = removeFirstMQTTMsg(v)]
             /\ taken' = Append(taken, Head(v.buffer))
             /\ GotoWith(Head(v.buffer), "reading", clientid[i])
             /\ NewClient(i)
  BY DEF AcceptServer
<1>. HIDE DEF s
<1>4. Later(wrapper[s], v) /\ v \in Wrapper
  BY <1>1, <1>3, ReadLater DEF Later
<1>5. CASE v.buffer = <<>>
  <2>1. wrapper' = [wrapper EXCEPT ![s] = v] /\ UNCHANGED <<clientid, clients, taken, thread>>
    BY <1>3, <1>5
  <2>2. Quiet
    BY <1>1, <1>4, <2>1, QuietExcept
  <2>3. UNCHANGED <<bound, sent, inputs, thread, history, stopping>>
    BY <1>2, <2>1 DEF inputs, history
  <2>. QED BY <2>2, <2>3, ThreadsSame
<1>6. CASE v.buffer # <<>>
  <2>. DEFINE m == Head(v.buffer)
              u == removeFirstMQTTMsg(v)
  <2>1. /\ wrapper' = [wrapper EXCEPT ![s] = u] /\ taken' = Append(taken, m)
        /\ GotoWith(m, "reading", clientid[i]) /\ NewClient(i)
    BY <1>3, <1>6
  <2>2. /\ LastTaken \in Nat /\ LastTaken <= sent /\ sent \in Nat
        /\ \A w \in Ids : InOrder(wrapper[w], LastTaken, sent)
    BY <1>1, SessionAssumption DEF MessageInv, TypeOK
  <2>3. InOrder(v, LastTaken, sent)
    BY <1>1, <1>4, <2>2 DEF Later, Orderly
  <2>4. v.buffer \in Seq(Messages) /\ v.wire \in Seq(Nat)
    BY <1>4, SequenceTypes
  <2>5. /\ m \in Messages /\ Tail(v.buffer) \in Seq(Messages)
        /\ LastTaken < m /\ m <= sent
        /\ Ordered(Tail(v.buffer), Len(Tail(v.buffer)), v.wire, Len(v.wire), m, sent)
    <3>1. Ordered(v.buffer, Len(v.buffer), v.wire, Len(v.wire), LastTaken, sent)
      BY <2>3 DEF InOrder
    <3>2. Len(v.wire) \in Nat
      BY <2>4
    <3>. QED BY <1>6, <2>2, <2>4, <3>1, <3>2, HeadTaken
  <2>6. v.topic # "" /\ wrapper[s].topic # "" /\ wrapper[s].at = v.at
    BY <1>4, <1>6, <2>3 DEF InOrder, Unsubscribed, Later
  <2>7. /\ u \in Wrapper /\ u.at = v.at /\ u.topic = v.topic /\ u.buffer = Tail(v.buffer)
        /\ u.wire = v.wire
    BY <1>4, <2>5 DEF removeFirstMQTTMsg, Wrapper, Buffers
  <2>. HIDE DEF m, u
  <2>8. /\ wrapper' \in [Ids -> Wrapper] /\ wrapper'[s] = u
        /\ \A w \in Ids : w # s => wrapper'[w] = wrapper[w]
    BY <1>1, <2>1, <2>7
  <2>9. /\ \A w \in Ids : wrapper'[w].at = wrapper[w].at /\ wrapper'[w].topic = wrapper[w].topic
    BY <1>4, <2>6, <2>7, <2>8 DEF Later
  <2>10. \A w \in Ids : w # s => wrapper[w].topic = ""
    BY <1>1, <2>6 DEF TopicInv
  <2>11. \A w \in Ids : InOrder(wrapper'[w], m, sent)
    <3>. TAKE w \in Ids
    <3>0. m \in Nat
      BY <2>5, Kinds
    <3>1. CASE w = s
      <4>1. InOrder(u, m, sent)
        BY <2>5, <2>6, <2>7 DEF InOrder
      <4>. QED BY <2>8, <3>1, <4>1
    <3>2. CASE w # s
      <4>1. wrapper[w] \in Wrapper /\ wrapper'[w] = wrapper[w]
        BY <1>1, <2>8, <3>2
      <4>2. Unsubscribed(wrapper[w].buffer, wrapper[w].wire, wrapper[w].subscribed)
        BY <2>2, <2>10, <3>2 DEF InOrder
      <4>. QED BY <2>2, <3>0, <4>1, <4>2, UnsubscribedOrder
    <3>. QED BY <3>1, <3>2
  <2>12. /\ taken' \in Seq(Messages) /\ TakenInOrder' /\ LastTaken' = m
         /\ \A j \in 1..Len(taken') : taken'[j] <= LastTaken'
    BY <1>1, <2>1, <2>5, TakenGrows
  <2>13. m \in Threads /\ m \notin Inputs /\ m \notin Commands /\ m \notin Owners /\ m # mqttrunner
    BY <2>5, Kinds DEF Owners
  <2>14. thread[m].pc = "none"
    BY <1>1, <2>2, <2>5, Kinds DEF MessageInv
  <2>15. /\ clientid[i] \in Int /\ clientid' \in [Inputs -> Int]
         /\ clients' \in [Inputs -> SUBSET Int]
         /\ clients'[i] = clients[i] \cup {clientid[i]}
    BY <2>1, InputTypes DEF NewClient
  <2>16. "reading" \in Pcs /\ "reading" \in MessagePcs /\ "reading" \notin {"opened", "insert", "erase"}
    BY DEF Pcs, MessagePcs
  <2>17. Moved(m, "reading", clientid[i], thread[m].ref, thread[m].output)
    BY <1>1, <2>1, <2>13, <2>15, <2>16, GotoWithMoved
  <2>18. ThreadsOK'
    BY <1>1, <2>13, <2>16, <2>17, ThreadsFrame DEF Fits
  <2>19. TypeOK'
    BY <1>1, <1>2, <2>8, <2>12, <2>15, <2>18 DEF TypeOK, ThreadsOK
  <2>20. CommandInv'
    BY <1>1, <1>2, <2>13, <2>17, Parts, CommandFrame
  <2>21. MessageInv'
    <3>1. \A n \in Messages : thread'[n].pc # "none" => n <= m
      <4>. TAKE n \in Messages
      <4>1. CASE n = m
        BY <2>5, <4>1, Kinds
      <4>2. CASE n # m
        <5>1. thread'[n] = thread[n]
          BY <2>17, <4>2, Kinds DEF Moved
        <5>2. thread[n].pc # "none" => n <= LastTaken
          BY <1>1 DEF MessageInv
        <5>3. n \in Nat /\ m \in Nat
          BY <2>5, Kinds
        <5>. QED BY <2>2, <2>5, <5>1, <5>2, <5>3
      <4>. QED BY <4>1, <4>2
    <3>2. m \in Nat /\ sent' = sent
      BY <1>2, <2>5, Kinds
    <3>. QED BY <2>5, <2>11, <2>12, <3>1, <3>2 DEF MessageInv
  <2>22. TopicInv'
    <3>1. ThreadsOK /\ nextid \in Nat /\ nextid' = nextid /\ sid' = sid
      BY <1>1, <1>2 DEF TypeOK, ThreadsOK
    <3>2. thread'[mqttrunner] = thread[mqttrunner]
      BY <2>13, <2>17, Kinds DEF Moved
    <3>3. \A t \in Threads : thread'[t].pc \in {"opened", "insert", "erase"} => thread'[t] = thread[t]
      BY <2>17 DEF Moved
    <3>. QED BY <1>1, <2>9, <2>18, <3>1, <3>2, <3>3, TopicFrame
  <2>23. StopInv'
    BY <1>1, <1>2 DEF StopInv
  <2>24. CountInv'
    BY <1>1, <1>2, <2>13, <2>17, Parts, CountFrame
  <2>25. ASSUME stop = "no" PROVE OwnInv'
    <3>1. OwnInv
      BY <2>25, Parts
    <3>2. i = mqttrunner
      <4>1. thread[mqttrunner].pc \in {"start", "opened", "accept"}
        BY <3>1, Kinds DEF OwnInv
      <4>2. s \in Own(mqttrunner)
        <5>1. \/ thread[mqttrunner].pc = "opened" /\ thread[mqttrunner].id = s
              \/ thread[mqttrunner].pc = "accept" /\ sid[mqttrunner] = s
          BY <1>1, <2>6, <4>1 DEF TopicInv
        <5>. QED BY <5>1 DEF Own
      <4>3. s \in Own(i)
        BY <1>1 DEF Own, s
      <4>. QED BY <3>1, <4>2, <4>3, InputTypes, Kinds DEF OwnInv, Owners
    <3>3. sid[mqttrunner] >= 0
      BY <1>1, <3>1, <3>2 DEF OwnInv
    <3>4. UNCHANGED <<sid, nextid>>
      BY <1>2
    <3>5. \A k \in clients'[mqttrunner] :
            \/ k = clientid[i] /\ "reading" # "ended"
            \/ k \in clients[mqttrunner] /\ (thread[m].pc = "none" \/ k # thread[m].id)
      BY <2>14, <2>15, <3>2
    <3>. QED BY <2>5, <2>9, <2>17, <3>1, <3>3, <3>4, <3>5, RunnerMoved
  <2>. QED BY <1>2, <2>19, <2>20, <2>21, <2>22, <2>23, <2>24, <2>25 DEF SessionInv
<1>. QED BY <1>5, <1>6

-----------------------------------------------------------------------------
(* The invariant holds at first, and every step keeps it. *)

LEMMA InitSession == Init => SessionInv
<1>. SUFFICES ASSUME Init PROVE SessionInv
  OBVIOUS
<1>1. /\ NoWrapper \in Wrapper /\ NoWrapper.topic = "" /\ NoWrapper.at = "none"
      /\ \A lo, hi \in Nat : InOrder(NoWrapper, lo, hi)
  <2>1. /\ NoWrapper \in Wrapper /\ NoWrapper.topic = "" /\ NoWrapper.at = "none"
        /\ NoWrapper.buffer = <<>> /\ NoWrapper.wire = <<>> /\ NoWrapper.subscribed = "no"
    BY EmptySequences DEF NoWrapper, Wrapper
  <2>. QED BY <2>1, EmptyInOrder
<1>2. \A w \in Ids : wrapper[w] = NoWrapper
  BY DEF Init
<1>3. \A t \in Threads : /\ thread[t].pc = (IF t \in Inputs THEN "start" ELSE "none")
                         /\ thread[t].output = "some" /\ thread[t] \in Thread
  <2>. TAKE t \in Threads
  <2>. DEFINE pc == IF t \in Inputs THEN "start" ELSE "none"
              none == -1
  <2>1. thread[t] = [pc |-> pc, id |-> none, ref |-> none, output |-> "some"]
    BY DEF Init
  <2>2. none \in Int /\ pc \in InputPcs \cup CommandPcs \cup MessagePcs
    BY DEF InputPcs, CommandPcs
  <2>3. pc = IF t \in Inputs THEN "start" ELSE "none"
    OBVIOUS
  <2>. HIDE DEF none, pc
  <2>. QED BY <2>1, <2>2, <2>3 DEF Thread
<1>4. TypeOK
  <2>1. thread \in [Threads -> Thread]
    BY <1>3 DEF Init
  <2>2. wrapper \in [Ids -> Wrapper]
    BY <1>1 DEF Init
  <2>3. /\ \A i \in Inputs : thread[i].pc \in InputPcs
        /\ \A c \in Commands : thread[c].pc \in CommandPcs
        /\ \A m \in Messages : thread[m].pc \in MessagePcs
    BY <1>3, Kinds DEF InputPcs, CommandPcs, MessagePcs
  <2>4. sent \in 0..bound.messages /\ bound \in Bounds
    BY SessionAssumption DEF Init
  <2>5. /\ sid \in [Inputs -> Int] /\ clientid \in [Inputs -> Int]
        /\ clients \in [Inputs -> SUBSET Int] /\ handed \in [Commands -> Nat]
    BY DEF Init
  <2>6. taken \in Seq(Messages)
    BY DEF Init
  <2>. QED BY <2>1, <2>2, <2>3, <2>4, <2>5, <2>6 DEF Init, TypeOK
<1>5. CommandInv
  BY <1>3, Kinds DEF Init, CommandInv
<1>6. MessageInv
  <2>1. taken = <<>> /\ sent = 0 /\ LastTaken = 0 /\ Len(<<>>) = 0
    BY DEF Init, LastTaken
  <2>2. \A w \in Ids : InOrder(wrapper[w], LastTaken, sent)
    BY <1>1, <1>2, <2>1
  <2>3. \A m \in Messages : thread[m].pc = "none"
    BY <1>3, Kinds
  <2>. QED BY <2>1, <2>2, <2>3 DEF MessageInv, TakenInOrder
<1>7. TopicInv
  BY <1>1, <1>2, <1>3 DEF TopicInv
<1>8. StopInv
  BY DEF Init, StopInv
<1>9. CountInv
  <2>1. Pending = Commands \cup {mqttwriter} \cup {mqttrunner}
    BY <1>3, Kinds DEF Pending
  <2>2. /\ IsFiniteSet(Commands \cup {mqttwriter})
        /\ Cardinality(Commands \cup {mqttwriter}) = Cardinality(Commands) + 1
    BY SessionAssumption, Kinds, FS_AddElement
  <2>3. Cardinality(Pending) = Cardinality(Commands) + 1 + 1
    <3>1. mqttrunner \notin Commands \cup {mqttwriter}
      BY Kinds
    <3>. QED BY <2>1, <2>2, <3>1, FS_AddElement
  <2>. QED BY <2>3, PendingFinite DEF Init, CountInv
<1>10. OwnInv
  <2>1. \A i \in Inputs : thread[i].pc = "start" /\ sid[i] = -1
    BY <1>3, Kinds DEF Init
  <2>2. \A c \in Commands : thread[c].pc = "none"
    BY <1>3, Kinds
  <2>3. \A m \in Messages : thread[m].pc = "none"
    BY <1>3, Kinds
  <2>4. \A t \in Owners : Own(t) = {}
    BY <2>1, <2>2 DEF Own, Owners
  <2>5. clients[mqttrunner] = {}
    BY Kinds DEF Init
  <2>6. \A i \in Inputs : sid[i] >= 0 <=> thread[i].pc = "accept"
    BY <2>1
  <2>. QED BY <2>1, <2>2, <2>3, <2>4, <2>5, <2>6 DEF OwnInv
<1>. QED BY <1>4, <1>5, <1>6, <1>7, <1>8, <1>9, <1>10 DEF SessionInv

LEMMA SessionStep == SessionInv /\ [Next]_vars => SessionInv'
<1>. SUFFICES ASSUME SessionInv, [Next]_vars PROVE SessionInv'
  OBVIOUS
<1>1. CASE UNCHANGED vars
  <2>1. UNCHANGED <<bound, sent, inputs, thread, history, stopping>> /\ UNCHANGED wrapper
    BY <1>1 DEF vars, broking
  <2>. QED BY <2>1, Parts, QuietSame, ThreadsSame
<1>2. CASE Outside
  BY <1>2, Parts, OutsideQuiet, ThreadsSame
<1>3. CASE DeviceSends
  BY <1>3, SendsInv
<1>4. ASSUME NEW t \in Threads, Releasing(t) PROVE SessionInv'
  BY <1>4, StopMqttInv, EraseInv DEF Releasing
<1>5. ASSUME NEW i \in Inputs, Serving(i) PROVE SessionInv'
  <2>1. CASE OpenServer(i)
    BY <2>1, InitInv, Kinds DEF OpenServer, At
  <2>. QED BY <1>5, <2>1, OpenedInv, AcceptInv, AcceptEndsInv, CloseServerInv DEF Serving
<1>6. ASSUME NEW m \in Messages, Running(m) PROVE SessionInv'
  BY <1>6, ReadMessageInv, RunnerClosesInv DEF Running
<1>7. ASSUME NEW c \in Commands, ExecuteCommand(c) \/ Executing(c) PROVE SessionInv'
  BY <1>7, ExecuteInv, OpenInv, InsertInv, ReadNothingInv, WriteInv, FlushInv, AnswerInv
     DEF Executing
<1>8. CASE Stop \/ StopServers \/ StopClients \/ StopRunner
  BY <1>8, StoppingInv
<1>. QED BY <1>1, <1>2, <1>3, <1>4, <1>5, <1>6, <1>7, <1>8 DEF Next, Outside

-----------------------------------------------------------------------------
(* What the invariant says of the session. *)

LEMMA QuietAfterStop == SessionInv => StoppedIsQuiet
<1>. SUFFICES ASSUME SessionInv, stop = "done"
              PROVE  /\ serverRunners = {} /\ clientRunners = {}
                     /\ \A w \in Ids : wrapper[w].subscribed = "no"
  BY DEF StoppedIsQuiet
<1>1. (\A i \in Inputs : thread[i].pc = "ended") /\ clientRunners = {}
  BY Parts DEF StopInv
<1>2. \A w \in Ids : wrapper[w].topic = ""
  BY <1>1, Parts, Kinds DEF TopicInv
<1>3. \A w \in Ids : wrapper[w].subscribed = "no"
  BY <1>2, Parts DEF MessageInv, InOrder, Unsubscribed
<1>. QED BY <1>1, <1>3 DEF serverRunners

LEMMA UnstoppedIsSafe == SessionInv => OnlyStopHurts
<1>. SUFFICES ASSUME SessionInv, stop = "no"
              PROVE  /\ \A t \in Threads : ~Dangling(t)
                     /\ serverRunners = Inputs
                     /\ \A k \in clients[mqttrunner] : \E m \in clientRunners : thread[m].id = k
  BY Parts DEF OnlyStopHurts, TypeOK
<1>1. OwnInv /\ TypeOK
  BY Parts
<1>2. \A t \in Owners : \A w \in Own(t) : wrapper[w].at = StateOf(t) /\ w \in Ids
  BY <1>1 DEF OwnInv
<1>3. /\ \A i \in Inputs : thread[i].pc \in {"start", "opened", "accept"}
      /\ \A i \in Inputs : sid[i] \in Int /\ (sid[i] >= 0 <=> thread[i].pc = "accept")
      /\ \A i \in Inputs : thread[i].pc = "accept" => sid[i] \in Own(i) /\ StateOf(i) = "mapped"
  BY <1>1 DEF OwnInv, TypeOK, Own, StateOf
<1>4. \A i \in Inputs : thread[i].pc = "accept" => wrapper[sid[i]].at = "mapped"
  BY <1>2, <1>3 DEF Owners
<1>5. Served => wrapper[sid[mqttwriter]].at = "mapped"
  BY <1>3, <1>4, Kinds DEF Served
<1>6. ASSUME NEW i \in Inputs PROVE ~Dangling(i)
  BY <1>3, <1>4, <1>6 DEF Dangling
<1>7. ASSUME NEW c \in Commands PROVE ~Dangling(c)
  <2>1. /\ thread[c].pc \in CommandPcs /\ InputOf(c) = mqttwriter /\ c \in Owners
        /\ thread[c].pc # "accept" /\ sid[mqttwriter] \in Int
    BY <1>1, CommandTypes DEF TypeOK, Owners, CommandPcs
  <2>2. thread[c].pc = "flush" => wrapper[thread[c].ref].at = "mapped"
    <3>1. thread[c].pc = "flush" /\ thread[c].ref = sid[mqttwriter] => Served
      BY <1>1 DEF OwnInv, Served
    <3>2. thread[c].pc = "flush" /\ thread[c].ref # sid[mqttwriter] =>
            thread[c].ref \in Own(c) /\ StateOf(c) = "mapped"
      BY DEF Own, StateOf
    <3>. QED BY <1>2, <1>5, <2>1, <3>1, <3>2
  <2>3. thread[c].pc \in {"reading", "write"} /\ ~Served => wrapper[thread[c].id].at = "mapped"
    <3>1. thread[c].pc \in {"reading", "write"} /\ ~Served =>
            thread[c].id \in Own(c) /\ StateOf(c) = "mapped"
      BY DEF Own, StateOf
    <3>. QED BY <1>2, <2>1, <3>1
  <2>4. thread[c].pc = "stopmqtt" => wrapper[thread[c].id].at = "mapped"
    <3>1. thread[c].pc = "stopmqtt" => thread[c].id \in Own(c) /\ StateOf(c) = "mapped"
      BY DEF Own, StateOf
    <3>. QED BY <1>2, <2>1, <3>1
  <2>5. sid[mqttwriter] < 0 <=> ~Served
    BY <2>1 DEF Served
  <2>6. Writer(c) = IF Served THEN sid[mqttwriter] ELSE thread[c].id
    BY <2>5 DEF Writer
  <2>. QED BY <1>5, <2>1, <2>2, <2>3, <2>4, <2>5, <2>6 DEF Dangling, Deleted
<1>8. ASSUME NEW m \in Messages PROVE ~Dangling(m)
  <2>1. /\ thread[m].pc \in {"none", "reading", "close", "ended"} /\ InputOf(m) = mqttrunner
        /\ thread[m].pc # "none" => sid[mqttrunner] >= 0
    BY <1>1, Kinds DEF OwnInv, InputOf
  <2>2. thread[m].pc = "reading" => ~(sid[InputOf(m)] < 0)
    BY <1>3, <2>1, Kinds
  <2>. QED BY <2>1, <2>2 DEF Dangling
<1>9. \A t \in Threads : ~Dangling(t)
  BY <1>6, <1>7, <1>8, Kinds
<1>10. serverRunners = Inputs
  BY <1>3 DEF serverRunners
<1>. QED BY <1>1, <1>9, <1>10 DEF OwnInv

(* The inductive invariant holds, whatever the number of commands,         *)
(* messages and failures.                                                  *)
THEOREM SessionHolds == Spec => []SessionInv
BY InitSession, SessionStep, PTL DEF Spec

(* Through failures of the broker, broken links, retries of runLoop() and  *)
(* a stop() at any time, a command that is answered was given to the       *)
(* library once, and no message of a device is repeated or overtaken on    *)
(* its way to a runner (acceptServer(), on_message() and writeClient()).   *)
THEOREM CrossedOnce == Spec => []MessagesOnce
<1>1. SessionInv => MessagesOnce
  <2>. SUFFICES ASSUME SessionInv PROVE MessagesOnce
    OBVIOUS
  <2>1. HandedOnce
    BY Parts DEF CommandInv, HandedOnce
  <2>2. TakenInOrder
    BY Parts DEF MessageInv
  <2>. QED BY <2>1, <2>2 DEF MessagesOnce
<1>. QED BY <1>1, SessionHolds, PTL

(* stop() leaves no server thread, runner or subscription behind, and as   *)
(* long as it is not called no thread uses a wrapper that stopMQTT()       *)
(* deleted, no server thread ends, and every client has its runner.        *)
THEOREM OnlyStopTakesAway == Spec => []StopIsClean
<1>1. SessionInv => StopIsClean
  BY QuietAfterStop, UnstoppedIsSafe DEF StopIsClean
<1>. QED BY <1>1, SessionHolds, PTL

LEMMA LeastOf ==
  ASSUME NEW bad \in SUBSET Nat, bad # {}
  PROVE  \E n \in bad : \A m \in bad : n <= m
<1>1. PICK n \in bad : \A m \in bad : ~(<<m, n>> \in OpToRel(<, Nat))
  BY NatLessThanWellFounded, WFMin
<1>2. ASSUME NEW m \in bad PROVE n <= m
  <2>1. m \in Nat /\ n \in Nat
    OBVIOUS
  <2>2. ASSUME m < n PROVE <<m, n>> \in OpToRel(<, Nat)
    BY <2>1, <2>2 DEF OpToRel
  <2>3. ~(m < n)
    BY <1>1, <2>2, Zenon
  <2>. QED BY <2>1, <2>3
<1>. QED BY <1>2

Iterates(f, D, N, base, step) ==
  /\ f \in [0..N -> D] /\ f[0] = base
  /\ \A i \in 1..N : f[i] = step[<<i, f[i - 1]>>]

LEMMA IterationExists ==
  ASSUME NEW D, NEW N \in Nat, NEW base \in D, NEW step \in [(1..N) \X D -> D]
  PROVE  \E f : Iterates(f, D, N, base, step)
<1>. DEFINE Upto(f, k) == /\ f \in [0..k -> D] /\ f[0] = base
                          /\ \A i \in 1..k : f[i] = step[<<i, f[i - 1]>>]
            bad == {k \in 0..N : ~\E f : Upto(f, k)}
<1>1. bad = {}
  <2>1. SUFFICES ASSUME bad # {} PROVE FALSE
    OBVIOUS
  <2>2. PICK k \in bad : \A m \in bad : k <= m
    <3>. HIDE DEF Upto
    <3>1. bad \in SUBSET Nat
      OBVIOUS
    <3>. HIDE DEF bad
    <3>. QED BY <2>1, <3>1, LeastOf
  <2>3. k \in 0..N /\ ~\E f : Upto(f, k)
    BY <2>2
  <2>4. CASE k = 0
    <3>1. Upto([i \in 0..0 |-> base], 0)
      OBVIOUS
    <3>. QED BY <2>3, <2>4, <3>1
  <2>5. CASE k # 0
    <3>1. k - 1 \in 0..N /\ ~(k <= k - 1)
      BY <2>3, <2>5
    <3>2. k - 1 \notin bad
      BY <2>2, <3>1
    <3>3. PICK f : Upto(f, k - 1)
      BY <3>1, <3>2
    <3>. DEFINE v == step[<<k, f[k - 1]>>]
                g == [i \in 0..k |-> IF i = k THEN v ELSE f[i]]
    <3>4. f \in [0..(k - 1) -> D] /\ k - 1 \in 0..(k - 1) /\ k \in 1..N
      BY <2>3, <2>5, <3>3
    <3>5. v \in D
      BY <3>4
    <3>. HIDE DEF v
    <3>6. g \in [0..k -> D]
      BY <2>3, <3>4, <3>5
    <3>7. g[0] = base
      BY <2>3, <2>5, <3>3
    <3>8. \A i \in 1..k : g[i] = step[<<i, g[i - 1]>>]
      <4>. TAKE i \in 1..k
      <4>1. i - 1 \in 0..k /\ i - 1 # k /\ g[i - 1] = f[i - 1]
        BY <2>3
      <4>2. CASE i = k
        BY <2>3, <4>1, <4>2 DEF v
      <4>3. CASE i # k
        <5>1. i \in 1..(k - 1) /\ i \in 0..k
          BY <2>3, <4>3
        <5>2. f[i] = step[<<i, f[i - 1]>>] /\ g[i] = f[i]
          BY <3>3, <4>3, <5>1
        <5>. QED BY <4>1, <5>2
      <4>. QED BY <4>2, <4>3
    <3>. HIDE DEF g
    <3>9. Upto(g, k)
      BY <3>6, <3>7, <3>8
    <3>. QED BY <2>3, <3>9
  <2>. QED BY <2>4, <2>5
<1>2. PICK f : Upto(f, N)
  BY <1>1
<1>. QED BY <1>2 DEF Iterates

LEMMA IterationTyped ==
  ASSUME NEW D, NEW N \in Nat, NEW f, f[0] \in D,
         \A i \in 1..N : f[i - 1] \in D => f[i] \in D
  PROVE  \A i \in 0..N : f[i] \in D
<1>. DEFINE bad == {i \in 0..N : f[i] \notin D}
<1>1. SUFFICES ASSUME bad # {} PROVE FALSE
  OBVIOUS
<1>2. bad \in SUBSET Nat
  OBVIOUS
<1>3. PICK k \in bad : \A m \in bad : k <= m
  BY <1>1, <1>2, LeastOf
<1>4. k \in 1..N /\ k - 1 \in 0..N /\ ~(k <= k - 1)
  BY <1>3
<1>5. f[k - 1] \in D
  BY <1>3, <1>4
<1>. QED BY <1>3, <1>4, <1>5

-----------------------------------------------------------------------------
(* Modbus.  The CRC of a frame of bytes is two bytes, and it changes when  *)
(* one byte of the frame does.                                             *)

Byte == 0..255
Pair == Byte \X Byte

(* Where each low byte stands in its table: they are all different. *)
place_of == <<
   1, 4, 7, 6, 16, 13, 10, 11, 31, 30, 25, 28, 18, 19, 24, 21,
   64, 61, 58, 59, 49, 52, 55, 54, 34, 35, 40, 37, 47, 46, 41, 44,
   127, 126, 121, 124, 114, 115, 120, 117, 97, 100, 103, 102, 112, 109, 106, 107,
   66, 67, 72, 69, 79, 78, 73, 76, 96, 93, 90, 91, 81, 84, 87, 86,
   256, 253, 250, 251, 241, 244, 247, 246, 226, 227, 232, 229, 239, 238, 233, 236,
   193, 196, 199, 198, 208, 205, 202, 203, 223, 222, 217, 220, 210, 211, 216, 213,
   130, 131, 136, 133, 143, 142, 137, 140, 160, 157, 154, 155, 145, 148, 151, 150,
   191, 190, 185, 188, 178, 179, 184, 181, 161, 164, 167, 166, 176, 173, 170, 171,
   255, 254, 249, 252, 242, 243, 248, 245, 225, 228, 231, 230, 240, 237, 234, 235,
   194, 195, 200, 197, 207, 206, 201, 204, 224, 221, 218, 219, 209, 212, 215, 214,
   129, 132, 135, 134, 144, 141, 138, 139, 159, 158, 153, 156, 146, 147, 152, 149,
   192, 189, 186, 187, 177, 180, 183, 182, 162, 163, 168, 165, 175, 174, 169, 172,
   2, 3, 8, 5, 15, 14, 9, 12, 32, 29, 26, 27, 17, 20, 23, 22,
   63, 62, 57, 60, 50, 51, 56, 53, 33, 36, 39, 38, 48, 45, 42, 43,
   128, 125, 122, 123, 113, 116, 119, 118, 98, 99, 104, 101, 111, 110, 105, 108,
   65, 68, 71, 70, 80, 77, 74, 75, 95, 94, 89, 92, 82, 83, 88, 85>>

LEMMA LowBytesDiffer ==
  ASSUME NEW i \in 1..256, NEW j \in 1..256, table_crc_lo[i] = table_crc_lo[j]
  PROVE  i = j
<1>1. \A k \in 1..128 : place_of[table_crc_lo[k] + 1] = k
  BY DEF place_of, table_crc_lo
<1>2. \A k \in 129..256 : place_of[table_crc_lo[k] + 1] = k
  BY DEF place_of, table_crc_lo
<1>3. \A k \in 1..256 : place_of[table_crc_lo[k] + 1] = k
  <2>. TAKE k \in 1..256
  <2>1. k \in 1..128 \/ k \in 129..256
    OBVIOUS
  <2>. QED BY <1>1, <1>2, <2>1
<1>. QED BY <1>3

LEMMA EntriesTyped ==
  ASSUME NEW i \in 1..256
  PROVE  table_crc_hi[i] \in Byte /\ table_crc_lo[i] \in Byte
<1>1. table_crc_hi \in Seq(Byte) /\ table_crc_lo \in Seq(Byte)
  BY DEF table_crc_hi, table_crc_lo, Byte
<1>2. Len(table_crc_hi) = 256 /\ Len(table_crc_lo) = 256
  BY DEF table_crc_hi, table_crc_lo
<1>3. i \in 1..Len(table_crc_hi) /\ i \in 1..Len(table_crc_lo)
  BY <1>2
<1>. QED BY <1>1, <1>3, ElementOfSeq

LEMMA XorTyped ==
  ASSUME NEW a \in Byte, NEW b \in Byte
  PROVE  XorByte(a, b) \in Byte /\ XorByte(a, b) + 1 \in 1..256
<1>1. XorByte(a, b) \in Byte
  BY DEF XorByte, Byte
<1>. QED BY <1>1 DEF Byte

(* A byte is its bits. *)
Bit(x, p) == (x \div p) % 2

Value(b) == b[1] + 2 * b[2] + 4 * b[3] + 8 * b[4] + 16 * b[5] + 32 * b[6] + 64 * b[7] + 128 * b[8]

BitsOf(x) == <<Bit(x, 1), Bit(x, 2), Bit(x, 4), Bit(x, 8), Bit(x, 16), Bit(x, 32), Bit(x, 64), Bit(x, 128)>>

LEMMA ValuesDiffer ==
  ASSUME NEW b \in [1..8 -> {0, 1}], NEW d \in [1..8 -> {0, 1}], Value(b) = Value(d)
  PROVE  b = d
<1>1. \A i \in 1..8 : b[i] \in {0, 1} /\ d[i] \in {0, 1}
  OBVIOUS
<1>2. b[1] = d[1] /\ b[2] = d[2] /\ b[3] = d[3] /\ b[4] = d[4]
      /\ b[5] = d[5] /\ b[6] = d[6] /\ b[7] = d[7] /\ b[8] = d[8]
  BY <1>1 DEF Value
<1>3. \A i \in 1..8 : i = 1 \/ i = 2 \/ i = 3 \/ i = 4 \/ i = 5 \/ i = 6 \/ i = 7 \/ i = 8
  OBVIOUS
<1>4. \A i \in 1..8 : b[i] = d[i]
  BY <1>2, <1>3
<1>. QED BY <1>4

LEMMA BitsAreValue ==
  ASSUME NEW a \in Byte
  PROVE  BitsOf(a) \in [1..8 -> {0, 1}] /\ Value(BitsOf(a)) = a
<1>1. /\ Bit(a, 1) \in {0, 1} /\ Bit(a, 2) \in {0, 1} /\ Bit(a, 4) \in {0, 1}
      /\ Bit(a, 8) \in {0, 1} /\ Bit(a, 16) \in {0, 1} /\ Bit(a, 32) \in {0, 1}
      /\ Bit(a, 64) \in {0, 1} /\ Bit(a, 128) \in {0, 1}
  BY DEF Bit, Byte
<1>2. a = Bit(a, 1) + 2 * Bit(a, 2) + 4 * Bit(a, 4) + 8 * Bit(a, 8) + 16 * Bit(a, 16)
          + 32 * Bit(a, 32) + 64 * Bit(a, 64) + 128 * Bit(a, 128)
  BY SMTT(60) DEF Bit, Byte
<1>. QED BY <1>1, <1>2 DEF BitsOf, Value

(* Of an exclusive or and one of its sides the other is known. *)
Sides(a, b) == [i \in 1..8 |-> IF BitsOf(a)[i] = BitsOf(b)[i] THEN 0 ELSE 1]

LEMMA XorIsSides ==
  ASSUME NEW a \in Byte, NEW b \in Byte
  PROVE  Sides(a, b) \in [1..8 -> {0, 1}] /\ XorByte(a, b) = Value(Sides(a, b))
<1>1. Sides(a, b) \in [1..8 -> {0, 1}]
  BY DEF Sides
<1>2. XorByte(a, b) = Value(Sides(a, b))
  BY DEF XorByte, Value, Sides, BitsOf, Bit
<1>. QED BY <1>1, <1>2

LEMMA SidesTell ==
  ASSUME NEW a \in Byte, NEW b \in Byte, NEW c \in Byte, NEW d \in Byte, Sides(a, b) = Sides(c, d)
  PROVE  (b = d => a = c) /\ (a = c => b = d)
<1>1. \A i \in 1..8 : (BitsOf(a)[i] = BitsOf(b)[i]) <=> (BitsOf(c)[i] = BitsOf(d)[i])
  BY DEF Sides
<1>2. /\ BitsOf(a) \in [1..8 -> {0, 1}] /\ BitsOf(b) \in [1..8 -> {0, 1}]
      /\ BitsOf(c) \in [1..8 -> {0, 1}] /\ BitsOf(d) \in [1..8 -> {0, 1}]
      /\ Value(BitsOf(a)) = a /\ Value(BitsOf(b)) = b
      /\ Value(BitsOf(c)) = c /\ Value(BitsOf(d)) = d
  BY BitsAreValue
<1>3. ASSUME b = d PROVE a = c
  <2>1. \A i \in 1..8 : BitsOf(a)[i] = BitsOf(c)[i]
    BY <1>1, <1>2, <1>3
  <2>2. BitsOf(a) = BitsOf(c)
    BY <1>2, <2>1
  <2>. QED BY <1>2, <2>2
<1>4. ASSUME a = c PROVE b = d
  <2>1. \A i \in 1..8 : BitsOf(b)[i] = BitsOf(d)[i]
    BY <1>1, <1>2, <1>4
  <2>2. BitsOf(b) = BitsOf(d)
    BY <1>2, <2>1
  <2>. QED BY <1>2, <2>2
<1>. QED BY <1>3, <1>4

LEMMA XorTells ==
  ASSUME NEW a \in Byte, NEW b \in Byte, NEW c \in Byte, NEW d \in Byte,
         XorByte(a, b) = XorByte(c, d)
  PROVE  (b = d => a = c) /\ (a = c => b = d)
<1>1. Sides(a, b) = Sides(c, d)
  BY XorIsSides, ValuesDiffer
<1>. QED BY <1>1, SidesTell

LEMMA StepTyped ==
  ASSUME NEW c \in Pair, NEW b \in Byte
  PROVE  CrcStep(c, b) \in Pair
<1>1. c[1] \in Byte /\ c[2] \in Byte
  BY DEF Pair
<1>2. XorByte(c[1], b) + 1 \in 1..256
  BY <1>1, XorTyped
<1>3. /\ table_crc_hi[XorByte(c[1], b) + 1] \in Byte
      /\ table_crc_lo[XorByte(c[1], b) + 1] \in Byte
  BY <1>2, EntriesTyped
<1>4. XorByte(c[2], table_crc_hi[XorByte(c[1], b) + 1]) \in Byte
  BY <1>1, <1>3, XorTyped
<1>. QED BY <1>3, <1>4 DEF CrcStep, Pair

(* A step keeps apart what is kept of two frames, and two bytes.           *)
LEMMA StepTellsApart ==
  ASSUME NEW c \in Pair, NEW d \in Pair, NEW b \in Byte, NEW e \in Byte,
         CrcStep(c, b) = CrcStep(d, e)
  PROVE  (c = d => b = e) /\ (b = e => c = d)
<1>. DEFINE i == XorByte(c[1], b) + 1
            j == XorByte(d[1], e) + 1
<1>1. c[1] \in Byte /\ c[2] \in Byte /\ d[1] \in Byte /\ d[2] \in Byte
      /\ c = <<c[1], c[2]>> /\ d = <<d[1], d[2]>>
  BY DEF Pair
<1>2. i \in 1..256 /\ j \in 1..256 /\ XorByte(c[1], b) \in Byte /\ XorByte(d[1], e) \in Byte
  BY <1>1, XorTyped
<1>3. /\ XorByte(c[2], table_crc_hi[i]) = XorByte(d[2], table_crc_hi[j])
      /\ table_crc_lo[i] = table_crc_lo[j]
  BY DEF CrcStep
<1>4. i = j
  <2>. HIDE DEF i, j
  <2>. QED BY <1>2, <1>3, LowBytesDiffer
<1>5. XorByte(c[1], b) = XorByte(d[1], e)
  <2>1. \A m, n \in Byte : m + 1 = n + 1 => m = n
    BY DEF Byte
  <2>. QED BY <1>2, <1>4, <2>1
<1>6. ASSUME c = d PROVE b = e
  BY <1>1, <1>5, <1>6, XorTells
<1>7. ASSUME b = e PROVE c = d
  <2>1. c[1] = d[1]
    BY <1>1, <1>5, <1>7, XorTells
  <2>2. table_crc_hi[i] \in Byte
    <3>. HIDE DEF i
    <3>. QED BY <1>2, EntriesTyped
  <2>3. XorByte(c[2], table_crc_hi[i]) = XorByte(d[2], table_crc_hi[i])
    BY <1>3, <1>4
  <2>4. c[2] = d[2]
    <3>. HIDE DEF i
    <3>. QED BY <1>1, <2>2, <2>3, XorTells
  <2>. QED BY <1>1, <2>1, <2>4
<1>. QED BY <1>6, <1>7

Reduces(f, frame) ==
  /\ f \in [0..Len(frame) -> Pair] /\ f[0] = <<255, 255>>
  /\ \A n \in 1..Len(frame) : f[n] = CrcStep(f[n - 1], frame[n])

LEMMA CrcReduces ==
  ASSUME NEW frame \in Seq(Byte)
  PROVE  \E f : Reduces(f, frame) /\ Crc(frame) = f[Len(frame)]
<1>. DEFINE N == Len(frame)
            Is(f) == f = [n \in 0..N |-> IF n = 0 THEN <<255, 255>> ELSE CrcStep(f[n - 1], frame[n])]
            g == CHOOSE f : Is(f)
            step == [x \in (1..N) \X Pair |-> CrcStep(x[2], frame[x[1]])]
<1>1. N \in Nat /\ \A n \in 1..N : frame[n] \in Byte
  OBVIOUS
<1>2. Crc(frame) = g[N]
  BY DEF Crc, CrcFrom
<1>. HIDE DEF N
<1>3. <<255, 255>> \in Pair
  BY DEF Pair, Byte
<1>4. step \in [(1..N) \X Pair -> Pair]
  <2>1. \A x \in (1..N) \X Pair : CrcStep(x[2], frame[x[1]]) \in Pair
    <3>. TAKE x \in (1..N) \X Pair
    <3>1. x[2] \in Pair /\ frame[x[1]] \in Byte
      BY <1>1
    <3>. QED BY <3>1, StepTyped
  <2>. QED BY <2>1
<1>5. PICK f : Iterates(f, Pair, N, <<255, 255>>, step)
  <2>. HIDE DEF step
  <2>. QED BY <1>1, <1>3, <1>4, IterationExists
<1>6. /\ f \in [0..N -> Pair] /\ f[0] = <<255, 255>>
      /\ \A n \in 1..N : f[n] = CrcStep(f[n - 1], frame[n])
  <2>1. /\ f \in [0..N -> Pair] /\ f[0] = <<255, 255>>
        /\ \A n \in 1..N : f[n] = step[<<n, f[n - 1]>>]
    BY <1>5 DEF Iterates
  <2>2. \A n \in 1..N : <<n, f[n - 1]>> \in (1..N) \X Pair
    BY <1>1, <2>1
  <2>. QED BY <2>1, <2>2
<1>7. Is(f)
  <2>1. \A n \in 0..N : f[n] = IF n = 0 THEN <<255, 255>> ELSE CrcStep(f[n - 1], frame[n])
    <3>. TAKE n \in 0..N
    <3>1. n = 0 \/ n \in 1..N
      BY <1>1
    <3>. QED BY <1>6, <3>1
  <2>2. f = [n \in 0..N |-> f[n]]
    BY <1>6
  <2>. QED BY <2>1, <2>2
<1>8. Is(g)
  <2>. HIDE DEF Is
  <2>. QED BY <1>7
<1>9. \A n \in 0..N : g[n] = IF n = 0 THEN <<255, 255>> ELSE CrcStep(g[n - 1], frame[n])
  <2>. HIDE DEF g
  <2>. QED BY <1>8
<1>10. DOMAIN g = 0..N /\ g[0] = <<255, 255>> /\ \A n \in 1..N : g[n] = CrcStep(g[n - 1], frame[n])
  <2>1. 0 \in 0..N /\ \A n \in 1..N : n \in 0..N /\ n # 0
    BY <1>1
  <2>2. DOMAIN g = 0..N
    <3>. HIDE DEF g
    <3>. QED BY <1>8
  <2>. HIDE DEF g
  <2>. QED BY <1>9, <2>1, <2>2
<1>. HIDE DEF g
<1>11. \A n \in 1..N : g[n - 1] \in Pair => g[n] \in Pair
  BY <1>1, <1>10, StepTyped
<1>12. \A n \in 0..N : g[n] \in Pair
  BY <1>1, <1>3, <1>10, <1>11, IterationTyped
<1>13. g \in [0..N -> Pair]
  <2>1. g = [n \in 0..N |-> g[n]]
    <3>. HIDE DEF Is
    <3>1. Is(g) => g = [n \in 0..N |-> g[n]]
      BY <1>9 DEF Is
    <3>. QED BY <1>8, <3>1
  <2>. QED BY <1>12, <2>1
<1>. QED BY <1>2, <1>10, <1>13 DEF Reduces, N

LEMMA CrcTyped ==
  ASSUME NEW frame \in Seq(Byte)
  PROVE  Crc(frame) \in Pair /\ Crc(frame) \in Seq(Byte) /\ Len(Crc(frame)) = 2
<1>1. PICK f : Reduces(f, frame) /\ Crc(frame) = f[Len(frame)]
  BY CrcReduces
<1>2. Crc(frame) \in Pair
  <2>1. Len(frame) \in 0..Len(frame)
    OBVIOUS
  <2>. QED BY <1>1, <2>1 DEF Reduces
<1>3. /\ Crc(frame) = <<Crc(frame)[1], Crc(frame)[2]>>
      /\ Crc(frame)[1] \in Byte /\ Crc(frame)[2] \in Byte
  BY <1>2 DEF Pair
<1>4. \A a, b \in Byte : <<a, b>> \in Seq(Byte) /\ Len(<<a, b>>) = 2
  OBVIOUS
<1>. QED BY <1>2, <1>3, <1>4

(* Two frames that differ in one byte have different CRCs. *)
LEMMA CrcTellsApart ==
  ASSUME NEW x \in Seq(Byte), NEW y \in Seq(Byte), Len(x) = Len(y),
         NEW i \in 1..Len(x), x[i] # y[i], \A j \in 1..Len(x) : j # i => x[j] = y[j]
  PROVE  Crc(x) # Crc(y)
<1>. DEFINE N == Len(x)
<1>1. PICK f : Reduces(f, x) /\ Crc(x) = f[N]
  BY CrcReduces
<1>2. PICK g : Reduces(g, y) /\ Crc(y) = g[N]
  BY CrcReduces
<1>3. N \in Nat /\ \A n \in 1..N : x[n] \in Byte /\ y[n] \in Byte
  OBVIOUS
<1>4. /\ f \in [0..N -> Pair] /\ g \in [0..N -> Pair] /\ f[0] = g[0]
      /\ \A n \in 1..N : f[n] = CrcStep(f[n - 1], x[n]) /\ g[n] = CrcStep(g[n - 1], y[n])
  BY <1>1, <1>2 DEF Reduces
<1>. HIDE DEF N
<1>. DEFINE good == {n \in 0..N : (n < i /\ f[n] = g[n]) \/ (i <= n /\ f[n] # g[n])}
            h == [n \in 0..N |-> n]
<1>5. h[0] \in good /\ \A n \in 1..N : h[n - 1] = n - 1 /\ h[n] = n
  BY <1>3, <1>4 DEF N
<1>6. ASSUME NEW n \in 1..N, h[n - 1] \in good PROVE h[n] \in good
  <2>1. /\ n - 1 \in 0..N /\ n \in 0..N /\ i \in 1..N
        /\ f[n - 1] \in Pair /\ g[n - 1] \in Pair /\ x[n] \in Byte /\ y[n] \in Byte
    <3>. HIDE DEF good, h
    <3>1. n - 1 \in 0..N /\ n \in 0..N
      BY <1>3
    <3>2. i \in 1..N
      BY DEF N
    <3>3. f[n - 1] \in Pair /\ g[n - 1] \in Pair
      BY <1>4, <3>1
    <3>. QED BY <1>3, <3>1, <3>2, <3>3
  <2>2. (n - 1 < i /\ f[n - 1] = g[n - 1]) \/ (i <= n - 1 /\ f[n - 1] # g[n - 1])
    BY <1>5, <1>6
  <2>3. f[n] = CrcStep(f[n - 1], x[n]) /\ g[n] = CrcStep(g[n - 1], y[n])
    BY <1>4
  <2>4. x[n] = y[n] \/ n = i
    BY DEF N
  <2>5. CASE n < i
    <3>1. x[n] = y[n] /\ f[n - 1] = g[n - 1]
      BY <2>1, <2>2, <2>4, <2>5
    <3>. QED BY <1>5, <2>1, <2>3, <2>5, <3>1
  <2>6. CASE i <= n
    <3>1. f[n] # g[n]
      <4>1. CASE n = i
        <5>1. f[n - 1] = g[n - 1] /\ x[n] # y[n]
          BY <2>1, <2>2, <4>1
        <5>. QED BY <2>1, <2>3, <5>1, StepTellsApart
      <4>2. CASE n # i
        <5>1. f[n - 1] # g[n - 1] /\ x[n] = y[n]
          BY <2>1, <2>2, <2>4, <2>6, <4>2
        <5>. QED BY <2>1, <2>3, <5>1, StepTellsApart
      <4>. QED BY <4>1, <4>2
    <3>. QED BY <1>5, <2>1, <2>6, <3>1
  <2>. QED BY <2>1, <2>5, <2>6
<1>7. \A n \in 0..N : h[n] \in good
  <2>. HIDE DEF h, good
  <2>. QED BY <1>3, <1>5, <1>6, IterationTyped
<1>8. f[N] # g[N]
  <2>1. N \in 0..N /\ ~(N < i) /\ h[N] = N
    BY <1>3 DEF N
  <2>2. N \in good
    <3>. HIDE DEF h, good
    <3>. QED BY <1>7, <2>1
  <2>. QED BY <2>1, <2>2
<1>. QED BY <1>1, <1>2, <1>8

-----------------------------------------------------------------------------
(* A frame that ends in its CRC is right, and wrong once one of its bytes  *)
(* has changed.                                                            *)

Closes(w, x) ==
  /\ w \in Seq(Byte) /\ Len(w) = Len(x) + 2 /\ Len(x) \in Nat
  /\ \A i \in 1..Len(x) : w[i] = x[i]
  /\ w[Len(x) + 1] = Crc(x)[1] /\ w[Len(x) + 2] = Crc(x)[2]

LEMMA WithCrcCloses ==
  ASSUME NEW x \in Seq(Byte)
  PROVE  Closes(WithCrc(x), x)
<1>. DEFINE c == Crc(x)
            w == x \o c
            N == Len(x)
<1>1. c \in Seq(Byte) /\ Len(c) = 2 /\ N \in Nat
  BY CrcTyped
<1>2. /\ w \in Seq(Byte) /\ Len(w) = N + 2
      /\ \A i \in 1..(N + 2) : w[i] = IF i <= N THEN x[i] ELSE c[i - N]
  <2>. HIDE DEF c
  <2>1. /\ w \in Seq(Byte) /\ Len(w) = Len(x) + Len(c)
        /\ \A i \in 1..(Len(x) + Len(c)) : w[i] = IF i <= Len(x) THEN x[i] ELSE c[i - Len(x)]
    BY <1>1, ConcatProperties
  <2>. HIDE DEF w
  <2>. QED BY <1>1, <2>1
<1>. HIDE DEF w, c, N
<1>3. \A i \in 1..N : i \in 1..(N + 2) /\ i <= N
  BY <1>1
<1>4. (\A i \in 1..N : w[i] = x[i]) /\ w[N + 1] = c[1] /\ w[N + 2] = c[2]
  <2>1. \A i \in 1..N : w[i] = x[i]
    BY <1>2, <1>3
  <2>2. ASSUME NEW k \in 1..2 PROVE w[N + k] = c[k]
    <3>1. N + k \in 1..(N + 2) /\ ~(N + k <= N) /\ (N + k) - N = k
      BY <1>1
    <3>. DEFINE i == N + k
    <3>2. i \in 1..(N + 2) /\ ~(i <= N) /\ i - N = k
      BY <3>1
    <3>. HIDE DEF i
    <3>3. w[i] = c[i - N]
      BY <1>2, <3>2
    <3>4. w[i] = c[k]
      BY <3>2, <3>3
    <3>. QED BY <3>4 DEF i
  <2>. QED BY <2>1, <2>2
<1>. QED BY <1>1, <1>2, <1>4 DEF Closes, WithCrc, w, c, N

(* What is tested of a frame with a CRC. *)
LEMMA CheckIs ==
  ASSUME NEW r \in Seq(Byte), NEW N \in Nat, Len(r) = N + 2
  PROVE  /\ SubSeq(r, 1, N) \in Seq(Byte) /\ Len(SubSeq(r, 1, N)) = N
         /\ \A i \in 1..N : SubSeq(r, 1, N)[i] = r[i]
         /\ CheckCrc(r) <=> /\ Crc(SubSeq(r, 1, N))[1] = r[N + 1]
                            /\ Crc(SubSeq(r, 1, N))[2] = r[N + 2]
<1>. DEFINE y == SubSeq(r, 1, N)
            z == SubSeq(r, N + 1, N + 2)
<1>1. \A i \in 1..(N + 2) : r[i] \in Byte
  OBVIOUS
<1>2. y \in Seq(Byte) /\ Len(y) = N /\ \A i \in 1..N : y[i] = r[i]
  <2>1. \A i \in 1..N : r[i] \in Byte
    BY <1>1
  <2>2. /\ y \in Seq(Byte) /\ Len(y) = IF 1 <= N THEN N - 1 + 1 ELSE 0
        /\ \A i \in 1..(N - 1 + 1) : y[i] = r[1 + i - 1]
    BY <2>1, SubSeqProperties
  <2>. QED BY <2>2
<1>3. z \in Seq(Byte) /\ Len(z) = 2 /\ z[1] = r[N + 1] /\ z[2] = r[N + 2]
  <2>1. \A i \in (N + 1)..(N + 2) : r[i] \in Byte
    BY <1>1
  <2>2. /\ z \in Seq(Byte) /\ Len(z) = IF N + 1 <= N + 2 THEN N + 2 - (N + 1) + 1 ELSE 0
        /\ \A i \in 1..(N + 2 - (N + 1) + 1) : z[i] = r[N + 1 + i - 1]
    BY <2>1, SubSeqProperties
  <2>3. /\ 1 \in 1..(N + 2 - (N + 1) + 1) /\ 2 \in 1..(N + 2 - (N + 1) + 1)
        /\ N + 1 + 1 - 1 = N + 1 /\ N + 1 + 2 - 1 = N + 2 /\ N + 2 - (N + 1) + 1 = 2
    OBVIOUS
  <2>. HIDE DEF z
  <2>. QED BY <2>2, <2>3
<1>4. CheckCrc(r) <=> Crc(y) = z
  <2>1. Len(r) - 2 = N /\ Len(r) - 1 = N + 1 /\ Len(r) = N + 2
    OBVIOUS
  <2>. QED BY <2>1 DEF CheckCrc
<1>. HIDE DEF y, z
<1>5. Crc(y) \in Seq(Byte) /\ Len(Crc(y)) = 2
  BY <1>2, CrcTyped
<1>6. Crc(y) = z <=> Crc(y)[1] = z[1] /\ Crc(y)[2] = z[2]
  <2>1. ASSUME Crc(y)[1] = z[1], Crc(y)[2] = z[2] PROVE Crc(y) = z
    <3>. DEFINE c == Crc(y)
    <3>1. \A i \in 1..2 : i = 1 \/ i = 2
      OBVIOUS
    <3>2. \A i \in 1..Len(c) : c[i] = z[i]
      BY <1>5, <2>1, <3>1
    <3>. HIDE DEF c
    <3>3. c \in Seq(Byte) /\ Len(c) = Len(z)
      BY <1>3, <1>5 DEF c
    <3>4. c = z
      BY <1>3, <3>2, <3>3, SeqEqual
    <3>. QED BY <3>4 DEF c
  <2>. QED BY <2>1
<1>7. CheckCrc(r) <=> Crc(y)[1] = r[N + 1] /\ Crc(y)[2] = r[N + 2]
  BY <1>3, <1>4, <1>6
<1>. QED BY <1>2, <1>7 DEF y

LEMMA ClosedChecks ==
  ASSUME NEW x \in Seq(Byte), NEW r \in Seq(Byte), Closes(r, x)
  PROVE  CheckCrc(r)
<1>. DEFINE y == SubSeq(r, 1, Len(x))
<1>1. Len(x) \in Nat /\ Len(r) = Len(x) + 2
  BY DEF Closes
<1>2. /\ y \in Seq(Byte) /\ Len(y) = Len(x) /\ \A i \in 1..Len(x) : y[i] = r[i]
      /\ CheckCrc(r) <=> Crc(y)[1] = r[Len(x) + 1] /\ Crc(y)[2] = r[Len(x) + 2]
  BY <1>1, CheckIs
<1>. HIDE DEF y
<1>3. y = x
  <2>1. \A i \in 1..Len(y) : y[i] = x[i]
    BY <1>2 DEF Closes
  <2>. QED BY <1>2, <2>1, SeqEqual
<1>. QED BY <1>2, <1>3 DEF Closes

LEMMA ChangedFails ==
  ASSUME NEW x \in Seq(Byte), NEW w \in Seq(Byte), Closes(w, x),
         NEW r \in Seq(Byte), Len(r) = Len(w), NEW i \in 1..Len(w), r[i] # w[i],
         \A j \in 1..Len(w) : j # i => r[j] = w[j]
  PROVE  ~CheckCrc(r)
<1>. DEFINE N == Len(x)
            y == SubSeq(r, 1, N)
<1>1. N \in Nat /\ Len(r) = N + 2 /\ Len(w) = N + 2
  BY DEF Closes
<1>2. /\ y \in Seq(Byte) /\ Len(y) = N /\ \A j \in 1..N : y[j] = r[j]
      /\ CheckCrc(r) <=> Crc(y)[1] = r[N + 1] /\ Crc(y)[2] = r[N + 2]
  BY <1>1, CheckIs
<1>3. /\ \A j \in 1..N : w[j] = x[j]
      /\ w[N + 1] = Crc(x)[1] /\ w[N + 2] = Crc(x)[2]
  BY DEF Closes
<1>. HIDE DEF y, N
<1>4. \A j \in 1..(N + 2) : j # i => r[j] = w[j]
  BY <1>1
<1>5. i \in 1..N \/ i = N + 1 \/ i = N + 2
  BY <1>1
<1>6. CASE i \in 1..N
  <2>1. N + 1 # i /\ N + 2 # i /\ N + 1 \in 1..(N + 2) /\ N + 2 \in 1..(N + 2)
        /\ \A j \in 1..N : j \in 1..(N + 2)
    BY <1>1, <1>6
  <2>2. y[i] # x[i] /\ \A j \in 1..N : j # i => y[j] = x[j]
    BY <1>2, <1>3, <1>4, <1>6, <2>1
  <2>3. Crc(y) # Crc(x)
    BY <1>2, <1>6, <2>2, CrcTellsApart DEF N
  <2>4. /\ Crc(y) = <<Crc(y)[1], Crc(y)[2]>> /\ Crc(x) = <<Crc(x)[1], Crc(x)[2]>>
    <3>1. Crc(y) \in Pair /\ Crc(x) \in Pair
      BY <1>2, CrcTyped
    <3>. QED BY <3>1 DEF Pair
  <2>5. r[N + 1] = Crc(x)[1] /\ r[N + 2] = Crc(x)[2]
    BY <1>3, <1>4, <2>1
  <2>. QED BY <1>2, <2>3, <2>4, <2>5
<1>7. CASE i \notin 1..N
  <2>1. \A j \in 1..N : j \in 1..(N + 2) /\ j # i
    BY <1>1, <1>7
  <2>2. \A j \in 1..Len(y) : y[j] = x[j]
    BY <1>2, <1>3, <1>4, <2>1
  <2>3. y = x
    BY <1>2, <2>2, SeqEqual DEF N
  <2>4. r[N + 1] # w[N + 1] \/ r[N + 2] # w[N + 2]
    BY <1>5, <1>7
  <2>. QED BY <1>2, <1>3, <2>3, <2>4
<1>. QED BY <1>6, <1>7

-----------------------------------------------------------------------------
(* What the frames and the answers say. *)

LEMMA InRange == \A a, b \in Int : \A n : n \in a..b <=> n \in Int /\ a <= n /\ n <= b
OBVIOUS

Top == 65535

LEMMA WordIs == ASSUME NEW n PROVE n \in Word <=> n \in Int /\ 0 <= n /\ n <= 65535
<1>1. Word = 0..Top
  BY DEF Word, Top
<1>2. Top \in Int /\ 0 \in Int
  BY DEF Top
<1>3. n \in 0..Top <=> n \in Int /\ 0 <= n /\ n <= Top
  BY <1>2, InRange
<1>4. n \in Word <=> n \in Int /\ 0 <= n /\ n <= Top
  BY <1>1, <1>3
<1>5. ASSUME n \in Int PROVE n <= Top <=> n <= 65535
  BY <1>5 DEF Top
<1>. QED BY <1>4, <1>5

Concatenates(w, s, t) ==
  /\ w \in Seq(Byte) /\ Len(w) = Len(s) + Len(t)
  /\ \A i \in 1..Len(s) : w[i] = s[i]
  /\ \A i \in 1..Len(t) : w[Len(s) + i] = t[i]

LEMMA ElementsOfConcat ==
  ASSUME NEW s \in Seq(Byte), NEW t \in Seq(Byte)
  PROVE  Concatenates(s \o t, s, t)
<1>. DEFINE w == s \o t
            m == Len(s)
            n == Len(t)
<1>1. /\ w \in Seq(Byte) /\ Len(w) = m + n
      /\ \A i \in 1..(m + n) : w[i] = IF i <= m THEN s[i] ELSE t[i - m]
  BY ConcatProperties
<1>2. m \in Nat /\ n \in Nat
  OBVIOUS
<1>. HIDE DEF w, m, n
<1>3. \A i \in 1..m : w[i] = s[i]
  <2>1. \A i \in 1..m : i \in 1..(m + n) /\ i <= m
    BY <1>2
  <2>. QED BY <1>1, <2>1
<1>4. ASSUME NEW k \in 1..n PROVE w[m + k] = t[k]
  <2>. DEFINE i == m + k
  <2>1. i \in 1..(m + n) /\ ~(i <= m) /\ i - m = k
    BY <1>2
  <2>. HIDE DEF i
  <2>2. w[i] = t[i - m]
    BY <1>1, <2>1
  <2>3. w[i] = t[k]
    BY <2>1, <2>2
  <2>. QED BY <2>3 DEF i
<1>5. /\ w \in Seq(Byte) /\ Len(w) = m + n
      /\ \A i \in 1..m : w[i] = s[i]
      /\ \A i \in 1..n : w[m + i] = t[i]
  BY <1>1, <1>3, <1>4
<1>. QED BY <1>5 DEF Concatenates, w, m, n

LEMMA HalvesOfWord ==
  ASSUME NEW v \in Word
  PROVE  Hi(v) \in Byte /\ Lo(v) \in Byte /\ 256 * Hi(v) + Lo(v) = v
<1>. DEFINE q == v \div 256
            r == v % 256
<1>1. q \in 0..255 /\ r \in 0..255 /\ v = 256 * q + r
  <2>1. v \in Int /\ 0 <= v /\ v <= 65535
    BY WordIs
  <2>. QED BY <2>1
<1>2. Hi(v) = q % 256 /\ Lo(v) = r
  BY DEF Hi, Lo
<1>. HIDE DEF q, r
<1>3. q % 256 = q
  BY <1>1
<1>. QED BY <1>1, <1>2, <1>3 DEF Byte

(* What is known of an operation, as numbers. *)
LEMMA AllowedNumbers ==
  ASSUME NEW o, Allowed(o)
  PROVE  /\ o.slave \in Byte /\ o.fn \in Byte /\ o.address \in Word /\ o.number \in Word
         /\ o.write \in Seq(Word) /\ Len(o.write) \in 0..123
         /\ \/ o.fn = READ_HOLDING_REGISTERS /\ o.need = "no"
            \/ o.fn = PRESET_SINGLE_REGISTER /\ o.need = "no"
            \/ o.fn = PRESET_MULTIPLE_REGISTER /\ o.need \in {"yes", "no"}
<1>1. /\ o.slave \in 0..255 /\ o.address \in Word /\ o.number \in Word
      /\ o.fn \in {READ_HOLDING_REGISTERS, PRESET_SINGLE_REGISTER, PRESET_MULTIPLE_REGISTER}
      /\ o.need \in (IF o.fn = PRESET_MULTIPLE_REGISTER THEN {"yes", "no"} ELSE {"no"})
      /\ o.write \in Seq(Word) /\ Len(o.write) <= 123
  BY DEF Allowed
<1>2. Len(o.write) \in 0..123
  <2>1. Len(o.write) \in Nat
    <3>1. o.write \in Seq(Word)
      BY <1>1
    <3>. QED BY <3>1, LenProperties
  <2>2. Len(o.write) <= 123
    BY <1>1
  <2>. DEFINE n == Len(o.write)
  <2>3. n \in Nat /\ n <= 123
    BY <2>1, <2>2
  <2>. HIDE DEF n
  <2>4. n \in 0..123
    BY <2>3
  <2>. QED BY <2>4 DEF n
<1>3. o.fn \in Byte
  BY <1>1 DEF Byte, READ_HOLDING_REGISTERS, PRESET_SINGLE_REGISTER, PRESET_MULTIPLE_REGISTER
<1>4. o.slave \in Byte
  BY <1>1 DEF Byte
<1>5. \/ o.fn = READ_HOLDING_REGISTERS /\ o.need = "no"
      \/ o.fn = PRESET_SINGLE_REGISTER /\ o.need = "no"
      \/ o.fn = PRESET_MULTIPLE_REGISTER /\ o.need \in {"yes", "no"}
  BY <1>1, Zenon DEF READ_HOLDING_REGISTERS, PRESET_SINGLE_REGISTER, PRESET_MULTIPLE_REGISTER
<1>. QED BY <1>1, <1>2, <1>3, <1>4, <1>5

LEMMA BytesOfWords ==
  ASSUME NEW values \in Seq(Word)
  PROVE  /\ Bytes(values) \in Seq(Byte) /\ Len(Bytes(values)) = 2 * Len(values)
         /\ \A i \in 1..Len(values) : /\ Bytes(values)[2 * i - 1] = Hi(values[i])
                                      /\ Bytes(values)[2 * i] = Lo(values[i])
<1>. DEFINE N == Len(values)
            b == Bytes(values)
<1>1. N \in Nat /\ \A i \in 1..N : values[i] \in Word
  OBVIOUS
<1>2. b = [j \in 1..(2 * N) |->
             IF j % 2 = 1 THEN Hi(values[(j + 1) \div 2]) ELSE Lo(values[j \div 2])]
  BY DEF Bytes
<1>. HIDE DEF N, b
<1>3. ASSUME NEW j \in 1..(2 * N) PROVE b[j] \in Byte
  <2>1. CASE j % 2 = 1
    <3>1. (j + 1) \div 2 \in 1..N
      BY <1>1, <2>1
    <3>. QED BY <1>1, <1>2, <2>1, <3>1, HalvesOfWord
  <2>2. CASE j % 2 # 1
    <3>1. j \div 2 \in 1..N
      BY <1>1, <2>2
    <3>. QED BY <1>1, <1>2, <2>2, <3>1, HalvesOfWord
  <2>. QED BY <2>1, <2>2
<1>4. b \in [1..(2 * N) -> Byte]
  BY <1>2, <1>3
<1>5. b \in Seq(Byte) /\ Len(b) = 2 * N
  <2>1. 2 * N \in Nat
    BY <1>1
  <2>. QED BY <1>4, <2>1
<1>6. ASSUME NEW i \in 1..N PROVE b[2 * i - 1] = Hi(values[i]) /\ b[2 * i] = Lo(values[i])
  <2>1. /\ 2 * i - 1 \in 1..(2 * N) /\ (2 * i - 1) % 2 = 1 /\ (2 * i - 1 + 1) \div 2 = i
        /\ 2 * i \in 1..(2 * N) /\ (2 * i) % 2 # 1 /\ (2 * i) \div 2 = i
    BY <1>1
  <2>. DEFINE j == 2 * i - 1
              k == 2 * i
  <2>2. /\ j \in 1..(2 * N) /\ j % 2 = 1 /\ (j + 1) \div 2 = i
        /\ k \in 1..(2 * N) /\ k % 2 # 1 /\ k \div 2 = i
    BY <2>1
  <2>. HIDE DEF j, k
  <2>3. b[j] = Hi(values[i]) /\ b[k] = Lo(values[i])
    BY <1>2, <2>2
  <2>. QED BY <2>3 DEF j, k
<1>. QED BY <1>5, <1>6 DEF N, b

Says(o, x, count) ==
  /\ x \in Seq(Byte) /\ Len(x) >= 3 /\ x[1] = o.slave /\ x[2] = o.fn
  /\ o.fn = READ_HOLDING_REGISTERS =>
       /\ Len(x) = 3 + 2 * count /\ x[3] = 2 * count
       /\ \A i \in 1..count : 256 * x[2 + 2 * i] + x[3 + 2 * i] = Registers[o.address + i - 1]
  /\ o.fn # READ_HOLDING_REGISTERS =>
       /\ Len(x) = 6 /\ 256 * x[3] + x[4] = o.address
       /\ 256 * x[5] + x[6] = IF o.fn = PRESET_SINGLE_REGISTER THEN o.number ELSE Len(o.write)

LEMMA ReadingSays ==
  ASSUME NEW o, Allowed(o), o.fn = READ_HOLDING_REGISTERS, NEW count \in 0..o.number
  PROVE  \E x : Says(o, x, count) /\ Reading(o, count) = WithCrc(x)
<1>. DEFINE values == [i \in 1..count |-> Registers[o.address + i - 1]]
            head == <<o.slave, o.fn, 2 * count>>
            tail == Bytes(values)
            x == head \o tail
<1>1. /\ o.number \in Nat /\ o.number <= 125 /\ count \in Nat /\ count <= 125 /\ o.address \in Nat
      /\ o.slave \in Byte /\ o.fn \in Byte /\ 2 * count \in Byte
      /\ o.address..(o.address + o.number - 1) \subseteq DOMAIN Registers
  <2>1. o.slave \in Byte /\ o.fn \in Byte /\ o.address \in Word /\ o.number \in Word
    BY AllowedNumbers
  <2>2. o.number <= 125 /\ o.address..(o.address + o.number - 1) \subseteq DOMAIN Registers
    BY DEF Allowed
  <2>3. o.number \in Nat /\ o.address \in Nat
    BY <2>1, WordIs
  <2>4. count \in Nat /\ count <= 125 /\ 2 * count \in Byte
    BY <2>2, <2>3 DEF Byte
  <2>. QED BY <2>1, <2>2, <2>3, <2>4
<1>2. \A i \in 1..count : Registers[o.address + i - 1] \in Word
  <2>1. \A i \in 1..count : o.address + i - 1 \in o.address..(o.address + o.number - 1)
    BY <1>1
  <2>. QED BY <1>1, <2>1, RegistersAssumption
<1>3. values \in Seq(Word) /\ Len(values) = count
  BY <1>1, <1>2
<1>4. \A i \in 1..count : values[i] = Registers[o.address + i - 1] /\ values[i] \in Word
  BY <1>2
<1>. HIDE DEF values
<1>5. /\ tail \in Seq(Byte) /\ Len(tail) = 2 * count
      /\ \A i \in 1..count : tail[2 * i - 1] = Hi(values[i]) /\ tail[2 * i] = Lo(values[i])
  BY <1>3, BytesOfWords
<1>6. head \in Seq(Byte) /\ Len(head) = 3 /\ head[1] = o.slave /\ head[2] = o.fn /\ head[3] = 2 * count
  BY <1>1
<1>. HIDE DEF head, tail
<1>7. /\ x \in Seq(Byte) /\ Len(x) = 3 + 2 * count
      /\ \A i \in 1..3 : x[i] = head[i]
      /\ \A i \in 1..(2 * count) : x[3 + i] = tail[i]
  <2>. DEFINE n == 2 * count
  <2>1. n \in Nat /\ Len(tail) = n /\ 3 \in Nat
    BY <1>1, <1>5
  <2>. HIDE DEF n
  <2>2. /\ x \in Seq(Byte) /\ Len(x) = 3 + n
        /\ \A i \in 1..3 : x[i] = head[i]
        /\ \A i \in 1..n : x[3 + i] = tail[i]
    <3>1. Concatenates(x, head, tail)
      BY <1>5, <1>6, ElementsOfConcat
    <3>. HIDE DEF x
    <3>. QED BY <1>6, <2>1, <3>1 DEF Concatenates
  <2>. HIDE DEF x
  <2>. QED BY <2>2 DEF n
<1>. HIDE DEF x
<1>8. ASSUME NEW i \in 1..count
      PROVE  256 * x[2 + 2 * i] + x[3 + 2 * i] = Registers[o.address + i - 1]
  <2>1. /\ 2 * i - 1 \in 1..(2 * count) /\ 3 + (2 * i - 1) = 2 + 2 * i
        /\ 2 * i \in 1..(2 * count)
    BY <1>1
  <2>2. x[2 + 2 * i] = tail[2 * i - 1] /\ x[3 + 2 * i] = tail[2 * i]
    BY <1>7, <2>1
  <2>3. 256 * Hi(values[i]) + Lo(values[i]) = Registers[o.address + i - 1]
    BY <1>4, HalvesOfWord
  <2>. QED BY <1>5, <2>2, <2>3
<1>9. Len(x) >= 3 /\ x[1] = o.slave /\ x[2] = o.fn /\ x[3] = 2 * count
  BY <1>1, <1>6, <1>7
<1>10. Says(o, x, count)
  BY <1>7, <1>8, <1>9 DEF Says
<1>11. Reading(o, count) = WithCrc(x)
  BY DEF Reading, x, head, tail, values
<1>. QED BY <1>10, <1>11

LEMMA SixSays ==
  ASSUME NEW a \in Byte, NEW b \in Byte, NEW c \in Byte, NEW d \in Byte, NEW e \in Byte, NEW f \in Byte
  PROVE  /\ <<a, b, c, d>> \in Seq(Byte) /\ Len(<<a, b, c, d>>) = 4
         /\ <<a, b, c, d>> \o <<e, f>> = <<a, b, c, d, e, f>>
         /\ <<a, b, c, d, e, f>> \in Seq(Byte) /\ Len(<<a, b, c, d, e, f>>) = 6
<1>1. /\ <<a, b, c, d>> \in Seq(Byte) /\ Len(<<a, b, c, d>>) = 4
      /\ <<e, f>> \in Seq(Byte) /\ Len(<<e, f>>) = 2
      /\ <<a, b, c, d, e, f>> \in Seq(Byte) /\ Len(<<a, b, c, d, e, f>>) = 6
  OBVIOUS
<1>2. <<a, b, c, d>> \o <<e, f>> = <<a, b, c, d, e, f>>
  <2>. DEFINE s == <<a, b, c, d>>
              t == <<e, f>>
              u == <<a, b, c, d, e, f>>
              w == s \o t
  <2>1. /\ s[1] = a /\ s[2] = b /\ s[3] = c /\ s[4] = d /\ t[1] = e /\ t[2] = f
        /\ u[1] = a /\ u[2] = b /\ u[3] = c /\ u[4] = d /\ u[5] = e /\ u[6] = f
    OBVIOUS
  <2>2. /\ s \in Seq(Byte) /\ Len(s) = 4 /\ t \in Seq(Byte) /\ Len(t) = 2
        /\ u \in Seq(Byte) /\ Len(u) = 6
    BY <1>1
  <2>. HIDE DEF s, t, u
  <2>3. Concatenates(w, s, t)
    BY <2>2, ElementsOfConcat
  <2>. HIDE DEF w
  <2>4. /\ w \in Seq(Byte) /\ Len(w) = 4 + 2
        /\ \A i \in 1..4 : w[i] = s[i]
        /\ \A i \in 1..2 : w[4 + i] = t[i]
    BY <2>2, <2>3 DEF Concatenates
  <2>5. /\ w[1] = s[1] /\ w[2] = s[2] /\ w[3] = s[3] /\ w[4] = s[4]
        /\ w[5] = t[1] /\ w[6] = t[2] /\ Len(w) = 6
    BY <2>4
  <2>6. \A i \in 1..6 : i = 1 \/ i = 2 \/ i = 3 \/ i = 4 \/ i = 5 \/ i = 6
    OBVIOUS
  <2>7. \A i \in 1..Len(w) : w[i] = u[i]
    BY <2>1, <2>5, <2>6
  <2>8. w = u
    BY <2>2, <2>4, <2>5, <2>7, SeqEqual
  <2>. QED BY <2>8 DEF w, s, t, u
<1>. QED BY <1>1, <1>2

(* The frame of an operation. *)
LEMMA FrameSays ==
  ASSUME NEW o, Allowed(o)
  PROVE  \E x \in Seq(Byte) :
           /\ Frame(o) = WithCrc(x)
           /\ IF o.fn = PRESET_MULTIPLE_REGISTER THEN Len(x) >= 7
              ELSE /\ Len(x) = 6
                   /\ o.fn = PRESET_SINGLE_REGISTER => Says(o, x, 0)
<1>1. /\ o.slave \in Byte /\ o.fn \in Byte /\ o.address \in Word /\ o.number \in Word
      /\ o.write \in Seq(Word) /\ Len(o.write) \in 0..123
  BY AllowedNumbers
<1>2. /\ Hi(o.address) \in Byte /\ Lo(o.address) \in Byte
      /\ 256 * Hi(o.address) + Lo(o.address) = o.address
      /\ Hi(o.number) \in Byte /\ Lo(o.number) \in Byte
      /\ 256 * Hi(o.number) + Lo(o.number) = o.number
  BY <1>1, HalvesOfWord
<1>. DEFINE head == <<o.slave, o.fn, Hi(o.address), Lo(o.address)>>
            n == Len(o.write)
<1>3. CASE o.fn # PRESET_MULTIPLE_REGISTER
  <2>. DEFINE x == <<o.slave, o.fn, Hi(o.address), Lo(o.address), Hi(o.number), Lo(o.number)>>
  <2>1. x \in Seq(Byte) /\ Len(x) = 6 /\ head \o <<Hi(o.number), Lo(o.number)>> = x
    BY <1>1, <1>2, SixSays
  <2>2. Frame(o) = WithCrc(x)
    BY <1>3, <2>1 DEF Frame
  <2>3. ASSUME o.fn = PRESET_SINGLE_REGISTER PROVE Says(o, x, 0)
    <3>1. o.fn # READ_HOLDING_REGISTERS
      BY <2>3 DEF PRESET_SINGLE_REGISTER, READ_HOLDING_REGISTERS
    <3>2. /\ x[1] = o.slave /\ x[2] = o.fn /\ x[3] = Hi(o.address) /\ x[4] = Lo(o.address)
          /\ x[5] = Hi(o.number) /\ x[6] = Lo(o.number)
      OBVIOUS
    <3>. HIDE DEF x
    <3>. QED BY <1>2, <2>1, <2>3, <3>1, <3>2 DEF Says
  <2>. HIDE DEF x
  <2>. QED BY <1>3, <2>1, <2>2, <2>3
<1>4. CASE o.fn = PRESET_MULTIPLE_REGISTER
  <2>. DEFINE size == <<Hi(n), Lo(n), Lo(2 * n)>>
              tail == Bytes(o.write)
              x == head \o size \o tail
  <2>1. head \in Seq(Byte) /\ Len(head) = 4
    BY <1>1, <1>2, SixSays
  <2>2. size \in Seq(Byte) /\ Len(size) = 3
    <3>0. n \in 0..123
      BY <1>1
    <3>. HIDE DEF n
    <3>1. n \in Word /\ 2 * n \in Word
      BY <3>0, WordIs
    <3>2. Hi(n) \in Byte /\ Lo(n) \in Byte /\ Lo(2 * n) \in Byte
      BY <3>1, HalvesOfWord
    <3>. QED BY <3>2
  <2>3. tail \in Seq(Byte) /\ Len(tail) = 2 * n
    BY <1>1, BytesOfWords
  <2>4. Frame(o) = WithCrc(x)
    BY <1>4 DEF Frame
  <2>. HIDE DEF head, size, tail
  <2>5. head \o size \in Seq(Byte) /\ Len(head \o size) = 7
    <3>1. Concatenates(head \o size, head, size)
      BY <2>1, <2>2, ElementsOfConcat
    <3>. QED BY <2>1, <2>2, <3>1 DEF Concatenates
  <2>6. x \in Seq(Byte) /\ Len(x) = 7 + 2 * n
    <3>. DEFINE m == 2 * n
                h == head \o size
    <3>1. Len(tail) = m /\ h \in Seq(Byte) /\ Len(h) = 7 /\ x = h \o tail
      BY <2>3, <2>5
    <3>. HIDE DEF m, h, x
    <3>2. x \in Seq(Byte) /\ Len(x) = 7 + m
      <4>1. Concatenates(x, h, tail)
        BY <2>3, <3>1, ElementsOfConcat
      <4>. QED BY <3>1, <4>1 DEF Concatenates
    <3>. QED BY <3>2 DEF m
  <2>7. Len(x) >= 7
    BY <1>1, <2>6
  <2>. HIDE DEF x
  <2>. QED BY <1>4, <2>4, <2>6, <2>7
<1>. QED BY <1>3, <1>4

LEMMA GoodSays ==
  ASSUME NEW o, Allowed(o), o.frame = Frame(o)
  PROVE  \E x : /\ Says(o, x, o.number)
                /\ GoodAnswer(o) = IF o.need = "yes" THEN o.frame \o WithCrc(x) ELSE WithCrc(x)
<1>1. /\ o.slave \in Byte /\ o.fn \in Byte /\ o.address \in Word /\ o.number \in Nat
      /\ Len(o.write) \in Byte
      /\ o.fn \in {READ_HOLDING_REGISTERS, PRESET_SINGLE_REGISTER, PRESET_MULTIPLE_REGISTER}
      /\ o.need = "yes" => o.fn = PRESET_MULTIPLE_REGISTER
      /\ o.need \in {"yes", "no"}
  <2>1. /\ o.slave \in Byte /\ o.fn \in Byte /\ o.address \in Word /\ o.number \in Word
        /\ Len(o.write) \in 0..123
        /\ \/ o.fn = READ_HOLDING_REGISTERS /\ o.need = "no"
           \/ o.fn = PRESET_SINGLE_REGISTER /\ o.need = "no"
           \/ o.fn = PRESET_MULTIPLE_REGISTER /\ o.need \in {"yes", "no"}
    BY AllowedNumbers
  <2>2. o.number \in Nat /\ Len(o.write) \in Byte
    <3>1. o.number \in Nat
      BY <2>1, WordIs
    <3>2. Len(o.write) \in 0..123
      BY <2>1
    <3>. DEFINE n == Len(o.write)
    <3>3. n \in Byte
      BY <3>2 DEF Byte
    <3>. QED BY <3>1, <3>3
  <2>3. "yes" # "no"
    OBVIOUS
  <2>. QED BY <2>1, <2>2, <2>3
<1>2. CASE o.fn = READ_HOLDING_REGISTERS
  <2>1. PICK x : Says(o, x, o.number) /\ Reading(o, o.number) = WithCrc(x)
    <3>1. o.number \in 0..o.number
      BY <1>1
    <3>. QED BY <1>2, <3>1, ReadingSays
  <2>2. o.need # "yes" /\ GoodAnswer(o) = Reading(o, o.number)
    BY <1>1, <1>2 DEF GoodAnswer, READ_HOLDING_REGISTERS, PRESET_SINGLE_REGISTER, PRESET_MULTIPLE_REGISTER
  <2>. QED BY <2>1, <2>2
<1>3. CASE o.fn = PRESET_SINGLE_REGISTER
  <2>1. o.need # "yes" /\ GoodAnswer(o) = o.frame /\ o.fn # PRESET_MULTIPLE_REGISTER
        /\ o.fn # READ_HOLDING_REGISTERS
    BY <1>1, <1>3
       DEF GoodAnswer, READ_HOLDING_REGISTERS, PRESET_SINGLE_REGISTER, PRESET_MULTIPLE_REGISTER
  <2>2. PICK x : Frame(o) = WithCrc(x) /\ Says(o, x, 0)
    BY <1>3, <2>1, FrameSays
  <2>3. Says(o, x, o.number)
    BY <2>1, <2>2 DEF Says
  <2>. QED BY <2>1, <2>2, <2>3
<1>4. CASE o.fn = PRESET_MULTIPLE_REGISTER
  <2>. DEFINE x == <<o.slave, o.fn, Hi(o.address), Lo(o.address), 0, Len(o.write)>>
  <2>1. /\ o.fn # READ_HOLDING_REGISTERS /\ o.fn # PRESET_SINGLE_REGISTER
        /\ GoodAnswer(o) = (IF o.need = "yes" THEN o.frame ELSE <<>>) \o WithCrc(x)
    BY <1>4
       DEF GoodAnswer, READ_HOLDING_REGISTERS, PRESET_SINGLE_REGISTER, PRESET_MULTIPLE_REGISTER
  <2>2. /\ Hi(o.address) \in Byte /\ Lo(o.address) \in Byte /\ 0 \in Byte
        /\ 256 * Hi(o.address) + Lo(o.address) = o.address
    <3>1. 0 \in Byte
      BY DEF Byte
    <3>. QED BY <1>1, <3>1, HalvesOfWord
  <2>3. x \in Seq(Byte) /\ Len(x) = 6
    BY <1>1, <2>2, SixSays
  <2>4. /\ x[1] = o.slave /\ x[2] = o.fn /\ x[3] = Hi(o.address) /\ x[4] = Lo(o.address)
        /\ x[5] = 0 /\ x[6] = Len(o.write)
    OBVIOUS
  <2>. HIDE DEF x
  <2>5. Says(o, x, o.number)
    <3>1. 256 * x[5] + x[6] = Len(o.write)
      BY <1>1, <2>4 DEF Byte
    <3>. QED BY <2>1, <2>2, <2>3, <2>4, <3>1 DEF Says
  <2>6. <<>> \o WithCrc(x) = WithCrc(x)
    <3>1. WithCrc(x) \in Seq(Byte)
      BY <2>3, WithCrcCloses DEF Closes
    <3>. QED BY <3>1, ConcatEmptySeq
  <2>. QED BY <2>1, <2>5, <2>6
<1>. QED BY <1>1, <1>2, <1>3, <1>4

-----------------------------------------------------------------------------
(* The inductive invariant: what an operation has read is what the wire    *)
(* has lost, an echo apart, and is judged when there is enough of it.      *)

YesNo == {"yes", "no"}

Exchange ==
  [slave : Byte, fn : {3, 6, 16}, address : Word, number : Word, write : Seq(Word),
   need : YesNo, labels : Seq(Word), frame : Seq(Byte), response : Seq(Byte),
   finished : YesNo, completed : YesNo, confirmed : YesNo, ok : YesNo, values : Seq(Int)]

ModbusTyped ==
  /\ op \in Exchange /\ Allowed(op) /\ op.frame = Frame(op)
  /\ answer = NoAnswer \/ answer \in Answers(op)
  /\ answer.bytes \in Seq(Byte) /\ wire \in Seq(Byte) /\ Len(wire) <= Len(answer.bytes)
  /\ wire = SubSeq(answer.bytes, Len(answer.bytes) - Len(wire) + 1, Len(answer.bytes))

Echoed == op.need = "yes" /\ op.confirmed = "yes"
ReadSoFar == Len(answer.bytes) - Len(wire)
EchoLength == IF Echoed THEN Len(op.frame) ELSE 0
EchoComes == SubSeq(answer.bytes, 1, Len(op.frame)) = op.frame

Kept ==
  /\ EchoLength <= ReadSoFar
  /\ op.response = SubSeq(answer.bytes, EchoLength + 1, ReadSoFar)
  /\ op.need = "no" => op.confirmed = "yes"
  /\ Echoed => EchoComes
  /\ op.confirmed = "no" => op.response # op.frame
  /\ aligned = "yes" => ReadSoFar >= Len(op.frame)
  /\ aligned = "yes" /\ op.need = "yes" /\ EchoComes => op.confirmed = "yes"

Judged ==
  /\ op.completed = "yes" <=> AnswerComplete(op, op.response)
  /\ op.finished = op.completed
  /\ op.completed = "no" => op.ok = "yes" /\ op.values = <<>>
  /\ op.completed = "yes" =>
       /\ pending = "none"
       /\ op.ok = IF Acceptable(op) THEN "yes" ELSE "no"
       /\ op.values = IF Acceptable(op) THEN ValuesOf(op) ELSE <<>>

Released == conn = "closed" => buffers = "no" /\ pending \in {"read", "none"}

ModbusInv == ModbusTyped /\ Kept /\ Judged /\ Released

LEMMA FrameLength ==
  ASSUME NEW o, Allowed(o), o.frame = Frame(o)
  PROVE  /\ o.frame \in Seq(Byte) /\ Len(o.frame) >= 8 /\ Len(o.frame) \in Nat
         /\ IF o.fn = PRESET_MULTIPLE_REGISTER THEN Len(o.frame) >= 9 ELSE Len(o.frame) = 8
<1>1. PICK x \in Seq(Byte) :
        /\ Frame(o) = WithCrc(x)
        /\ IF o.fn = PRESET_MULTIPLE_REGISTER THEN Len(x) >= 7 ELSE Len(x) = 6
  BY FrameSays
<1>2. WithCrc(x) \in Seq(Byte) /\ Len(WithCrc(x)) = Len(x) + 2 /\ Len(x) \in Nat
  BY WithCrcCloses DEF Closes
<1>. DEFINE w == WithCrc(x)
<1>3. w \in Seq(Byte) /\ Len(w) = Len(x) + 2 /\ o.frame = w
  BY <1>1, <1>2
<1>. HIDE DEF w
<1>. DEFINE n == Len(x)
            f == o.frame
<1>4. /\ n \in Nat /\ f \in Seq(Byte) /\ Len(f) = n + 2
      /\ IF o.fn = PRESET_MULTIPLE_REGISTER THEN n >= 7 ELSE n = 6
  BY <1>1, <1>2, <1>3
<1>. HIDE DEF n, f
<1>5. /\ f \in Seq(Byte) /\ Len(f) >= 8 /\ Len(f) \in Nat
      /\ IF o.fn = PRESET_MULTIPLE_REGISTER THEN Len(f) >= 9 ELSE Len(f) = 8
  BY <1>4
<1>. QED BY <1>5 DEF f

(* The beginning of what a device says, when it is complete, is all of it. *)
Begins(r, w) == r \in Seq(Byte) /\ Len(r) <= Len(w) /\ \A j \in 1..Len(r) : r[j] = w[j]

LEMMA SaidClosed ==
  ASSUME NEW o, NEW x, NEW count, Says(o, x, count)
  PROVE  /\ x \in Seq(Byte) /\ Len(x) \in Nat /\ Len(x) >= 3 /\ WithCrc(x) \in Seq(Byte)
         /\ Closes(WithCrc(x), x) /\ Len(WithCrc(x)) = Len(x) + 2
         /\ \A j \in 1..Len(x) : WithCrc(x)[j] = x[j]
<1>1. x \in Seq(Byte) /\ Len(x) >= 3
  BY DEF Says
<1>2. Closes(WithCrc(x), x)
  BY <1>1, WithCrcCloses
<1>. QED BY <1>1, <1>2 DEF Closes

LEMMA SaidWhole ==
  ASSUME NEW o, NEW x, NEW count \in Nat, Says(o, x, count), o.fn = READ_HOLDING_REGISTERS,
         NEW r, Begins(r, WithCrc(x)), AnswerComplete(o, r)
  PROVE  r = WithCrc(x)
<1>. DEFINE w == WithCrc(x)
<1>1. w \in Seq(Byte) /\ Len(w) = Len(x) + 2 /\ Len(x) \in Nat /\ Len(x) >= 3 /\ w[3] = x[3]
  <2>1. /\ w \in Seq(Byte) /\ Len(w) = Len(x) + 2 /\ Len(x) \in Nat /\ Len(x) >= 3
        /\ \A j \in 1..Len(x) : w[j] = x[j]
    BY SaidClosed
  <2>2. 3 \in 1..Len(x)
    BY <2>1
  <2>. QED BY <2>1, <2>2
<1>2. Len(x) = 3 + 2 * count /\ x[3] = 2 * count
  BY DEF Says
<1>3. Len(r) >= 3 /\ Len(r) - 2 = r[3] + 3
  BY DEF AnswerComplete, READ_HOLDING_REGISTERS, PRESET_SINGLE_REGISTER
<1>4. r \in Seq(Byte) /\ Len(r) \in Nat /\ \A j \in 1..Len(r) : r[j] = w[j]
  BY DEF Begins
<1>. HIDE DEF w
<1>5. r[3] = w[3]
  <2>1. 3 \in 1..Len(r)
    BY <1>3, <1>4
  <2>. QED BY <1>4, <2>1
<1>6. Len(r) = Len(w)
  BY <1>1, <1>2, <1>3, <1>4, <1>5
<1>7. r = w
  BY <1>1, <1>4, <1>6, SeqEqual
<1>. QED BY <1>7 DEF w

(* What a device says is complete, and accepted as it says it. *)
LEMMA SaidAccepted ==
  ASSUME NEW o, Allowed(o), o.frame = Frame(o), o.confirmed = "yes",
         NEW x, NEW count \in Nat, Says(o, x, count), o.response = WithCrc(x)
  PROVE  /\ AnswerComplete(o, o.response) /\ Acceptable(o)
         /\ o.fn = READ_HOLDING_REGISTERS =>
              ValuesOf(o) = [i \in 1..count |-> Registers[o.address + i - 1]]
<1>. DEFINE r == o.response
<1>1. /\ x \in Seq(Byte) /\ Len(x) \in Nat /\ Len(x) >= 3 /\ r \in Seq(Byte) /\ Closes(r, x)
      /\ Len(r) = Len(x) + 2 /\ \A j \in 1..Len(x) : r[j] = x[j]
  BY SaidClosed
<1>2. CheckCrc(r)
  BY <1>1, ClosedChecks
<1>3. 1 \in 1..Len(x) /\ 2 \in 1..Len(x) /\ 3 \in 1..Len(x)
  BY <1>1
<1>4. r[1] = o.slave /\ r[2] = o.fn /\ r[3] = x[3]
  BY <1>1, <1>3 DEF Says
<1>5. CASE o.fn = READ_HOLDING_REGISTERS
  <2>1. /\ Len(x) = 3 + 2 * count /\ x[3] = 2 * count
        /\ \A i \in 1..count : 256 * x[2 + 2 * i] + x[3 + 2 * i] = Registers[o.address + i - 1]
    BY <1>5 DEF Says
  <2>2. Len(r) >= 3 /\ Len(r) - 2 = r[3] + 3
    BY <1>1, <1>4, <2>1
  <2>3. AnswerComplete(o, r) /\ Acceptable(o)
    BY <1>2, <1>4, <1>5, <2>2
       DEF AnswerComplete, Acceptable, READ_HOLDING_REGISTERS, PRESET_SINGLE_REGISTER
  <2>4. (r[3] + 1) \div 2 = count
    BY <1>4, <2>1
  <2>5. ASSUME NEW i \in 1..count
        PROVE  256 * r[2 + 2 * i] + r[3 + 2 * i] = Registers[o.address + i - 1]
    <3>1. 2 + 2 * i \in 1..Len(x) /\ 3 + 2 * i \in 1..Len(x)
      BY <1>1, <2>1
    <3>. QED BY <1>1, <2>1, <3>1
  <2>6. ValuesOf(o) = [i \in 1..count |-> 256 * r[2 + 2 * i] + r[3 + 2 * i]]
    BY <1>5, <2>4 DEF ValuesOf
  <2>. QED BY <2>3, <2>5, <2>6
<1>6. CASE o.fn # READ_HOLDING_REGISTERS
  <2>1. /\ Len(x) = 6 /\ 256 * x[3] + x[4] = o.address
        /\ 256 * x[5] + x[6] = IF o.fn = PRESET_SINGLE_REGISTER THEN o.number ELSE Len(o.write)
    BY <1>6 DEF Says
  <2>2. Len(r) = 8 /\ r[3] = x[3] /\ r[4] = x[4] /\ r[5] = x[5] /\ r[6] = x[6]
    <3>1. 3 \in 1..Len(x) /\ 4 \in 1..Len(x) /\ 5 \in 1..Len(x) /\ 6 \in 1..Len(x)
      BY <2>1
    <3>. QED BY <1>1, <2>1, <3>1
  <2>3. CASE o.fn = PRESET_SINGLE_REGISTER
    <3>1. Len(o.frame) = 8
      BY <2>3, FrameLength DEF PRESET_SINGLE_REGISTER, PRESET_MULTIPLE_REGISTER
    <3>2. AnswerComplete(o, r)
      BY <1>6, <2>2, <2>3, <3>1 DEF AnswerComplete
    <3>3. Acceptable(o)
      BY <1>2, <1>4, <1>6, <2>1, <2>2, <2>3 DEF Acceptable
    <3>. QED BY <1>6, <3>2, <3>3
  <2>4. CASE o.fn # PRESET_SINGLE_REGISTER
    <3>1. Len(r) >= 8
      BY <2>2
    <3>2. AnswerComplete(o, r)
      BY <1>6, <2>4, <3>1 DEF AnswerComplete
    <3>3. Acceptable(o)
      BY <1>2, <1>4, <1>6, <2>1, <2>2, <2>4 DEF Acceptable
    <3>. QED BY <1>6, <3>2, <3>3
  <2>. QED BY <2>3, <2>4
<1>. QED BY <1>5, <1>6

(* One changed byte: what is read is not accepted, unless the change makes *)
(* the answer to a read seem shorter.                                      *)
LEMMA ChangedRefused ==
  ASSUME NEW o, Allowed(o), o.frame = Frame(o), NEW x, Says(o, x, o.number),
         o.response \in Seq(Byte), Len(o.response) <= Len(WithCrc(x)), NEW i \in 1..Len(WithCrc(x)),
         i \in 1..Len(o.response) => o.response[i] # WithCrc(x)[i],
         \A j \in 1..Len(o.response) : j # i => o.response[j] = WithCrc(x)[j],
         AnswerComplete(o, o.response), Acceptable(o)
  PROVE  /\ o.fn = READ_HOLDING_REGISTERS /\ Len(o.response) >= 3
         /\ o.response[3] < 2 * o.number /\ CheckCrc(o.response)
<1>. DEFINE r == o.response
            w == WithCrc(x)
<1>1. CheckCrc(r)
  BY DEF Acceptable
<1>2. /\ x \in Seq(Byte) /\ w \in Seq(Byte) /\ Closes(w, x)
      /\ Len(x) \in Nat /\ Len(w) = Len(x) + 2 /\ Len(r) \in Nat
  BY SaidClosed
<1>. HIDE DEF w
<1>3. Len(r) # Len(w)
  <2>. SUFFICES ASSUME Len(r) = Len(w) PROVE FALSE
    OBVIOUS
  <2>1. i \in 1..Len(w) /\ r[i] # w[i] /\ \A j \in 1..Len(w) : j # i => r[j] = w[j]
    BY DEF w
  <2>2. ~CheckCrc(r)
    <3>. HIDE DEF r
    <3>1. r \in Seq(Byte)
      BY DEF r
    <3>. QED BY <1>2, <2>1, <3>1, ChangedFails
  <2>. QED BY <1>1, <2>2
<1>4. Len(r) < Len(w)
  <2>1. Len(r) <= Len(w)
    BY DEF w
  <2>. QED BY <1>2, <1>3, <2>1
<1>5. o.fn = READ_HOLDING_REGISTERS
  <2>. SUFFICES ASSUME o.fn # READ_HOLDING_REGISTERS PROVE FALSE
    OBVIOUS
  <2>1. Len(x) = 6
    BY DEF Says
  <2>2. Len(r) = 8
    <3>1. CASE o.fn = PRESET_SINGLE_REGISTER
      <4>1. Len(o.frame) = 8
        BY <3>1, FrameLength DEF PRESET_SINGLE_REGISTER, PRESET_MULTIPLE_REGISTER
      <4>. QED BY <3>1, <4>1 DEF AnswerComplete
    <3>2. CASE o.fn # PRESET_SINGLE_REGISTER
      BY <3>2 DEF Acceptable
    <3>. QED BY <3>1, <3>2
  <2>. QED BY <1>2, <1>4, <2>1, <2>2
<1>6. Len(r) >= 3 /\ Len(r) - 2 = r[3] + 3
  BY <1>5 DEF AnswerComplete, READ_HOLDING_REGISTERS, PRESET_SINGLE_REGISTER
<1>7. Len(x) = 3 + 2 * o.number
  BY <1>5 DEF Says
<1>8. r[3] \in Byte /\ o.number \in Nat
  <2>1. 3 \in 1..Len(r)
    BY <1>2, <1>6
  <2>2. o.number \in Word
    BY AllowedNumbers
  <2>. QED BY <2>1, <2>2, WordIs, ElementOfSeq
<1>9. r[3] < 2 * o.number
  <2>. DEFINE b == r[3]
              n == o.number
              l == Len(r)
  <2>1. b \in Int /\ n \in Nat /\ l \in Nat
    <3>1. b \in Byte /\ n \in Nat
      BY <1>8, Zenon
    <3>2. l \in Nat
      BY <1>2, Zenon
    <3>. HIDE DEF b, n, l
    <3>3. b \in Int
      BY <3>1 DEF Byte
    <3>. QED BY <3>1, <3>2, <3>3
  <2>2. l - 2 = b + 3 /\ l < 3 + 2 * n + 2
    BY <1>2, <1>4, <1>6, <1>7
  <2>. HIDE DEF b, n, l
  <2>3. b < 2 * n
    BY <2>1, <2>2, SMT
  <2>. QED BY <2>3 DEF b, n
<1>. QED BY <1>1, <1>5, <1>6, <1>9

(* Values that are those of the registers are so under every label. *)
LEMMA MappedRight ==
  ASSUME NEW o, Allowed(o), NEW c \in Nat,
         o.values = [i \in 1..c |-> Registers[o.address + i - 1]]
  PROVE  /\ \A i \in DOMAIN o.values : o.values[i] = Registers[o.address + i - 1]
         /\ o.labels = <<>> => \A m \in MappedValues(o) : m[2] = Registers[m[1] - 1]
         /\ (o.labels # <<>> /\ \A i \in DOMAIN o.labels : o.labels[i] = o.address + i - 1)
              => \A m \in MappedValues(o) : m[2] = Registers[m[1]]
<1>1. DOMAIN o.values = 1..c /\ \A i \in 1..c : o.values[i] = Registers[o.address + i - 1]
  OBVIOUS
<1>2. Len(o.values) = c
  OBVIOUS
<1>3. o.labels \in Seq(Word) /\ o.address \in Nat
  <2>1. o.labels \in Seq(Word) /\ o.address \in Word
    BY DEF Allowed
  <2>. QED BY <2>1, WordIs
<1>4. ASSUME o.labels = <<>>, NEW m \in MappedValues(o) PROVE m[2] = Registers[m[1] - 1]
  <2>1. PICK i \in 1..c : m = <<o.address + i, o.values[i]>>
    BY <1>2, <1>4 DEF MappedValues
  <2>2. m[1] - 1 = o.address + i - 1
    BY <1>3, <2>1
  <2>3. m[2] = Registers[o.address + i - 1]
    BY <1>1, <2>1
  <2>. QED BY <2>2, <2>3
<1>5. ASSUME o.labels # <<>>, \A i \in DOMAIN o.labels : o.labels[i] = o.address + i - 1,
             NEW m \in MappedValues(o)
      PROVE  m[2] = Registers[m[1]]
  <2>1. Len(o.labels) = c /\ \E i \in 1..c : m = <<o.labels[i], o.values[i]>>
    BY <1>2, <1>5 DEF MappedValues
  <2>2. PICK i \in 1..c : m = <<o.labels[i], o.values[i]>>
    BY <2>1
  <2>3. i \in DOMAIN o.labels
    BY <1>3, <2>1
  <2>4. o.labels[i] = o.address + i - 1
    BY <1>5, <2>3
  <2>. QED BY <1>1, <2>2, <2>4
<1>. QED BY <1>1, <1>4, <1>5

-----------------------------------------------------------------------------
(* What the invariant says of the answer of the device. *)

LEMMA ResponseIs ==
  ASSUME ModbusTyped, Kept
  PROVE  /\ op.response \in Seq(Byte) /\ answer.bytes \in Seq(Byte)
         /\ Len(answer.bytes) \in Nat /\ Len(op.response) \in Nat /\ EchoLength \in Nat
         /\ ReadSoFar \in 0..Len(answer.bytes) /\ EchoLength <= ReadSoFar
         /\ wire = <<>> => ReadSoFar = Len(answer.bytes)
         /\ Len(op.response) = ReadSoFar - EchoLength
         /\ \A j \in 1..Len(op.response) :
              EchoLength + j \in 1..Len(answer.bytes) /\ op.response[j] = answer.bytes[EchoLength + j]
<1>. DEFINE b == answer.bytes
            L == Len(b)
            W == Len(wire)
            k == ReadSoFar
            e == EchoLength
<1>1. /\ b \in Seq(Byte) /\ L \in Nat /\ W \in Nat /\ W <= L /\ k = L - W
      /\ \A i \in 1..L : b[i] \in Byte
  <2>1. b \in Seq(Byte) /\ wire \in Seq(Byte) /\ W <= L
    BY DEF ModbusTyped
  <2>. QED BY <2>1 DEF ReadSoFar
<1>2. e \in Nat
  <2>1. Len(op.frame) \in Nat
    BY FrameLength DEF ModbusTyped
  <2>. QED BY <2>1 DEF EchoLength
<1>3. k \in 0..L /\ e <= k
  BY <1>1 DEF Kept
<1>4. wire = <<>> => k = L
  <2>1. wire = <<>> => W = 0
    OBVIOUS
  <2>. QED BY <1>1, <2>1
<1>5. op.response = SubSeq(b, e + 1, k)
  BY DEF Kept
<1>. HIDE DEF b, L, W, k, e
<1>6. /\ op.response \in Seq(Byte) /\ Len(op.response) = k - e
      /\ \A j \in 1..(k - e) : op.response[j] = b[e + j]
  <2>1. \A i \in (e + 1)..k : b[i] \in Byte
    <3>1. \A i \in (e + 1)..k : i \in 1..L
      BY <1>1, <1>2, <1>3
    <3>. QED BY <1>1, <3>1
  <2>2. e + 1 \in Int /\ k \in Int
    BY <1>2, <1>3
  <2>. DEFINE s == SubSeq(b, e + 1, k)
              d == e + 1
  <2>3. d = e + 1 /\ s = SubSeq(b, d, k)
    OBVIOUS
  <2>. HIDE DEF d
  <2>4. /\ s \in Seq(Byte) /\ Len(s) = IF d <= k THEN k - d + 1 ELSE 0
        /\ \A i \in 1..(k - d + 1) : s[i] = b[d + i - 1]
    <3>1. d \in Int /\ k \in Int /\ \A i \in d..k : b[i] \in Byte
      BY <2>1, <2>2, <2>3
    <3>. HIDE DEF s
    <3>. QED BY <2>3, <3>1, SubSeqProperties
  <2>. HIDE DEF s
  <2>5. Len(s) = k - e
    BY <1>2, <1>3, <2>3, <2>4
  <2>6. ASSUME NEW j \in 1..(k - e) PROVE s[j] = b[e + j]
    <3>1. j \in 1..(k - d + 1) /\ d + j - 1 = e + j
      BY <1>2, <1>3, <2>3
    <3>2. s[j] = b[d + j - 1]
      BY <2>4, <3>1
    <3>. QED BY <3>1, <3>2
  <2>. QED BY <1>5, <2>4, <2>5, <2>6 DEF s
<1>7. \A j \in 1..(k - e) : e + j \in 1..L
  <2>1. L \in Nat
    BY <1>1
  <2>. QED BY <1>2, <1>3, <2>1
<1>8. k - e \in Nat
  BY <1>2, <1>3
<1>. QED BY <1>1, <1>2, <1>3, <1>4, <1>6, <1>7, <1>8 DEF b, L, k, e

(* What the device says after the echo: x, and its CRC. *)
Answered(x) ==
  /\ Says(op, x, op.number)
  /\ GoodAnswer(op) = IF op.need = "yes" THEN op.frame \o WithCrc(x) ELSE WithCrc(x)

LEMMA AnsweredIs ==
  ASSUME ModbusTyped, NEW x, Answered(x)
  PROVE  LET f == IF op.need = "yes" THEN Len(op.frame) ELSE 0
         IN  /\ f \in Nat /\ WithCrc(x) \in Seq(Byte) /\ Len(WithCrc(x)) \in Nat
             /\ GoodAnswer(op) \in Seq(Byte) /\ Len(GoodAnswer(op)) = f + Len(WithCrc(x))
             /\ \A j \in 1..Len(WithCrc(x)) : GoodAnswer(op)[f + j] = WithCrc(x)[j]
             /\ \A j \in 1..f : GoodAnswer(op)[j] = op.frame[j]
<1>. DEFINE w == WithCrc(x)
            g == GoodAnswer(op)
            f == IF op.need = "yes" THEN Len(op.frame) ELSE 0
<1>1. w \in Seq(Byte) /\ Len(w) \in Nat
  BY SaidClosed DEF Answered
<1>2. op.frame \in Seq(Byte) /\ Len(op.frame) \in Nat
  BY FrameLength DEF ModbusTyped
<1>3. CASE op.need = "yes"
  <2>1. g = op.frame \o w
    BY <1>3 DEF Answered
  <2>. HIDE DEF g, w
  <2>2. Concatenates(g, op.frame, w)
    BY <1>1, <1>2, <2>1, ElementsOfConcat
  <2>3. /\ g \in Seq(Byte) /\ Len(g) = Len(op.frame) + Len(w)
        /\ \A j \in 1..Len(w) : g[Len(op.frame) + j] = w[j]
        /\ \A j \in 1..Len(op.frame) : g[j] = op.frame[j]
    BY <2>2 DEF Concatenates
  <2>4. f = Len(op.frame)
    BY <1>3
  <2>. QED BY <1>1, <1>2, <2>3, <2>4 DEF g, w
<1>4. CASE op.need # "yes"
  <2>1. g = w
    BY <1>4 DEF Answered
  <2>. HIDE DEF g, w
  <2>2. \A j \in 1..Len(w) : 0 + j = j
    OBVIOUS
  <2>3. f = 0
    BY <1>4
  <2>. QED BY <1>1, <2>1, <2>2, <2>3 DEF g, w
<1>. QED BY <1>3, <1>4

LEMMA EchoFirst ==
  ASSUME ModbusTyped, NEW x, Answered(x), op.need = "yes", answer.bytes = GoodAnswer(op)
  PROVE  EchoComes
<1>. DEFINE g == GoodAnswer(op)
            n == Len(op.frame)
            s == SubSeq(g, 1, n)
<1>1. op.frame \in Seq(Byte) /\ n \in Nat
  BY FrameLength DEF ModbusTyped
<1>2. \A j \in 1..n : g[j] = op.frame[j]
  BY AnsweredIs
<1>. HIDE DEF g
<1>3. \A j \in 1..n : g[j] \in Byte
  BY <1>1, <1>2
<1>4. s \in Seq(Byte) /\ Len(s) = n /\ \A j \in 1..n : s[j] = op.frame[j]
  <2>. HIDE DEF n
  <2>1. /\ s \in Seq(Byte) /\ Len(s) = IF 1 <= n THEN n - 1 + 1 ELSE 0
        /\ \A i \in 1..(n - 1 + 1) : s[i] = g[1 + i - 1]
    BY <1>1, <1>3, SubSeqProperties
  <2>. HIDE DEF s
  <2>2. Len(s) = n /\ \A i \in 1..n : s[i] = g[i]
    BY <1>1, <2>1
  <2>. QED BY <1>2, <2>1, <2>2
<1>5. s = op.frame
  <2>. HIDE DEF s
  <2>. QED BY <1>1, <1>4, SeqEqual
<1>. QED BY <1>5 DEF EchoComes, g

(* The device says what it says only if it is asked to. *)
LEMMA KindsOfOperation ==
  ASSUME ModbusTyped
  PROVE  \/ answer = NoAnswer
         \/ answer.kind = "good" /\ answer.bytes = GoodAnswer(op)
         \/ /\ answer.kind = "corrupt"
            /\ \E i \in 1..Len(GoodAnswer(op)), d \in Changes :
                 answer.bytes = [GoodAnswer(op) EXCEPT ![i] = (@ + d) % 256]
         \/ answer.kind = "exception" /\ answer.bytes = WithCrc(<<op.slave, op.fn + 128, 2>>)
         \/ /\ answer.kind = "fewer" /\ op.fn = READ_HOLDING_REGISTERS /\ op.number > 1
            /\ answer.bytes = Reading(op, op.number - 1)
BY DEF ModbusTyped, Answers

LEMMA AnswerExists ==
  ASSUME ModbusTyped
  PROVE  \E x : Answered(x)
BY GoodSays DEF ModbusTyped, Answered

(* Nothing to judge: no answer yet, or an exception, which is short. *)
LEMMA ShortNever ==
  ASSUME ModbusInv, answer = NoAnswer \/ answer.kind = "exception"
  PROVE  op.completed # "yes"
<1>. SUFFICES ASSUME op.completed = "yes" PROVE FALSE
  OBVIOUS
<1>. DEFINE r == op.response
<1>1. AnswerComplete(op, r)
  BY DEF ModbusInv, Judged
<1>2. /\ r \in Seq(Byte) /\ Len(r) \in Nat /\ EchoLength \in Nat /\ ReadSoFar \in 0..Len(answer.bytes)
      /\ Len(answer.bytes) \in Nat /\ EchoLength <= ReadSoFar
      /\ Len(r) = ReadSoFar - EchoLength
      /\ \A j \in 1..Len(r) : r[j] = answer.bytes[EchoLength + j]
  BY ResponseIs DEF ModbusInv
<1>3. Len(answer.bytes) = 0 \/ (Len(answer.bytes) = 5 /\ answer.bytes[3] = 2)
  <2>1. CASE answer = NoAnswer
    BY <2>1 DEF NoAnswer
  <2>2. CASE answer.kind = "exception" /\ answer # NoAnswer
    <3>. DEFINE x == <<op.slave, op.fn + 128, 2>>
    <3>1. answer.bytes = WithCrc(x)
      BY <2>2, KindsOfOperation DEF ModbusInv
    <3>2. x \in Seq(Byte) /\ Len(x) = 3 /\ x[3] = 2
      <4>1. op.slave \in Byte
        BY AllowedNumbers DEF ModbusInv, ModbusTyped
      <4>2. op.fn + 128 \in Byte
        <5>1. op.fn \in {3, 6, 16}
          BY DEF ModbusInv, ModbusTyped, Exchange
        <5>. QED BY <5>1 DEF Byte
      <4>3. 2 \in Byte
        BY DEF Byte
      <4>. QED BY <4>1, <4>2, <4>3
    <3>. HIDE DEF x
    <3>3. Closes(WithCrc(x), x)
      BY <3>2, WithCrcCloses
    <3>4. 3 \in 1..Len(x)
      BY <3>2
    <3>. QED BY <3>1, <3>2, <3>3, <3>4 DEF Closes
  <2>. QED BY <2>1, <2>2
<1>4. Len(answer.bytes) <= 5 /\ Len(r) <= 5 /\ ReadSoFar <= 5
  <2>. DEFINE l == Len(answer.bytes)
              n == Len(r)
              e == EchoLength
              k == ReadSoFar
  <2>1. l \in Nat /\ l <= 5
    <3>1. l \in Nat
      BY <1>2
    <3>2. l = 0 \/ l = 5
      BY <1>3
    <3>. HIDE DEF l
    <3>. QED BY <3>1, <3>2
  <2>2. n \in Nat /\ e \in Nat /\ k \in 0..l /\ n = k - e
    BY <1>2
  <2>. HIDE DEF l, n, e, k
  <2>3. k <= l /\ n <= k /\ k \in Nat
    BY <2>1, <2>2
  <2>4. l <= 5 /\ n <= 5 /\ k <= 5
    BY <2>1, <2>2, <2>3
  <2>. QED BY <2>4 DEF l, n, k
<1>5. Len(op.frame) >= 8 /\ Len(op.frame) \in Nat
      /\ (op.fn # PRESET_MULTIPLE_REGISTER => Len(op.frame) = 8)
  BY FrameLength DEF ModbusInv, ModbusTyped
<1>6. ~Echoed
  <2>1. Echoed => EchoLength = Len(op.frame)
    BY DEF EchoLength
  <2>. QED BY <1>2, <1>4, <1>5, <2>1
<1>7. CASE op.fn = READ_HOLDING_REGISTERS
  <2>1. Len(r) >= 3 /\ Len(r) - 2 = r[3] + 3
    BY <1>1, <1>7 DEF AnswerComplete, READ_HOLDING_REGISTERS, PRESET_SINGLE_REGISTER
  <2>2. EchoLength = 0
    BY <1>6 DEF EchoLength
  <2>3. r[3] = answer.bytes[3]
    <3>1. 3 \in 1..Len(r) /\ EchoLength + 3 = 3
      BY <1>2, <2>1, <2>2
    <3>. QED BY <1>2, <3>1
  <2>4. r[3] = 2
    BY <1>2, <1>3, <2>1, <2>2, <2>3
  <2>. HIDE DEF r
  <2>. QED BY <1>2, <1>4, <2>1, <2>4
<1>8. CASE op.fn = PRESET_SINGLE_REGISTER
  <2>1. Len(r) = Len(op.frame)
    BY <1>1, <1>8 DEF AnswerComplete, READ_HOLDING_REGISTERS, PRESET_SINGLE_REGISTER
  <2>. QED BY <1>2, <1>4, <1>5, <2>1
<1>9. CASE op.fn # READ_HOLDING_REGISTERS /\ op.fn # PRESET_SINGLE_REGISTER
  <2>1. Len(r) >= 8 \/ Len(r) >= Len(op.frame)
    BY <1>1, <1>9 DEF AnswerComplete
  <2>. QED BY <1>2, <1>4, <1>5, <2>1
<1>. QED BY <1>7, <1>8, <1>9

(* A right answer that is read to its end is accepted. *)
LEMMA RightAccepted == ModbusInv => GoodAnswerAccepted
<1>. SUFFICES ASSUME ModbusInv, answer.kind = "good", wire = <<>>,
                     op.need = "yes" => aligned = "yes"
              PROVE  /\ op.finished = "yes" /\ op.ok = "yes"
                     /\ op.fn = READ_HOLDING_REGISTERS =>
                          op.values = [i \in 1..op.number |-> Registers[op.address + i - 1]]
  BY DEF GoodAnswerAccepted
<1>1. ModbusTyped /\ Kept /\ Judged
  BY DEF ModbusInv
<1>2. PICK x : Answered(x)
  BY <1>1, AnswerExists
<1>. DEFINE w == WithCrc(x)
            r == op.response
<1>3. answer.bytes = GoodAnswer(op)
  BY <1>1, KindsOfOperation DEF NoAnswer
<1>4. op.confirmed = "yes"
  <2>1. CASE op.need = "yes"
    <3>1. EchoComes
      BY <1>1, <1>2, <1>3, <2>1, EchoFirst
    <3>. QED BY <1>1, <2>1, <3>1 DEF Kept
  <2>2. CASE op.need # "yes"
    <3>1. op.need = "no"
      BY <1>1, <2>2, AllowedNumbers DEF ModbusTyped
    <3>. QED BY <1>1, <3>1 DEF Kept
  <2>. QED BY <2>1, <2>2
<1>. DEFINE f == IF op.need = "yes" THEN Len(op.frame) ELSE 0
<1>5. f \in Nat /\ w \in Seq(Byte) /\ Len(w) \in Nat /\ Len(answer.bytes) = f + Len(w)
      /\ \A j \in 1..Len(w) : answer.bytes[f + j] = w[j]
  BY <1>1, <1>2, <1>3, AnsweredIs
<1>6. EchoLength = f
  BY <1>4 DEF EchoLength, Echoed
<1>7. /\ r \in Seq(Byte) /\ Len(r) = Len(answer.bytes) - f
      /\ \A j \in 1..Len(r) : r[j] = answer.bytes[f + j]
  BY <1>1, <1>6, ResponseIs
<1>. HIDE DEF w, r, f
<1>8. Len(r) = Len(w)
  BY <1>5, <1>7
<1>9. r = w
  <2>1. \A j \in 1..Len(r) : r[j] = w[j]
    BY <1>5, <1>7, <1>8
  <2>. QED BY <1>5, <1>7, <1>8, <2>1, SeqEqual
<1>10. /\ AnswerComplete(op, op.response) /\ Acceptable(op)
       /\ op.fn = READ_HOLDING_REGISTERS =>
            ValuesOf(op) = [i \in 1..op.number |-> Registers[op.address + i - 1]]
  <2>1. Allowed(op) /\ op.frame = Frame(op)
    BY <1>1 DEF ModbusTyped
  <2>2. Says(op, x, op.number) /\ op.number \in Nat
    <3>1. op.number \in Word
      BY <2>1, AllowedNumbers
    <3>. QED BY <1>2, <3>1, WordIs DEF Answered
  <2>3. op.response = WithCrc(x)
    BY <1>9 DEF r, w
  <2>. QED BY <1>4, <2>1, <2>2, <2>3, SaidAccepted
<1>11. op.completed = "yes"
  BY <1>1, <1>10 DEF Judged
<1>. QED BY <1>1, <1>10, <1>11 DEF Judged

(* What an answer with these registers and no others is taken for. *)
LEMMA ReadRight ==
  ASSUME ModbusInv, op.completed = "yes", Acceptable(op), op.fn = READ_HOLDING_REGISTERS,
         NEW x, NEW count \in Nat, Says(op, x, count), answer.bytes = WithCrc(x)
  PROVE  op.values = [i \in 1..count |-> Registers[op.address + i - 1]]
<1>. DEFINE w == WithCrc(x)
            r == op.response
<1>1. ModbusTyped /\ Kept /\ Judged /\ Allowed(op) /\ op.frame = Frame(op)
  BY DEF ModbusInv, ModbusTyped
<1>2. op.need = "no"
  BY <1>1, AllowedNumbers
     DEF READ_HOLDING_REGISTERS, PRESET_SINGLE_REGISTER, PRESET_MULTIPLE_REGISTER
<1>3. op.confirmed = "yes" /\ EchoLength = 0
  BY <1>1, <1>2 DEF Kept, EchoLength, Echoed
<1>4. /\ r \in Seq(Byte) /\ Len(r) \in Nat /\ ReadSoFar \in 0..Len(w) /\ Len(r) = ReadSoFar - 0
      /\ \A j \in 1..Len(r) : r[j] = w[0 + j]
  BY <1>1, <1>3, ResponseIs
<1>5. w \in Seq(Byte) /\ Len(w) \in Nat
  BY SaidClosed
<1>6. Begins(r, w)
  <2>. DEFINE n == Len(w)
              m == Len(r)
              k == ReadSoFar
  <2>1. m \in Nat /\ n \in Nat /\ k \in 0..n /\ m = k - 0
    BY <1>4, <1>5
  <2>. HIDE DEF n, m, k
  <2>2. m <= n
    BY <2>1
  <2>3. \A j \in 1..m : 0 + j = j
    BY <2>1
  <2>4. \A j \in 1..m : r[j] = w[j]
    BY <1>4, <2>3 DEF m
  <2>. QED BY <1>4, <2>2, <2>4 DEF Begins, n, m
<1>7. AnswerComplete(op, r)
  BY <1>1 DEF Judged
<1>8. r = w
  <2>. HIDE DEF r
  <2>. QED BY <1>6, <1>7, SaidWhole
<1>9. ValuesOf(op) = [i \in 1..count |-> Registers[op.address + i - 1]]
  BY <1>1, <1>3, <1>8, SaidAccepted
<1>. QED BY <1>1, <1>9 DEF Judged

(* Whatever is accepted of an answer with a changed byte seems shorter. *)
LEMMA CorruptRefused ==
  ASSUME ModbusInv, op.completed = "yes", Acceptable(op), answer.kind = "corrupt"
  PROVE  ShortenedRead
<1>. DEFINE r == op.response
            g == GoodAnswer(op)
            b == answer.bytes
<1>1. ModbusTyped /\ Kept /\ Judged /\ Allowed(op) /\ op.frame = Frame(op)
  BY DEF ModbusInv, ModbusTyped
<1>2. PICK x : Answered(x)
  BY <1>1, AnswerExists
<1>3. PICK i \in 1..Len(g), d \in Changes : b = [g EXCEPT ![i] = (@ + d) % 256]
  BY <1>1, KindsOfOperation DEF NoAnswer
<1>. DEFINE w == WithCrc(x)
            f == IF op.need = "yes" THEN Len(op.frame) ELSE 0
<1>4. /\ f \in Nat /\ w \in Seq(Byte) /\ Len(w) \in Nat /\ g \in Seq(Byte) /\ Len(g) = f + Len(w)
      /\ \A j \in 1..Len(w) : g[f + j] = w[j]
      /\ \A j \in 1..f : g[j] = op.frame[j]
  BY <1>1, <1>2, AnsweredIs
<1>5. op.confirmed = "yes"
  <2>1. CASE op.need = "yes"
    <3>1. op.fn # READ_HOLDING_REGISTERS /\ op.fn # PRESET_SINGLE_REGISTER
      BY <1>1, <2>1, AllowedNumbers
         DEF READ_HOLDING_REGISTERS, PRESET_SINGLE_REGISTER, PRESET_MULTIPLE_REGISTER
    <3>. QED BY <3>1 DEF Acceptable
  <2>2. CASE op.need # "yes"
    <3>1. op.need = "no"
      BY <1>1, <2>2, AllowedNumbers
    <3>. QED BY <1>1, <3>1 DEF Kept
  <2>. QED BY <2>1, <2>2
<1>6. EchoLength = f
  BY <1>5 DEF EchoLength, Echoed
<1>7. /\ r \in Seq(Byte) /\ Len(r) \in Nat /\ b \in Seq(Byte) /\ ReadSoFar \in 0..Len(b)
      /\ Len(r) = ReadSoFar - f /\ \A j \in 1..Len(r) : r[j] = b[f + j]
  BY <1>1, <1>6, ResponseIs
<1>8. d \in 1..255
  BY ChangesAssumption
<1>. HIDE DEF r, w, f, g, b
<1>9. /\ Len(b) = Len(g) /\ b[i] # g[i]
      /\ \A j \in 1..Len(g) : j # i => b[j] = g[j]
  <2>1. g[i] \in 0..255 /\ Len(b) = Len(g)
    <3>1. g[i] \in Byte
      BY <1>3, <1>4, ElementOfSeq
    <3>2. (g[i] + d) % 256 \in Byte
      <4>. DEFINE y == g[i]
      <4>1. y \in 0..255 /\ d \in 1..255
        BY <1>8, <3>1 DEF Byte
      <4>. HIDE DEF y
      <4>2. (y + d) % 256 \in 0..255
        BY <4>1
      <4>. QED BY <4>2 DEF y, Byte
    <3>3. Len([g EXCEPT ![i] = (g[i] + d) % 256]) = Len(g)
      BY <1>3, <1>4, <3>2, ExceptSeq
    <3>. QED BY <1>3, <3>1, <3>3 DEF Byte
  <2>2. b[i] = (g[i] + d) % 256
    BY <1>3, <1>4
  <2>3. (g[i] + d) % 256 # g[i]
    <3>. DEFINE y == g[i]
    <3>1. y \in 0..255 /\ d \in 1..255
      BY <1>8, <2>1
    <3>. HIDE DEF y
    <3>2. (y + d) % 256 # y
      BY <3>1
    <3>. QED BY <3>2 DEF y
  <2>4. \A j \in 1..Len(g) : j # i => b[j] = g[j]
    BY <1>3, <1>4
  <2>. QED BY <2>1, <2>2, <2>3, <2>4
<1>10. Len(r) <= Len(w)
  <2>. DEFINE l == Len(b)
              m == Len(w)
              n == Len(r)
              k == ReadSoFar
  <2>1. l = f + m /\ m \in Nat /\ f \in Nat /\ k \in 0..l /\ n = k - f
    BY <1>4, <1>7, <1>9
  <2>. HIDE DEF l, m, n, k
  <2>2. n <= m
    BY <2>1
  <2>. QED BY <2>2 DEF n, m
<1>11. i - f \in 1..Len(w)
  <2>1. i \notin 1..f
    <3>1. SUFFICES ASSUME i \in 1..f PROVE FALSE
      OBVIOUS
    <3>2. op.need = "yes" /\ f = Len(op.frame)
      BY <3>1 DEF f
    <3>3. SubSeq(b, 1, f) = op.frame
      BY <1>1, <1>5, <3>2 DEF Kept, Echoed, EchoComes, b
    <3>4. SubSeq(b, 1, f)[i] = b[i]
      <4>1. f \in Int /\ \A j \in 1..f : b[j] \in Byte
        <5>1. \A j \in 1..f : j \in 1..Len(b)
          BY <1>4, <1>9
        <5>. QED BY <1>4, <1>7, <5>1
      <4>2. \A j \in 1..(f - 1 + 1) : SubSeq(b, 1, f)[j] = b[1 + j - 1]
        BY <4>1, SubSeqProperties
      <4>3. i \in 1..(f - 1 + 1) /\ 1 + i - 1 = i
        BY <1>4, <3>1
      <4>. QED BY <4>2, <4>3
    <3>5. g[i] = op.frame[i]
      BY <1>4, <3>1
    <3>. QED BY <1>9, <3>3, <3>4, <3>5
  <2>. QED BY <1>3, <1>4, <2>1
<1>. DEFINE p == i - f
<1>12. p \in 1..Len(w) /\ f + p = i
  BY <1>4, <1>11
<1>. HIDE DEF p
<1>13. \A j \in 1..Len(r) : j \in 1..Len(w) /\ f + j \in 1..Len(g)
  BY <1>4, <1>7, <1>10
<1>14. p \in 1..Len(r) => r[p] # w[p]
  BY <1>4, <1>7, <1>9, <1>12
<1>15. \A j \in 1..Len(r) : j # p => r[j] = w[j]
  <2>. TAKE j \in 1..Len(r)
  <2>. HAVE j # p
  <2>1. f + j # i
    BY <1>4, <1>12
  <2>2. r[j] = b[f + j] /\ b[f + j] = g[f + j] /\ g[f + j] = w[j]
    BY <1>4, <1>7, <1>9, <1>13, <2>1
  <2>. QED BY <2>2
<1>16. /\ op.fn = READ_HOLDING_REGISTERS /\ Len(op.response) >= 3
       /\ op.response[3] < 2 * op.number /\ CheckCrc(op.response)
  <2>1. Says(op, x, op.number)
    BY <1>2 DEF Answered
  <2>2. AnswerComplete(op, op.response)
    BY <1>1 DEF Judged
  <2>3. /\ op.response \in Seq(Byte) /\ Len(op.response) <= Len(WithCrc(x)) /\ p \in 1..Len(WithCrc(x))
        /\ p \in 1..Len(op.response) => op.response[p] # WithCrc(x)[p]
        /\ \A j \in 1..Len(op.response) : j # p => op.response[j] = WithCrc(x)[j]
    BY <1>7, <1>10, <1>12, <1>14, <1>15 DEF r, w
  <2>. QED BY <1>1, <2>1, <2>2, <2>3, ChangedRefused
<1>. QED BY <1>16 DEF ShortenedRead

LEMMA FalseRefused == ModbusInv /\ ~ShortenedRead => NothingFalseAccepted
<1>. SUFFICES ASSUME ModbusInv, ~ShortenedRead, op.finished = "yes", op.ok = "yes"
              PROVE  /\ answer.kind \in {"good", "fewer"}
                     /\ \E c \in Nat :
                          op.values = [i \in 1..c |-> Registers[op.address + i - 1]]
  <2>1. ModbusInv => Allowed(op)
    BY DEF ModbusInv, ModbusTyped
  <2>. QED BY <2>1, MappedRight DEF NothingFalseAccepted
<1>1. ModbusTyped /\ Kept /\ Judged /\ Allowed(op) /\ op.frame = Frame(op)
  BY DEF ModbusInv, ModbusTyped
<1>2. op.completed = "yes" /\ Acceptable(op) /\ op.values = ValuesOf(op)
  BY <1>1 DEF Judged
<1>3. answer # NoAnswer /\ answer.kind # "exception" /\ answer.kind # "corrupt"
  BY <1>2, ShortNever, CorruptRefused
<1>4. \/ answer.kind = "good" /\ answer.bytes = GoodAnswer(op)
      \/ /\ answer.kind = "fewer" /\ op.fn = READ_HOLDING_REGISTERS /\ op.number > 1
         /\ answer.bytes = Reading(op, op.number - 1)
  BY <1>1, <1>3, KindsOfOperation
<1>5. op.number \in Nat
  <2>1. op.number \in Word
    BY <1>1, AllowedNumbers
  <2>. QED BY <2>1, WordIs
<1>6. \E c \in Nat : op.values = [i \in 1..c |-> Registers[op.address + i - 1]]
  <2>1. CASE op.fn # READ_HOLDING_REGISTERS
    <3>1. op.values = <<>>
      BY <1>2, <2>1 DEF ValuesOf
    <3>2. <<>> = [i \in 1..0 |-> Registers[op.address + i - 1]]
      OBVIOUS
    <3>. QED BY <3>1, <3>2
  <2>2. CASE op.fn = READ_HOLDING_REGISTERS /\ answer.kind = "good"
    <3>1. PICK x : Answered(x)
      BY <1>1, AnswerExists
    <3>2. op.need # "yes"
      BY <1>1, <2>2, AllowedNumbers
         DEF READ_HOLDING_REGISTERS, PRESET_SINGLE_REGISTER, PRESET_MULTIPLE_REGISTER
    <3>3. answer.bytes = WithCrc(x) /\ Says(op, x, op.number)
      BY <1>4, <2>2, <3>1, <3>2 DEF Answered
    <3>. QED BY <1>2, <1>5, <2>2, <3>3, ReadRight
  <2>3. CASE op.fn = READ_HOLDING_REGISTERS /\ answer.kind = "fewer"
    <3>1. op.number - 1 \in 0..op.number /\ op.number - 1 \in Nat /\ answer.bytes = Reading(op, op.number - 1)
      BY <1>4, <1>5, <2>3
    <3>2. PICK x : Says(op, x, op.number - 1) /\ Reading(op, op.number - 1) = WithCrc(x)
      BY <1>1, <2>3, <3>1, ReadingSays
    <3>. QED BY <1>2, <2>3, <3>1, <3>2, ReadRight
  <2>. QED BY <1>4, <2>1, <2>2, <2>3
<1>. QED BY <1>4, <1>6

-----------------------------------------------------------------------------
(* Every step keeps the invariant. *)

(* p is o after a piece: what was read is all of it, or nothing if that    *)
(* was the echo.                                                           *)
Static(o, p) ==
  /\ p.slave = o.slave /\ p.fn = o.fn /\ p.address = o.address /\ p.number = o.number
  /\ p.write = o.write /\ p.need = o.need /\ p.labels = o.labels /\ p.frame = o.frame

Asked(o, p) ==
  /\ p.slave = o.slave /\ p.fn = o.fn /\ p.address = o.address /\ p.number = o.number
  /\ p.write = o.write /\ p.need = o.need /\ p.labels = o.labels

LEMMA AskedSame ==
  ASSUME NEW o, NEW p, Asked(o, p)
  PROVE  (Allowed(o) => Allowed(p)) /\ Frame(p) = Frame(o)
<1>1. ASSUME Allowed(o) PROVE Allowed(p)
  <2>. DEFINE Fields(slave, fn, address, number, write, need, labels) ==
                /\ slave \in 0..255 /\ address \in Word /\ number \in Word
                /\ fn \in {READ_HOLDING_REGISTERS, PRESET_SINGLE_REGISTER, PRESET_MULTIPLE_REGISTER}
                /\ need \in (IF fn = PRESET_MULTIPLE_REGISTER THEN {"yes", "no"} ELSE {"no"})
                /\ write \in Seq(Word) /\ Len(write) <= 123 /\ labels \in Seq(Word)
                /\ fn = READ_HOLDING_REGISTERS =>
                     /\ number <= 125 /\ address + number <= 65535
                     /\ address..(address + number - 1) \subseteq DOMAIN Registers
  <2>1. Fields(o.slave, o.fn, o.address, o.number, o.write, o.need, o.labels)
    BY <1>1 DEF Allowed
  <2>2. /\ p.slave = o.slave /\ p.fn = o.fn /\ p.address = o.address /\ p.number = o.number
        /\ p.write = o.write /\ p.need = o.need /\ p.labels = o.labels
    BY DEF Asked
  <2>3. Fields(p.slave, p.fn, p.address, p.number, p.write, p.need, p.labels)
    <3>. HIDE DEF Fields
    <3>. QED BY <2>1, <2>2
  <2>. QED BY <2>3 DEF Allowed
<1>2. Frame(p) = Frame(o)
  BY Zenon DEF Asked, Frame
<1>. QED BY <1>1, <1>2

LEMMA StaticSame ==
  ASSUME NEW o, NEW p, Static(o, p)
  PROVE  (Allowed(o) => Allowed(p)) /\ Frame(p) = Frame(o) /\ Answers(p) = Answers(o)
<1>1. (Allowed(o) => Allowed(p)) /\ Frame(p) = Frame(o)
  BY AskedSame DEF Static, Asked
<1>3. \A count : Reading(p, count) = Reading(o, count)
  BY Zenon DEF Static, Reading
<1>4. GoodAnswer(p) = GoodAnswer(o)
  BY <1>3, Zenon DEF Static, GoodAnswer
<1>5. Answers(p) = Answers(o)
  <2>1. /\ p.slave = o.slave /\ p.fn = o.fn /\ p.number = o.number
        /\ Reading(p, p.number - 1) = Reading(o, o.number - 1)
    BY <1>3, Zenon DEF Static
  <2>. DEFINE Of(good, s, f, n, few) ==
                {[bytes |-> good, kind |-> "good"]}
                \cup {[bytes |-> [good EXCEPT ![i] = (@ + d) % 256], kind |-> "corrupt"] :
                        i \in 1..Len(good), d \in Changes}
                \cup {[bytes |-> WithCrc(<<s, f + 128, 2>>), kind |-> "exception"]}
                \cup (IF f = READ_HOLDING_REGISTERS /\ n > 1
                      THEN {[bytes |-> few, kind |-> "fewer"]} ELSE {})
  <2>2. /\ Answers(p) = Of(GoodAnswer(p), p.slave, p.fn, p.number, Reading(p, p.number - 1))
        /\ Answers(o) = Of(GoodAnswer(o), o.slave, o.fn, o.number, Reading(o, o.number - 1))
    BY DEF Answers
  <2>. HIDE DEF Of
  <2>. QED BY <1>4, <2>1, <2>2
<1>. QED BY <1>1, <1>5

Received(o, p, all) ==
  LET echo == o.confirmed = "no" /\ all = o.frame
  IN  /\ Static(o, p)
      /\ p.response = IF echo THEN <<>> ELSE all
      /\ p.confirmed = IF echo THEN "yes" ELSE o.confirmed
      /\ p.completed = IF AnswerComplete(o, all) THEN "yes" ELSE "no"
      /\ p.completed = "no" => p.finished = o.finished /\ p.ok = o.ok /\ p.values = o.values
      /\ p.completed = "yes" =>
           /\ p.finished = "yes"
           /\ p.ok = IF Acceptable(p) THEN o.ok ELSE "no"
           /\ p.values = IF Acceptable(p) THEN ValuesOf(p) ELSE o.values

LEMMA ValuesTyped ==
  ASSUME NEW o, o.response \in Seq(Byte), Acceptable(o), AnswerComplete(o, o.response)
  PROVE  ValuesOf(o) \in Seq(Int)
<1>. DEFINE r == o.response
            n == (r[3] + 1) \div 2
<1>1. CASE o.fn # READ_HOLDING_REGISTERS
  <2>1. ValuesOf(o) = <<>>
    BY <1>1 DEF ValuesOf
  <2>. QED BY <2>1
<1>2. CASE o.fn = READ_HOLDING_REGISTERS
  <2>1. Len(r) >= 3 /\ Len(r) - 2 = r[3] + 3
    BY <1>2 DEF AnswerComplete, READ_HOLDING_REGISTERS, PRESET_SINGLE_REGISTER
  <2>2. Len(r) \in Nat /\ \A j \in 1..Len(r) : r[j] \in Byte
    OBVIOUS
  <2>. DEFINE l == Len(r)
              t == r[3]
  <2>3. l \in Nat /\ t \in 0..255 /\ l = t + 5
    <3>. HIDE DEF r
    <3>1. 3 \in 1..Len(r)
      BY <2>1, <2>2
    <3>2. r[3] \in Byte
      BY <2>2, <3>1
    <3>3. l \in Nat /\ t \in 0..255 /\ l - 2 = t + 3
      BY <2>1, <2>2, <3>2 DEF Byte
    <3>. HIDE DEF l, t
    <3>. QED BY <3>3
  <2>. HIDE DEF l, t
  <2>4. (t + 1) \div 2 \in Nat
        /\ \A i \in 1..((t + 1) \div 2) : 2 + 2 * i \in 1..l /\ 3 + 2 * i \in 1..l
    BY <2>3
  <2>5. ValuesOf(o) = [i \in 1..n |-> 256 * r[2 + 2 * i] + r[3 + 2 * i]]
    BY <1>2 DEF ValuesOf
  <2>6. n \in Nat /\ \A i \in 1..n : 2 + 2 * i \in 1..Len(r) /\ 3 + 2 * i \in 1..Len(r)
    BY <2>4 DEF l, t
  <2>. HIDE DEF r, n
  <2>7. ASSUME NEW i \in 1..n PROVE 256 * r[2 + 2 * i] + r[3 + 2 * i] \in Int
    <3>. DEFINE a == r[2 + 2 * i]
                b == r[3 + 2 * i]
    <3>1. a \in 0..255 /\ b \in 0..255
      BY <2>2, <2>6 DEF Byte
    <3>. HIDE DEF a, b
    <3>2. 256 * a + b \in Int
      BY <3>1
    <3>. QED BY <3>2 DEF a, b
  <2>. QED BY <2>5, <2>6, <2>7
<1>. QED BY <1>1, <1>2

LEMMA SameJudged ==
  ASSUME NEW o, NEW p, Static(o, p), p.response = o.response, p.confirmed = o.confirmed
  PROVE  (Acceptable(p) <=> Acceptable(o)) /\ ValuesOf(p) = ValuesOf(o)
<1>. DEFINE Fields(r, slave, fn, confirmed, address, number, write) ==
              /\ r[1] = slave /\ r[2] = fn /\ CheckCrc(r)
              /\ CASE fn = READ_HOLDING_REGISTERS -> Len(r) - 2 = r[3] + 3
                   [] fn = PRESET_SINGLE_REGISTER ->
                        256 * r[3] + r[4] = address /\ 256 * r[5] + r[6] = number
                   [] OTHER -> /\ confirmed = "yes" /\ Len(r) = 8
                               /\ 256 * r[3] + r[4] = address
                               /\ 256 * r[5] + r[6] = Len(write)
<1>1. /\ Acceptable(o) <=> Fields(o.response, o.slave, o.fn, o.confirmed, o.address, o.number, o.write)
      /\ Acceptable(p) <=> Fields(p.response, p.slave, p.fn, p.confirmed, p.address, p.number, p.write)
  BY DEF Acceptable
<1>2. /\ p.slave = o.slave /\ p.fn = o.fn /\ p.address = o.address /\ p.number = o.number
      /\ p.write = o.write
  BY DEF Static
<1>3. ValuesOf(p) = ValuesOf(o)
  BY <1>2 DEF ValuesOf
<1>. HIDE DEF Fields
<1>. QED BY <1>1, <1>2, <1>3

(* receive_modbus_frame() with one piece. *)
LEMMA ReceivedIs ==
  ASSUME NEW o \in Exchange, NEW piece \in Seq(Byte),
         o.fn = READ_HOLDING_REGISTERS => o.confirmed # "no"
  PROVE  LET p == ReceiveModbusFrame(o, piece)
         IN  Received(o, p, o.response \o piece) /\ p \in Exchange
<1>. DEFINE all == o.response \o piece
            echo == o.confirmed = "no" /\ all = o.frame
            c == CheckCompleted(o, piece)
            p == ReceiveModbusFrame(o, piece)
<1>1. all \in Seq(Byte)
  <2>1. o.response \in Seq(Byte)
    BY DEF Exchange
  <2>. QED BY <2>1, ConcatProperties
<1>2. c = [o EXCEPT !.response = IF echo THEN <<>> ELSE all,
                    !.confirmed = IF echo THEN "yes" ELSE o.confirmed,
                    !.completed = IF AnswerComplete(o, all) THEN "yes" ELSE "no"]
  BY DEF CheckCompleted
<1>. HIDE DEF all, c
<1>3. /\ c \in Exchange /\ Static(o, c)
      /\ c.response = IF echo THEN <<>> ELSE all
      /\ c.confirmed = IF echo THEN "yes" ELSE o.confirmed
      /\ c.completed = IF AnswerComplete(o, all) THEN "yes" ELSE "no"
      /\ c.finished = o.finished /\ c.ok = o.ok /\ c.values = o.values
  <2>. DEFINE A == IF echo THEN <<>> ELSE all
              B == IF echo THEN "yes" ELSE o.confirmed
              C == IF AnswerComplete(o, all) THEN "yes" ELSE "no"
  <2>1. A \in Seq(Byte) /\ B \in YesNo /\ C \in YesNo
    <3>1. o.confirmed \in YesNo /\ <<>> \in Seq(Byte)
      BY DEF Exchange
    <3>. QED BY <1>1, <3>1 DEF YesNo
  <2>2. c = [o EXCEPT !.response = A, !.confirmed = B, !.completed = C]
    BY <1>2
  <2>. HIDE DEF A, B, C
  <2>3. c \in Exchange
    BY <2>1, <2>2 DEF Exchange
  <2>4. /\ Static(o, c) /\ c.response = A /\ c.confirmed = B /\ c.completed = C
        /\ c.finished = o.finished /\ c.ok = o.ok /\ c.values = o.values
    BY <2>2 DEF Exchange, Static
  <2>. QED BY <2>3, <2>4 DEF A, B, C
<1>4. CASE c.completed = "no"
  <2>1. p = c
    BY <1>4 DEF ReceiveModbusFrame, c
  <2>. HIDE DEF p
  <2>2. Received(o, p, all) /\ p \in Exchange
    BY <1>3, <1>4, <2>1 DEF Received
  <2>. QED BY <2>2 DEF p, all
<1>5. CASE c.completed # "no" /\ Acceptable(c)
  <2>1. p = [c EXCEPT !.finished = "yes", !.values = ValuesOf(c)]
    BY <1>5 DEF ReceiveModbusFrame, c
  <2>2. AnswerComplete(o, all) /\ c.completed = "yes" /\ c.response \in Seq(Byte)
    BY <1>3, <1>5 DEF Exchange
  <2>3. ValuesOf(c) \in Seq(Int)
    <3>1. CASE o.fn # READ_HOLDING_REGISTERS
      <4>1. ValuesOf(c) = <<>>
        BY <1>3, <3>1 DEF ValuesOf, Static
      <4>. QED BY <4>1
    <3>2. CASE o.fn = READ_HOLDING_REGISTERS
      <4>1. c.fn = READ_HOLDING_REGISTERS
        BY <1>3, <3>2 DEF Static
      <4>2. Len(all) >= 3 /\ Len(all) - 2 = all[3] + 3
        BY <2>2, <3>2 DEF AnswerComplete, READ_HOLDING_REGISTERS, PRESET_SINGLE_REGISTER
      <4>3. AnswerComplete(c, c.response)
        BY <1>3, <4>1, <4>2, <3>2
           DEF AnswerComplete, READ_HOLDING_REGISTERS, PRESET_SINGLE_REGISTER
      <4>. QED BY <1>5, <2>2, <4>3, ValuesTyped
    <3>. QED BY <3>1, <3>2
  <2>4. Acceptable(p) /\ ValuesOf(p) = ValuesOf(c)
    <3>1. /\ p.response = c.response /\ p.confirmed = c.confirmed /\ Static(c, p)
      BY <1>3, <2>1 DEF Static, Exchange
    <3>2. ValuesOf(p) = ValuesOf(c)
      BY <3>1 DEF ValuesOf, Static
    <3>3. Acceptable(p)
      <4>. HIDE DEF p
      <4>. QED BY <1>5, <3>1, SameJudged
    <3>. QED BY <3>2, <3>3
  <2>5. p \in Exchange
    BY <1>3, <2>1, <2>3 DEF Exchange, YesNo
  <2>6. /\ Static(c, p) /\ p.response = c.response /\ p.confirmed = c.confirmed
        /\ p.completed = "yes" /\ p.finished = "yes" /\ p.ok = c.ok /\ p.values = ValuesOf(c)
    BY <1>3, <2>1, <2>2 DEF Exchange, Static
  <2>. HIDE DEF p
  <2>7. Static(o, p)
    BY <1>3, <2>6 DEF Static
  <2>8. Received(o, p, all)
    BY <1>3, <2>2, <2>4, <2>6, <2>7 DEF Received
  <2>. QED BY <2>5, <2>8 DEF p, all
<1>6. CASE c.completed # "no" /\ ~Acceptable(c)
  <2>1. p = [c EXCEPT !.finished = "yes", !.ok = "no"]
    BY <1>6 DEF ReceiveModbusFrame, c
  <2>2. AnswerComplete(o, all) /\ c.completed = "yes"
    BY <1>3, <1>6
  <2>3. /\ Static(c, p) /\ p.response = c.response /\ p.confirmed = c.confirmed
        /\ p.completed = "yes" /\ p.finished = "yes" /\ p.ok = "no" /\ p.values = c.values
    BY <1>3, <2>1, <2>2 DEF Exchange, Static
  <2>4. p \in Exchange
    BY <1>3, <2>1 DEF Exchange, YesNo
  <2>5. ~Acceptable(p)
    <3>. HIDE DEF p
    <3>. QED BY <1>6, <2>3, SameJudged
  <2>. HIDE DEF p
  <2>6. Static(o, p)
    BY <1>3, <2>3 DEF Static
  <2>7. Received(o, p, all)
    BY <1>3, <2>2, <2>3, <2>5, <2>6 DEF Received
  <2>. QED BY <2>4, <2>7 DEF p, all
<1>. QED BY <1>4, <1>5, <1>6 DEF all, c

LEMMA CompleteSame ==
  ASSUME NEW o, NEW p, NEW all, Received(o, p, all), all \in Seq(Byte),
         o.confirmed = "no" => o.fn = PRESET_MULTIPLE_REGISTER
  PROVE  AnswerComplete(p, p.response) <=> AnswerComplete(o, all)
<1>1. p.fn = o.fn /\ p.frame = o.frame
  BY DEF Received, Static
<1>2. CASE o.confirmed = "no" /\ all = o.frame
  <2>1. p.response = <<>> /\ p.confirmed = "yes"
    BY <1>2 DEF Received
  <2>2. /\ o.fn # READ_HOLDING_REGISTERS /\ o.fn # PRESET_SINGLE_REGISTER
        /\ o.confirmed # "yes"
    BY <1>2 DEF READ_HOLDING_REGISTERS, PRESET_SINGLE_REGISTER, PRESET_MULTIPLE_REGISTER
  <2>3. ~AnswerComplete(o, all)
    BY <1>2, <2>2 DEF AnswerComplete
  <2>4. AnswerComplete(p, <<>>) <=> Len(<<>>) >= 8
    BY <1>1, <2>1, <2>2 DEF AnswerComplete
  <2>. QED BY <2>1, <2>3, <2>4
<1>3. CASE ~(o.confirmed = "no" /\ all = o.frame)
  <2>1. p.response = all /\ p.confirmed = o.confirmed
    BY <1>3 DEF Received
  <2>. DEFINE Fields(fn, frame, confirmed) ==
                LET n == Len(all)
                IN  CASE fn = READ_HOLDING_REGISTERS -> n >= 3 /\ n - 2 = all[3] + 3
                      [] fn = PRESET_SINGLE_REGISTER -> n = Len(frame)
                      [] OTHER -> IF confirmed = "yes" THEN n >= 8
                                  ELSE n >= Len(frame) /\ all # frame
  <2>2. /\ AnswerComplete(o, all) <=> Fields(o.fn, o.frame, o.confirmed)
        /\ AnswerComplete(p, all) <=> Fields(p.fn, p.frame, p.confirmed)
    BY DEF AnswerComplete
  <2>. HIDE DEF Fields
  <2>. QED BY <1>1, <2>1, <2>2
<1>. QED BY <1>2, <1>3

(* A piece of the wire is the next of the answer. *)
LEMMA Pieces ==
  ASSUME NEW b \in Seq(Byte), NEW k \in 0..Len(b), NEW n \in 1..(Len(b) - k), NEW e \in 0..k
  PROVE  LET w == SubSeq(b, k + 1, Len(b))
         IN  /\ SubSeq(w, 1, n) = SubSeq(b, k + 1, k + n)
             /\ SubSeq(w, n + 1, Len(w)) = SubSeq(b, k + n + 1, Len(b))
             /\ Len(w) = Len(b) - k /\ Len(SubSeq(w, n + 1, Len(w))) = Len(b) - (k + n)
             /\ SubSeq(b, k + 1, k + n) \in Seq(Byte)
             /\ SubSeq(b, k + n + 1, Len(b)) \in Seq(Byte)
             /\ SubSeq(b, e + 1, k) \o SubSeq(b, k + 1, k + n) = SubSeq(b, e + 1, k + n)
<1>. DEFINE L == Len(b)
            w == SubSeq(b, k + 1, L)
<1>1. L \in Nat /\ \A i \in 1..L : b[i] \in Byte
  OBVIOUS
<1>. HIDE DEF L
<1>2. k \in 0..L /\ n \in 1..(L - k) /\ e \in 0..k /\ k + n \in 0..L
  <2>1. k \in 0..L /\ n \in 1..(L - k)
    BY DEF L
  <2>. QED BY <1>1, <2>1
<1>3. w \in Seq(Byte) /\ Len(w) = L - k
  <2>1. k + 1 \in Int /\ L \in Int /\ \A i \in (k + 1)..L : b[i] \in Byte
    BY <1>1, <1>2
  <2>2. w \in Seq(Byte) /\ Len(w) = IF k + 1 <= L THEN L - (k + 1) + 1 ELSE 0
    BY <2>1, SubSeqProperties
  <2>. HIDE DEF w
  <2>. QED BY <1>1, <1>2, <2>2
<1>4. SubSeq(w, 1, n) = SubSeq(b, k + 1, k + n)
  <2>1. /\ k + 1 \in 1..L /\ L \in 1..L /\ 1 \in 1..(L - (k + 1) + 1) /\ n \in 1..(L - (k + 1) + 1)
        /\ k + 1 + 1 - 1 = k + 1 /\ k + 1 + n - 1 = k + n
    BY <1>1, <1>2
  <2>2. SubSeq(w, 1, n) = SubSeq(b, k + 1 + 1 - 1, k + 1 + n - 1)
    BY <2>1, SubSeqOfSubSeq DEF L
  <2>. QED BY <2>1, <2>2
<1>5. SubSeq(w, n + 1, Len(w)) = SubSeq(b, k + n + 1, L)
  <2>1. CASE n = L - k
    <3>1. Len(w) < n + 1 /\ L < k + n + 1 /\ n + 1 \in Int /\ Len(w) \in Int
          /\ k + n + 1 \in Int /\ L \in Int
      BY <1>1, <1>2, <1>3, <2>1
    <3>. QED BY <3>1, SubSeqEmpty
  <2>2. CASE n # L - k
    <3>. DEFINE m == n + 1
                l == L - k
    <3>1. /\ k + 1 \in 1..L /\ L \in 1..L /\ m \in 1..(L - (k + 1) + 1) /\ l \in 1..(L - (k + 1) + 1)
          /\ k + 1 + m - 1 = k + n + 1 /\ k + 1 + l - 1 = L
      BY <1>1, <1>2, <2>2
    <3>. HIDE DEF m, l
    <3>2. SubSeq(w, m, l) = SubSeq(b, k + 1 + m - 1, k + 1 + l - 1)
      BY <3>1, SubSeqOfSubSeq DEF L
    <3>3. SubSeq(w, m, l) = SubSeq(b, k + n + 1, L)
      BY <3>1, <3>2
    <3>. QED BY <1>3, <3>3 DEF m, l
  <2>. QED BY <2>1, <2>2
<1>6. /\ SubSeq(b, k + n + 1, L) \in Seq(Byte)
      /\ Len(SubSeq(b, k + n + 1, L)) = L - (k + n)
  <2>. DEFINE m == k + n + 1
              s == SubSeq(b, m, L)
  <2>1. m \in Int /\ L \in Int /\ m \in 1..(L + 1) /\ L - m + 1 = L - (k + n)
        /\ \A i \in m..L : b[i] \in Byte
    BY <1>1, <1>2
  <2>. HIDE DEF m
  <2>2. s \in Seq(Byte) /\ Len(s) = IF m <= L THEN L - m + 1 ELSE 0
    BY <2>1, SubSeqProperties
  <2>. HIDE DEF s
  <2>3. s \in Seq(Byte) /\ Len(s) = L - (k + n)
    BY <1>1, <2>1, <2>2
  <2>. QED BY <2>3 DEF s, m
<1>7. SubSeq(b, k + 1, k + n) \in Seq(Byte)
  <2>1. k + 1 \in Int /\ k + n \in Int /\ \A i \in (k + 1)..(k + n) : b[i] \in Byte
    BY <1>1, <1>2
  <2>. QED BY <2>1, SubSeqProperties
<1>8. SubSeq(b, e + 1, k) \o SubSeq(b, k + 1, k + n) = SubSeq(b, e + 1, k + n)
  <2>. DEFINE m == e + 1
              h == k + n
  <2>1. m \in 1..(L + 1) /\ k \in (m - 1)..L /\ h \in k..L
    BY <1>1, <1>2
  <2>. HIDE DEF m, h
  <2>2. SubSeq(b, m, k) \o SubSeq(b, k + 1, h) = SubSeq(b, m, h)
    BY <2>1, ConcatAdjacentSubSeq DEF L
  <2>. QED BY <2>2 DEF m, h
<1>9. Len(SubSeq(w, n + 1, Len(w))) = L - (k + n)
  BY <1>5, <1>6
<1>. QED BY <1>3, <1>4, <1>5, <1>6, <1>7, <1>8, <1>9 DEF L

(* All of what a step of HandleRead does. *)
LEMMA ReadOf ==
  ASSUME ModbusInv, NEW n \in 1..Len(wire), HandleRead(n)
  PROVE  /\ op.completed = "no"
         /\ Received(op, op', SubSeq(answer.bytes, EchoLength + 1, ReadSoFar + n))
         /\ op' \in Exchange
         /\ wire' \in Seq(Byte) /\ Len(wire') = Len(answer.bytes) - (ReadSoFar + n)
         /\ wire' = SubSeq(answer.bytes, ReadSoFar + n + 1, Len(answer.bytes))
         /\ ReadSoFar \in Nat /\ n \in Nat \ {0} /\ ReadSoFar + n <= Len(answer.bytes)
         /\ Len(answer.bytes) \in Nat /\ answer' = answer
         /\ aligned' = IF ReadSoFar + n = Len(op.frame) THEN "yes" ELSE aligned
<1>. DEFINE b == answer.bytes
            L == Len(b)
            k == ReadSoFar
            e == EchoLength
            piece == SubSeq(wire, 1, n)
<1>1. /\ b \in Seq(Byte) /\ L \in Nat /\ k \in 0..L /\ e \in 0..k
      /\ wire = SubSeq(b, k + 1, L) /\ Len(wire) = L - k /\ k + 1 = L - Len(wire) + 1
  <2>1. b \in Seq(Byte) /\ L \in Nat /\ e \in Nat /\ k \in 0..L /\ e <= k
    BY ResponseIs DEF ModbusInv
  <2>2. wire \in Seq(Byte) /\ k = L - Len(wire) /\ wire = SubSeq(b, L - Len(wire) + 1, L)
    BY DEF ModbusInv, ModbusTyped, ReadSoFar
  <2>3. Len(wire) \in Nat
    BY <2>2
  <2>. HIDE DEF L, b, k, e
  <2>4. Len(wire) = L - k /\ k + 1 = L - Len(wire) + 1 /\ e \in 0..k
    BY <2>1, <2>2, <2>3
  <2>. QED BY <2>1, <2>2, <2>4
<1>2. n \in 1..(L - k)
  BY <1>1
<1>. HIDE DEF k, e, b
<1>3. /\ piece = SubSeq(b, k + 1, k + n) /\ piece \in Seq(Byte)
      /\ SubSeq(wire, n + 1, Len(wire)) = SubSeq(b, k + n + 1, L)
      /\ Len(SubSeq(wire, n + 1, Len(wire))) = L - (k + n)
      /\ SubSeq(b, k + n + 1, L) \in Seq(Byte)
      /\ SubSeq(b, e + 1, k) \o SubSeq(b, k + 1, k + n) = SubSeq(b, e + 1, k + n)
  BY <1>1, <1>2, Pieces
<1>4. op.completed = "no" /\ op \in Exchange
  <2>1. pending = "read"
    BY DEF HandleRead
  <2>2. op \in Exchange /\ (op.completed = "yes" => pending = "none")
    BY DEF ModbusInv, ModbusTyped, Judged
  <2>. QED BY <2>1, <2>2 DEF Exchange, YesNo
<1>5. op.fn = READ_HOLDING_REGISTERS => op.confirmed # "no"
  <2>1. Allowed(op) /\ (op.need = "no" => op.confirmed = "yes")
    BY DEF ModbusInv, ModbusTyped, Kept
  <2>2. op.fn = READ_HOLDING_REGISTERS => op.need = "no"
    BY <2>1, AllowedNumbers
       DEF READ_HOLDING_REGISTERS, PRESET_SINGLE_REGISTER, PRESET_MULTIPLE_REGISTER
  <2>. QED BY <2>1, <2>2
<1>6. op.response = SubSeq(b, e + 1, k)
  BY DEF ModbusInv, Kept, e, k, b
<1>7. Received(op, op', SubSeq(b, e + 1, k + n)) /\ op' \in Exchange
  <2>1. op' = ReceiveModbusFrame(op, piece)
    BY DEF HandleRead
  <2>. HIDE DEF piece
  <2>2. Received(op, op', op.response \o piece) /\ op' \in Exchange
    BY <1>3, <1>4, <1>5, <2>1, ReceivedIs
  <2>3. op.response \o piece = SubSeq(b, e + 1, k + n)
    BY <1>3, <1>6
  <2>. QED BY <2>2, <2>3
<1>8. /\ wire' = SubSeq(wire, n + 1, Len(wire)) /\ answer' = answer
      /\ aligned' = IF Len(b) - Len(wire) + n = Len(op.frame) THEN "yes" ELSE aligned
  BY DEF HandleRead, b
<1>. HIDE DEF piece
<1>9. Len(b) - Len(wire) + n = k + n /\ k \in Nat /\ n \in Nat \ {0} /\ k + n <= L
  <2>. DEFINE l == Len(wire)
  <2>1. L \in Nat /\ k \in 0..L /\ l = L - k /\ n \in 1..(L - k)
    BY <1>1, <1>2
  <2>. HIDE DEF L, l
  <2>2. L - l + n = k + n /\ k \in Nat /\ n \in Nat \ {0} /\ k + n <= L
    BY <2>1
  <2>. QED BY <2>2 DEF L, l
<1>. QED BY <1>1, <1>3, <1>4, <1>7, <1>8, <1>9 DEF k, e, b

LEMMA ReadStep ==
  ASSUME ModbusInv, NEW n \in 1..Len(wire), HandleRead(n)
  PROVE  ModbusInv'
<1>. DEFINE b == answer.bytes
            L == Len(b)
            k == ReadSoFar
            e == EchoLength
            all == SubSeq(b, e + 1, k + n)
            frame == op.frame
            echo == op.confirmed = "no" /\ all = frame
<1>1. /\ op.completed = "no" /\ Received(op, op', all) /\ op' \in Exchange
      /\ wire' \in Seq(Byte) /\ Len(wire') = L - (k + n) /\ wire' = SubSeq(b, k + n + 1, L)
      /\ k \in Nat /\ n \in Nat \ {0} /\ k + n <= L /\ L \in Nat /\ answer' = answer
      /\ aligned' = IF k + n = Len(frame) THEN "yes" ELSE aligned
  BY ReadOf
<1>2. /\ op \in Exchange /\ Allowed(op) /\ frame = Frame(op) /\ b \in Seq(Byte)
      /\ answer = NoAnswer \/ answer \in Answers(op)
  BY DEF ModbusInv, ModbusTyped
<1>3. /\ Static(op, op')
      /\ op'.response = IF echo THEN <<>> ELSE all
      /\ op'.confirmed = IF echo THEN "yes" ELSE op.confirmed
  BY <1>1 DEF Received
<1>4. /\ Allowed(op') /\ Frame(op') = Frame(op) /\ Answers(op') = Answers(op)
      /\ op'.frame = frame /\ op'.need = op.need
  BY <1>2, <1>3, StaticSame DEF Static
<1>5. e \in Nat /\ e <= k /\ Len(frame) \in Nat
  BY <1>2, ResponseIs, FrameLength DEF ModbusInv
<1>6. ReadSoFar' = k + n
  <2>. DEFINE w == Len(wire')
  <2>1. L \in Nat /\ w = L - (k + n) /\ k \in Nat /\ n \in Nat
    BY <1>1
  <2>. HIDE DEF w, L, k
  <2>2. L - w = k + n
    BY <2>1
  <2>3. ReadSoFar' = L - w
    BY <1>1 DEF ReadSoFar, L, w
  <2>. QED BY <2>2, <2>3 DEF L, w
<1>7. ModbusTyped'
  <2>1. wire' = SubSeq(b, L - Len(wire') + 1, L) /\ Len(wire') <= L
    <3>. DEFINE w == Len(wire')
    <3>1. L \in Nat /\ w = L - (k + n) /\ k \in Nat /\ n \in Nat
      BY <1>1
    <3>. HIDE DEF w, L, k
    <3>2. L - w + 1 = k + n + 1 /\ w <= L
      BY <3>1
    <3>. QED BY <1>1, <3>2 DEF w
  <2>. QED BY <1>1, <1>2, <1>4, <2>1 DEF ModbusTyped
<1>8. Kept
  BY DEF ModbusInv
<1>9. op.need = "yes" \/ (op.need = "no" /\ op.confirmed = "yes")
  BY <1>2, <1>8 DEF Exchange, YesNo, Kept
<1>10. op.confirmed = "no" => e = 0 /\ op.need = "yes" /\ ~Echoed
  BY <1>9 DEF EchoLength, Echoed
<1>. HIDE DEF e, k, L, b
<1>11. Kept'
  <2>1. CASE echo
    <3>1. /\ op'.response = <<>> /\ op'.confirmed = "yes" /\ op'.need = "yes" /\ e = 0
          /\ SubSeq(b, e + 1, k + n) = frame
      BY <1>3, <1>4, <1>10, <2>1
    <3>2. SubSeq(b, 1, k + n) = frame /\ Len(frame) = k + n
      <4>. DEFINE h == k + n
                  s == SubSeq(b, 1, h)
      <4>1. h \in Nat \ {0} /\ h <= L /\ L \in Nat
        BY <1>1
      <4>. HIDE DEF h
      <4>2. \A i \in 1..h : b[i] \in Byte
        <5>1. \A i \in 1..h : i \in 1..Len(b)
          BY <4>1 DEF L
        <5>. QED BY <1>2, <5>1, ElementOfSeq
      <4>3. Len(s) = IF 1 <= h THEN h - 1 + 1 ELSE 0
        BY <4>1, <4>2, SubSeqProperties
      <4>. HIDE DEF s
      <4>4. Len(s) = h
        BY <4>1, <4>3
      <4>5. s = frame
        BY <3>1 DEF s, h
      <4>. QED BY <4>4, <4>5 DEF s, h
    <3>3. EchoLength' = k + n
      BY <1>4, <3>1, <3>2 DEF EchoLength, Echoed
    <3>4. <<>> = SubSeq(b, k + n + 1, k + n)
      BY <1>1, SubSeqEmpty
    <3>5. EchoComes'
      BY <1>1, <1>4, <3>2 DEF EchoComes, b
    <3>6. op'.confirmed # "no" /\ op'.need # "no" /\ k + n <= k + n /\ k + n >= Len(frame)
      BY <1>1, <3>1, <3>2
    <3>. QED BY <1>1, <1>4, <1>6, <3>1, <3>3, <3>4, <3>5, <3>6 DEF Kept, Echoed, b
  <2>2. CASE ~echo
    <3>1. op'.response = all /\ op'.confirmed = op.confirmed
      BY <1>3, <2>2
    <3>2. /\ EchoLength' = e /\ Echoed' = Echoed /\ EchoComes' = EchoComes
      BY <1>1, <1>4, <3>1 DEF EchoLength, Echoed, EchoComes, e
    <3>3. e <= k + n
      BY <1>1, <1>5
    <3>4. op.confirmed = "no" => all # frame
      BY <2>2
    <3>5. aligned' = "yes" => k + n >= Len(frame)
      <4>1. aligned = "yes" => k >= Len(frame)
        BY <1>8 DEF Kept, k
      <4>. DEFINE f == Len(frame)
      <4>2. f \in Nat /\ k \in Nat /\ n \in Nat
        BY <1>1, <1>5
      <4>. HIDE DEF f
      <4>3. (k >= f => k + n >= f) /\ (k + n = f => k + n >= f)
        BY <4>2
      <4>. QED BY <1>1, <4>1, <4>3 DEF f
    <3>6. aligned' = "yes" /\ op.need = "yes" /\ EchoComes => op.confirmed = "yes"
      <4>. SUFFICES ASSUME aligned' = "yes", op.need = "yes", EchoComes, op.confirmed # "yes"
                    PROVE  FALSE
        OBVIOUS
      <4>1. aligned # "yes"
        BY <1>8 DEF Kept
      <4>2. k + n = Len(frame)
        BY <1>1, <4>1
      <4>3. op.confirmed = "no"
        BY <1>2 DEF Exchange, YesNo
      <4>4. SubSeq(b, 1, k + n) = frame
        BY <4>2 DEF EchoComes, b
      <4>5. all = frame
        BY <1>10, <4>3, <4>4
      <4>. QED BY <3>4, <4>3, <4>5
    <3>. HIDE DEF all
    <3>7. all = SubSeq((answer.bytes)', EchoLength' + 1, ReadSoFar')
      BY <1>1, <1>6, <3>2 DEF all, b
    <3>. QED BY <1>1, <1>4, <1>6, <1>8, <3>1, <3>2, <3>3, <3>4, <3>5, <3>6, <3>7 DEF Kept
  <2>. QED BY <2>1, <2>2
<1>12. /\ op.finished = "no" /\ op.ok = "yes" /\ op.values = <<>>
  BY <1>1 DEF ModbusInv, Judged
<1>13. all \in Seq(Byte)
  <2>. DEFINE m == e + 1
              h == k + n
  <2>1. m \in Int /\ h \in Int /\ m >= 1 /\ h <= L /\ L \in Nat
    BY <1>1, <1>5
  <2>2. \A i \in m..h : i \in 1..L
    <3>. HIDE DEF m, h
    <3>. QED BY <2>1
  <2>. HIDE DEF m, h
  <2>3. \A i \in m..h : b[i] \in Byte
    BY <1>2, <2>2, ElementOfSeq DEF L
  <2>4. SubSeq(b, m, h) \in Seq(Byte)
    BY <2>1, <2>3, SubSeqProperties
  <2>. QED BY <2>4 DEF m, h
<1>14. op.confirmed = "no" => op.fn = PRESET_MULTIPLE_REGISTER
  BY <1>2, <1>10, AllowedNumbers
     DEF READ_HOLDING_REGISTERS, PRESET_SINGLE_REGISTER, PRESET_MULTIPLE_REGISTER
<1>15. AnswerComplete(op', op'.response) <=> AnswerComplete(op, all)
  <2>. HIDE DEF all
  <2>. QED BY <1>1, <1>13, <1>14, CompleteSame
<1>16. Judged' /\ Released'
  <2>. DEFINE done == AnswerComplete(op, all)
  <2>1. /\ op'.completed = IF done THEN "yes" ELSE "no"
        /\ op'.completed = "no" => /\ op'.finished = op.finished /\ op'.ok = op.ok
                                   /\ op'.values = op.values
        /\ op'.completed = "yes" =>
             /\ op'.finished = "yes"
             /\ op'.ok = IF Acceptable(op') THEN op.ok ELSE "no"
             /\ op'.values = IF Acceptable(op') THEN ValuesOf(op') ELSE op.values
    BY <1>1 DEF Received
  <2>. HIDE DEF done
  <2>2. op'.completed = "yes" <=> AnswerComplete(op', op'.response)
    BY <1>15, <2>1 DEF done
  <2>3. CASE op'.completed = "no"
    <3>1. UNCHANGED tcp
      BY <2>3 DEF HandleRead
    <3>2. Released'
      BY <3>1 DEF Released, tcp, ModbusInv
    <3>3. Judged'
      BY <1>12, <2>1, <2>2, <2>3 DEF Judged
    <3>. QED BY <3>2, <3>3
  <2>4. CASE op'.completed # "no"
    <3>1. pending' = "none" /\ conn' = "closed" /\ buffers' = "no"
      BY <2>4 DEF HandleRead, Finish
    <3>2. Released'
      BY <3>1 DEF Released
    <3>3. op'.completed = "yes"
      BY <2>1, <2>4
    <3>4. Judged'
      BY <1>12, <2>1, <2>2, <3>1, <3>3 DEF Judged
    <3>. QED BY <3>2, <3>4
  <2>. QED BY <2>3, <2>4
<1>. QED BY <1>7, <1>11, <1>16 DEF ModbusInv

-----------------------------------------------------------------------------
(* The two tables give the CRC of Modbus.  Words are their bits: eight     *)
(* shifts of a word are one look into each table.                          *)

Bits == {0, 1}

Differ(a, b) == IF a = b THEN 0 ELSE 1

Octet(a0, a1, a2, a3, a4, a5, a6, a7) ==
  a0 + 2 * a1 + 4 * a2 + 8 * a3 + 16 * a4 + 32 * a5 + 64 * a6 + 128 * a7

HasBits(x, a0, a1, a2, a3, a4, a5, a6, a7) ==
  /\ x \in Byte
  /\ (x \div 1) % 2 = a0 /\ (x \div 2) % 2 = a1 /\ (x \div 4) % 2 = a2
  /\ (x \div 8) % 2 = a3 /\ (x \div 16) % 2 = a4 /\ (x \div 32) % 2 = a5
  /\ (x \div 64) % 2 = a6 /\ (x \div 128) % 2 = a7

LEMMA BitsOfOctet ==
  \A a0, a1, a2, a3, a4, a5, a6, a7 \in Bits :
    HasBits(Octet(a0, a1, a2, a3, a4, a5, a6, a7), a0, a1, a2, a3, a4, a5, a6, a7)
<1>. TAKE a0, a1, a2, a3, a4, a5, a6, a7 \in Bits
<1>. DEFINE x == Octet(a0, a1, a2, a3, a4, a5, a6, a7)
<1>1. x \in Byte /\ (x \div 1) % 2 = a0 /\ (x \div 2) % 2 = a1
  BY DEF Octet, Byte, Bits
<1>2. (x \div 4) % 2 = a2 /\ (x \div 8) % 2 = a3
  BY DEF Octet, Bits
<1>3. (x \div 16) % 2 = a4 /\ (x \div 32) % 2 = a5
  BY DEF Octet, Bits
<1>4. (x \div 64) % 2 = a6 /\ (x \div 128) % 2 = a7
  BY DEF Octet, Bits
<1>. QED BY <1>1, <1>2, <1>3, <1>4 DEF HasBits

LEMMA OctetOfByte ==
  ASSUME NEW a \in Byte
  PROVE  \E a0, a1, a2, a3, a4, a5, a6, a7 \in Bits : a = Octet(a0, a1, a2, a3, a4, a5, a6, a7)
<1>1. BitsOf(a) \in [1..8 -> Bits] /\ Value(BitsOf(a)) = a
  BY BitsAreValue DEF Bits
<1>2. \A i \in 1..8 : BitsOf(a)[i] \in Bits
  BY <1>1
<1>3. a = Octet(BitsOf(a)[1], BitsOf(a)[2], BitsOf(a)[3], BitsOf(a)[4],
                BitsOf(a)[5], BitsOf(a)[6], BitsOf(a)[7], BitsOf(a)[8])
  BY <1>1 DEF Value, Octet
<1>4. 1 \in 1..8 /\ 2 \in 1..8 /\ 3 \in 1..8 /\ 4 \in 1..8 /\ 5 \in 1..8 /\ 6 \in 1..8
      /\ 7 \in 1..8 /\ 8 \in 1..8
  OBVIOUS
<1>. QED BY <1>2, <1>3, <1>4

XorsTo(a0, a1, a2, a3, a4, a5, a6, a7, b0, b1, b2, b3, b4, b5, b6, b7) ==
  XorByte(Octet(a0, a1, a2, a3, a4, a5, a6, a7), Octet(b0, b1, b2, b3, b4, b5, b6, b7))
    = Octet(Differ(a0, b0), Differ(a1, b1), Differ(a2, b2), Differ(a3, b3),
            Differ(a4, b4), Differ(a5, b5), Differ(a6, b6), Differ(a7, b7))

LEMMA XorOctet ==
  \A a0, a1, a2, a3, a4, a5, a6, a7, b0, b1, b2, b3, b4, b5, b6, b7 \in Bits :
    XorsTo(a0, a1, a2, a3, a4, a5, a6, a7, b0, b1, b2, b3, b4, b5, b6, b7)
<1>. TAKE a0, a1, a2, a3, a4, a5, a6, a7, b0, b1, b2, b3, b4, b5, b6, b7 \in Bits
<1>. DEFINE x == Octet(a0, a1, a2, a3, a4, a5, a6, a7)
            y == Octet(b0, b1, b2, b3, b4, b5, b6, b7)
            i0 == IF a0 = b0 THEN 0 ELSE 1
            i1 == IF a1 = b1 THEN 0 ELSE 2
            i2 == IF a2 = b2 THEN 0 ELSE 4
            i3 == IF a3 = b3 THEN 0 ELSE 8
            i4 == IF a4 = b4 THEN 0 ELSE 16
            i5 == IF a5 = b5 THEN 0 ELSE 32
            i6 == IF a6 = b6 THEN 0 ELSE 64
            i7 == IF a7 = b7 THEN 0 ELSE 128
<1>1. /\ HasBits(x, a0, a1, a2, a3, a4, a5, a6, a7)
      /\ HasBits(y, b0, b1, b2, b3, b4, b5, b6, b7)
  BY BitsOfOctet
<1>. HIDE DEF x, y
<1>3. XorByte(x, y) = i0 + i1 + i2 + i3 + i4 + i5 + i6 + i7
  BY <1>1 DEF XorByte, HasBits
<1>4. /\ i0 = Differ(a0, b0) /\ i1 = 2 * Differ(a1, b1) /\ i2 = 4 * Differ(a2, b2)
      /\ i3 = 8 * Differ(a3, b3) /\ i4 = 16 * Differ(a4, b4) /\ i5 = 32 * Differ(a5, b5)
      /\ i6 = 64 * Differ(a6, b6) /\ i7 = 128 * Differ(a7, b7)
  BY DEF Differ, Bits
<1>. HIDE DEF i0, i1, i2, i3, i4, i5, i6, i7
<1>5. XorByte(x, y) = Octet(Differ(a0, b0), Differ(a1, b1), Differ(a2, b2), Differ(a3, b3),
                            Differ(a4, b4), Differ(a5, b5), Differ(a6, b6), Differ(a7, b7))
  BY <1>3, <1>4 DEF Octet
<1>. QED BY <1>5 DEF x, y, XorsTo

(* A word is its bytes. *)
LEMMA WordOfBytes ==
  ASSUME NEW h \in Byte, NEW l \in Byte
  PROVE  Hi(256 * h + l) = h /\ Lo(256 * h + l) = l
<1>1. h \in 0..255 /\ l \in 0..255
  BY DEF Byte
<1>2. (256 * h + l) \div 256 = h /\ (256 * h + l) % 256 = l /\ h % 256 = h
  BY <1>1
<1>. QED BY <1>2 DEF Hi, Lo

ShiftsTo(l0, l1, l2, l3, l4, l5, l6, l7, h0, h1, h2, h3, h4, h5, h6, h7) ==
  Shift(256 * Octet(h0, h1, h2, h3, h4, h5, h6, h7) + Octet(l0, l1, l2, l3, l4, l5, l6, l7))
    = 256 * Octet(h1, h2, h3, h4, h5, Differ(h6, l0), h7, l0)
      + Octet(Differ(l1, l0), l2, l3, l4, l5, l6, l7, h0)

LEMMA ShiftOf ==
  \A l0, l1, l2, l3, l4, l5, l6, l7, h0, h1, h2, h3, h4, h5, h6, h7 \in Bits :
    ShiftsTo(l0, l1, l2, l3, l4, l5, l6, l7, h0, h1, h2, h3, h4, h5, h6, h7)
<1>. TAKE l0, l1, l2, l3, l4, l5, l6, l7, h0, h1, h2, h3, h4, h5, h6, h7 \in Bits
<1>. DEFINE v == 256 * Octet(h0, h1, h2, h3, h4, h5, h6, h7)
                 + Octet(l0, l1, l2, l3, l4, l5, l6, l7)
            H == Octet(h1, h2, h3, h4, h5, h6, h7, 0)
            L == Octet(l1, l2, l3, l4, l5, l6, l7, h0)
            u == 256 * H + L
<1>1. v = 2 * u + l0 /\ u \in Int /\ l0 \in {0, 1}
  BY DEF Octet, Bits
<1>. HIDE DEF v
<1>2. v % 2 = l0 /\ v \div 2 = u
  <2>. HIDE DEF u
  <2>. QED BY <1>1
<1>3. H \in Byte /\ L \in Byte
  <2>1. 0 \in Bits
    BY DEF Bits
  <2>2. HasBits(H, h1, h2, h3, h4, h5, h6, h7, 0) /\ HasBits(L, l1, l2, l3, l4, l5, l6, l7, h0)
    BY <2>1, BitsOfOctet
  <2>. QED BY <2>2 DEF HasBits
<1>4. Hi(u) = H /\ Lo(u) = L
  <2>. HIDE DEF H, L
  <2>. QED BY <1>3, WordOfBytes
<1>5. Hi(40961) = Octet(0, 0, 0, 0, 0, 1, 0, 1) /\ Lo(40961) = Octet(1, 0, 0, 0, 0, 0, 0, 0)
  BY DEF Hi, Lo, Octet
<1>6. \A a \in Bits : Differ(a, 0) = a
  BY DEF Differ, Bits
<1>7. CASE l0 = 0
  <2>1. Shift(v) = u
    BY <1>2, <1>7 DEF Shift
  <2>2. Differ(h6, l0) = h6 /\ Differ(l1, l0) = l1
    BY <1>6, <1>7
  <2>. QED BY <1>7, <2>1, <2>2 DEF v, ShiftsTo
<1>8. CASE l0 = 1
  <2>1. Shift(v) = 256 * XorByte(Hi(u), Hi(40961)) + XorByte(Lo(u), Lo(40961))
    BY <1>2, <1>8 DEF Shift, XorWord
  <2>. DEFINE z == 0
              o == 1
  <2>2. z \in Bits /\ o \in Bits
    BY DEF Bits
  <2>. HIDE DEF z, o
  <2>3. /\ XorsTo(h1, h2, h3, h4, h5, h6, h7, z, z, z, z, z, z, o, z, o)
        /\ XorsTo(l1, l2, l3, l4, l5, l6, l7, h0, o, z, z, z, z, z, z, z)
    BY <2>2, XorOctet
  <2>4. Differ(0, 1) = 1
    BY DEF Differ
  <2>5. XorByte(H, Octet(0, 0, 0, 0, 0, 1, 0, 1)) = Octet(h1, h2, h3, h4, h5, Differ(h6, 1), h7, 1)
    BY <1>6, <2>3, <2>4 DEF z, o, XorsTo
  <2>6. XorByte(L, Octet(1, 0, 0, 0, 0, 0, 0, 0)) = Octet(Differ(l1, 1), l2, l3, l4, l5, l6, l7, h0)
    BY <1>6, <2>3 DEF z, o, XorsTo
  <2>. HIDE DEF u, H, L
  <2>7. Shift(v) = 256 * Octet(h1, h2, h3, h4, h5, Differ(h6, 1), h7, 1)
                   + Octet(Differ(l1, 1), l2, l3, l4, l5, l6, l7, h0)
    BY <1>4, <1>5, <2>1, <2>5, <2>6
  <2>. QED BY <1>8, <2>7 DEF v, ShiftsTo
<1>9. l0 = 0 \/ l0 = 1
  BY DEF Bits
<1>. QED BY <1>7, <1>8, <1>9 DEF ShiftsTo, v

(* The entries of the tables: f1, ..., f8 are what is shifted out.         *)
Entries(l0, l1, l2, l3, l4, l5, l6, l7) ==
  LET i == Octet(l0, l1, l2, l3, l4, l5, l6, l7) + 1
      f1 == l0
      f2 == Differ(l1, f1)
      f3 == Differ(l2, f2)
      f4 == Differ(l3, f3)
      f5 == Differ(l4, f4)
      f6 == Differ(l5, f5)
      f7 == Differ(l6, f6)
      f8 == Differ(l7, f7)
  IN  /\ table_crc_hi[i] = Octet(f8, 0, 0, 0, 0, 0, f1, f2)
      /\ table_crc_lo[i] = Octet(Differ(f1, f3), Differ(f2, f4), Differ(f3, f5), Differ(f4, f6),
                                 Differ(f5, f7), Differ(f6, f8), f7, f8)

LEMMA EntryIs ==
  \A l0, l1, l2, l3, l4, l5, l6, l7 \in Bits : Entries(l0, l1, l2, l3, l4, l5, l6, l7)
<1>. TAKE l0, l1, l2, l3, l4, l5, l6, l7 \in Bits
<1>1. CASE l7 = 0 /\ l6 = 0
  BY <1>1, SMTT(60) DEF Entries, Bits, Octet, Differ, table_crc_hi, table_crc_lo
<1>2. CASE l7 = 0 /\ l6 = 1
  BY <1>2, SMTT(60) DEF Entries, Bits, Octet, Differ, table_crc_hi, table_crc_lo
<1>3. CASE l7 = 1 /\ l6 = 0
  BY <1>3, SMTT(60) DEF Entries, Bits, Octet, Differ, table_crc_hi, table_crc_lo
<1>4. CASE l7 = 1 /\ l6 = 1
  BY <1>4, SMTT(60) DEF Entries, Bits, Octet, Differ, table_crc_hi, table_crc_lo
<1>. QED BY <1>1, <1>2, <1>3, <1>4 DEF Bits

(* A step of the tables is eight shifts. *)
LEMMA EightShifts ==
  ASSUME NEW h \in Byte, NEW l \in Byte
  PROVE  Shift(Shift(Shift(Shift(Shift(Shift(Shift(Shift(256 * h + l))))))))
           = 256 * table_crc_lo[l + 1] + XorByte(h, table_crc_hi[l + 1])
<1>1. PICK l0, l1, l2, l3, l4, l5, l6, l7 \in Bits : l = Octet(l0, l1, l2, l3, l4, l5, l6, l7)
  BY OctetOfByte
<1>2. PICK h0, h1, h2, h3, h4, h5, h6, h7 \in Bits : h = Octet(h0, h1, h2, h3, h4, h5, h6, h7)
  BY OctetOfByte
<1>3. \A a, b \in Bits : Differ(a, b) \in Bits
  BY DEF Differ, Bits
<1>. DEFINE f1 == l0
            f2 == Differ(l1, f1)
            f3 == Differ(l2, f2)
            f4 == Differ(l3, f3)
            f5 == Differ(l4, f4)
            f6 == Differ(l5, f5)
            f7 == Differ(l6, f6)
            f8 == Differ(l7, f7)
<1>4. /\ table_crc_hi[l + 1] = Octet(f8, 0, 0, 0, 0, 0, f1, f2)
      /\ table_crc_lo[l + 1] = Octet(Differ(f1, f3), Differ(f2, f4), Differ(f3, f5), Differ(f4, f6),
                                     Differ(f5, f7), Differ(f6, f8), f7, f8)
  <2>1. Entries(l0, l1, l2, l3, l4, l5, l6, l7)
    BY EntryIs
  <2>. QED BY <1>1, <2>1 DEF Entries
<1>5. f1 \in Bits /\ f2 = Differ(l1, f1) /\ f3 = Differ(l2, f2) /\ f4 = Differ(l3, f3)
      /\ f5 = Differ(l4, f4) /\ f6 = Differ(l5, f5) /\ f7 = Differ(l6, f6) /\ f8 = Differ(l7, f7)
      /\ f1 = l0
  OBVIOUS
<1>. HIDE DEF f1, f2, f3, f4, f5, f6, f7, f8
<1>6. f2 \in Bits /\ f3 \in Bits /\ f4 \in Bits /\ f5 \in Bits
      /\ f6 \in Bits /\ f7 \in Bits /\ f8 \in Bits
  BY <1>3, <1>5
<1>. DEFINE g6 == Differ(h6, f1)
            g7 == Differ(h7, f2)
            d1 == Differ(f1, f3)
            d2 == Differ(f2, f4)
            d3 == Differ(f3, f5)
            d4 == Differ(f4, f6)
            d5 == Differ(f5, f7)
            d6 == Differ(f6, f8)
            g0 == Differ(h0, f8)
<1>7. g6 \in Bits /\ g7 \in Bits /\ d1 \in Bits /\ d2 \in Bits /\ d3 \in Bits
      /\ d4 \in Bits /\ d5 \in Bits /\ d6 \in Bits /\ g0 \in Bits
  BY <1>3, <1>5, <1>6
<1>. DEFINE v1 == 256 * Octet(h1, h2, h3, h4, h5, g6, h7, f1) + Octet(f2, l2, l3, l4, l5, l6, l7, h0)
            v2 == 256 * Octet(h2, h3, h4, h5, g6, g7, f1, f2) + Octet(f3, l3, l4, l5, l6, l7, h0, h1)
            v3 == 256 * Octet(h3, h4, h5, g6, g7, d1, f2, f3) + Octet(f4, l4, l5, l6, l7, h0, h1, h2)
            v4 == 256 * Octet(h4, h5, g6, g7, d1, d2, f3, f4) + Octet(f5, l5, l6, l7, h0, h1, h2, h3)
            v5 == 256 * Octet(h5, g6, g7, d1, d2, d3, f4, f5) + Octet(f6, l6, l7, h0, h1, h2, h3, h4)
            v6 == 256 * Octet(g6, g7, d1, d2, d3, d4, f5, f6) + Octet(f7, l7, h0, h1, h2, h3, h4, h5)
            v7 == 256 * Octet(g7, d1, d2, d3, d4, d5, f6, f7) + Octet(f8, h0, h1, h2, h3, h4, h5, g6)
            v8 == 256 * Octet(d1, d2, d3, d4, d5, d6, f7, f8) + Octet(g0, h1, h2, h3, h4, h5, g6, g7)
<1>8. /\ ShiftsTo(l0, l1, l2, l3, l4, l5, l6, l7, h0, h1, h2, h3, h4, h5, h6, h7)
      /\ ShiftsTo(f2, l2, l3, l4, l5, l6, l7, h0, h1, h2, h3, h4, h5, g6, h7, f1)
      /\ ShiftsTo(f3, l3, l4, l5, l6, l7, h0, h1, h2, h3, h4, h5, g6, g7, f1, f2)
      /\ ShiftsTo(f4, l4, l5, l6, l7, h0, h1, h2, h3, h4, h5, g6, g7, d1, f2, f3)
  <2>. HIDE DEF g6, g7, d1
  <2>. QED BY <1>5, <1>6, <1>7, ShiftOf
<1>9. /\ ShiftsTo(f5, l5, l6, l7, h0, h1, h2, h3, h4, h5, g6, g7, d1, d2, f3, f4)
      /\ ShiftsTo(f6, l6, l7, h0, h1, h2, h3, h4, h5, g6, g7, d1, d2, d3, f4, f5)
      /\ ShiftsTo(f7, l7, h0, h1, h2, h3, h4, h5, g6, g7, d1, d2, d3, d4, f5, f6)
      /\ ShiftsTo(f8, h0, h1, h2, h3, h4, h5, g6, g7, d1, d2, d3, d4, d5, f6, f7)
  <2>. HIDE DEF g6, g7, d1, d2, d3, d4, d5
  <2>. QED BY <1>5, <1>6, <1>7, ShiftOf
<1>10. Shift(256 * h + l) = v1
  BY <1>1, <1>2, <1>5, <1>8 DEF ShiftsTo
<1>11. Shift(v1) = v2 /\ Shift(v2) = v3 /\ Shift(v3) = v4
  BY <1>5, <1>8 DEF ShiftsTo
<1>12. Shift(v4) = v5 /\ Shift(v5) = v6 /\ Shift(v6) = v7 /\ Shift(v7) = v8
  BY <1>5, <1>9 DEF ShiftsTo
<1>13. XorByte(h, table_crc_hi[l + 1]) = Octet(g0, h1, h2, h3, h4, h5, g6, g7)
  <2>. DEFINE z == 0
  <2>1. z \in Bits /\ table_crc_hi[l + 1] = Octet(f8, z, z, z, z, z, f1, f2)
    BY <1>4 DEF Bits
  <2>2. \A a \in Bits : Differ(a, z) = a
    BY DEF Differ, Bits
  <2>. HIDE DEF z
  <2>3. XorsTo(h0, h1, h2, h3, h4, h5, h6, h7, f8, z, z, z, z, z, f1, f2)
    BY <1>5, <1>6, <2>1, XorOctet
  <2>. QED BY <1>2, <2>1, <2>2, <2>3 DEF XorsTo
<1>14. v8 = 256 * table_crc_lo[l + 1] + XorByte(h, table_crc_hi[l + 1])
  BY <1>4, <1>13
<1>. HIDE DEF v1, v2, v3, v4, v5, v6, v7, v8
<1>. QED BY <1>10, <1>11, <1>12, <1>14

Joined(c) == 256 * c[2] + c[1]

LEMMA StepIsShifts ==
  ASSUME NEW c \in Pair, NEW b \in Byte
  PROVE  Shift(Shift(Shift(Shift(Shift(Shift(Shift(Shift(XorWord(Joined(c), b)))))))))
           = Joined(CrcStep(c, b))
<1>1. c[1] \in Byte /\ c[2] \in Byte
  BY DEF Pair
<1>. DEFINE l == XorByte(c[1], b)
            h == c[2]
<1>2. l \in Byte /\ h \in Byte
  BY <1>1, XorTyped
<1>3. Hi(Joined(c)) = c[2] /\ Lo(Joined(c)) = c[1]
  BY <1>1, WordOfBytes DEF Joined
<1>4. Hi(b) = 0 /\ Lo(b) = b
  <2>1. b \in 0..255
    BY DEF Byte
  <2>2. b \div 256 = 0 /\ b % 256 = b /\ 0 % 256 = 0
    BY <2>1
  <2>. QED BY <2>2 DEF Hi, Lo
<1>5. XorByte(c[2], 0) = c[2]
  <2>1. PICK h0, h1, h2, h3, h4, h5, h6, h7 \in Bits : c[2] = Octet(h0, h1, h2, h3, h4, h5, h6, h7)
    BY <1>1, OctetOfByte
  <2>. DEFINE z == 0
  <2>2. z \in Bits /\ z = Octet(z, z, z, z, z, z, z, z)
    BY DEF Octet, Bits
  <2>3. \A a \in Bits : Differ(a, z) = a
    BY DEF Differ, Bits
  <2>. HIDE DEF z
  <2>4. XorsTo(h0, h1, h2, h3, h4, h5, h6, h7, z, z, z, z, z, z, z, z)
    BY <2>2, XorOctet
  <2>5. XorByte(c[2], z) = c[2]
    BY <2>1, <2>2, <2>3, <2>4 DEF XorsTo
  <2>. QED BY <2>5 DEF z
<1>6. XorWord(Joined(c), b) = 256 * h + l
  BY <1>3, <1>4, <1>5, Zenon DEF XorWord
<1>7. CrcStep(c, b) = <<XorByte(h, table_crc_hi[l + 1]), table_crc_lo[l + 1]>>
  BY DEF CrcStep
<1>. HIDE DEF h, l
<1>8. Joined(CrcStep(c, b)) = 256 * table_crc_lo[l + 1] + XorByte(h, table_crc_hi[l + 1])
  BY <1>7 DEF Joined
<1>. QED BY <1>2, <1>6, <1>8, EightShifts

(* The reference takes a frame byte by byte too, with eight shifts each. *)
LEMMA ShiftedTyped ==
  ASSUME NEW v \in Int, NEW b \in Int PROVE EightShifted(XorWord(v, b)) \in Int
<1>1. \A a, c : XorByte(a, c) \in Int
  BY DEF XorByte
<1>2. \A a, c : XorWord(a, c) \in Int
  BY <1>1 DEF XorWord
<1>3. \A a \in Int : Shift(a) \in Int
  BY <1>2 DEF Shift
<1>. QED BY <1>2, <1>3 DEF EightShifted

ReducesReference(g, frame) ==
  /\ g[0] = Top
  /\ \A n \in 1..Len(frame) : g[n] = EightShifted(XorWord(g[n - 1], frame[n]))

LEMMA ReferenceReduces ==
  ASSUME NEW frame \in Seq(Byte)
  PROVE  \E g : /\ ReducesReference(g, frame)
                /\ ReferenceCrc(frame) = <<Lo(g[Len(frame)]), Hi(g[Len(frame)])>>
<1>0. Len(frame) \in Nat /\ \A n \in 1..Len(frame) : frame[n] \in Int
  <2>1. Len(frame) \in Nat /\ \A n \in 1..Len(frame) : frame[n] \in Byte
    OBVIOUS
  <2>2. \A b \in Byte : b \in Int
    BY DEF Byte
  <2>. QED BY <2>1, <2>2
<1>. DEFINE N == Len(frame)
            step == [x \in Int \X Int |-> EightShifted(XorWord(x[1], x[2]))]
            Is(f) == f = [n \in 0..N |-> IF n = 0 THEN Top ELSE step[<<f[n - 1], frame[n]>>]]
            g == CHOOSE f : Is(f)
            next == [x \in (1..N) \X Int |-> step[<<x[2], frame[x[1]]>>]]
<1>1. N \in Nat /\ \A n \in 1..N : frame[n] \in Int
  BY <1>0
<1>2. ReferenceCrc(frame) = <<Lo(g[N]), Hi(g[N])>>
  BY SMT DEF ReferenceCrc, Top
<1>. HIDE DEF N
<1>3. Top \in Int
  BY SMT DEF Top
<1>4. \A v, b \in Int : /\ step[<<v, b>>] = EightShifted(XorWord(v, b))
                        /\ step[<<v, b>>] \in Int
  <2>1. \A v, b \in Int : step[<<v, b>>] = EightShifted(XorWord(v, b))
    OBVIOUS
  <2>. HIDE DEF step
  <2>. QED BY <2>1, ShiftedTyped
<1>. HIDE DEF step
<1>5. next \in [(1..N) \X Int -> Int]
  <2>1. \A x \in (1..N) \X Int : step[<<x[2], frame[x[1]]>>] \in Int
    <3>. TAKE x \in (1..N) \X Int
    <3>1. x[2] \in Int /\ frame[x[1]] \in Int
      BY <1>1
    <3>. QED BY <3>1, <1>4
  <2>. QED BY <2>1
<1>6. PICK f : Iterates(f, Int, N, Top, next)
  <2>. HIDE DEF next
  <2>. QED BY <1>1, <1>3, <1>5, IterationExists
<1>7. /\ f \in [0..N -> Int] /\ f[0] = Top
      /\ \A n \in 1..N : f[n] = step[<<f[n - 1], frame[n]>>]
  <2>1. /\ f \in [0..N -> Int] /\ f[0] = Top
        /\ \A n \in 1..N : f[n] = next[<<n, f[n - 1]>>]
    BY <1>6 DEF Iterates
  <2>2. \A n \in 1..N : <<n, f[n - 1]>> \in (1..N) \X Int
    BY <1>1, <2>1
  <2>. QED BY <2>1, <2>2
<1>8. Is(f)
  <2>1. \A n \in 0..N : f[n] = IF n = 0 THEN Top ELSE step[<<f[n - 1], frame[n]>>]
    <3>. TAKE n \in 0..N
    <3>1. n = 0 \/ n \in 1..N
      BY <1>1
    <3>. QED BY <1>7, <3>1
  <2>2. f = [n \in 0..N |-> f[n]]
    BY <1>7
  <2>. QED BY <2>1, <2>2
<1>9. Is(g)
  <2>. HIDE DEF Is
  <2>. QED BY <1>8
<1>10. g[0] = Top /\ \A n \in 1..N : g[n] = step[<<g[n - 1], frame[n]>>]
  <2>1. 0 \in 0..N /\ \A n \in 1..N : n \in 0..N /\ n # 0
    BY <1>1
  <2>. HIDE DEF g
  <2>2. \A n \in 0..N : g[n] = IF n = 0 THEN Top ELSE step[<<g[n - 1], frame[n]>>]
    BY <1>9
  <2>. QED BY <2>1, <2>2
<1>. HIDE DEF g, Is
<1>11. \A n \in 1..N : g[n - 1] \in Int => g[n] \in Int
  BY <1>1, <1>4, <1>10
<1>12. \A n \in 0..N : g[n] \in Int
  BY <1>1, <1>3, <1>10, <1>11, IterationTyped
<1>13. \A n \in 1..N : g[n] = EightShifted(XorWord(g[n - 1], frame[n]))
  <2>. TAKE n \in 1..N
  <2>1. n - 1 \in 0..N
    BY <1>1
  <2>2. g[n - 1] \in Int /\ frame[n] \in Int
    BY <2>1, <1>1, <1>12
  <2>. QED BY <2>2, <1>4, <1>10
<1>. QED BY <1>2, <1>10, <1>13 DEF ReducesReference, N

(* crc() gives the CRC of Modbus for every sequence of bytes. *)
LEMMA CrcIsReference ==
  ASSUME NEW x \in Seq(Byte)
  PROVE  Crc(x) = ReferenceCrc(x)
<1>. DEFINE N == Len(x)
<1>1. N \in Nat /\ \A n \in 1..N : x[n] \in Byte
  OBVIOUS
<1>2. PICK f : Reduces(f, x) /\ Crc(x) = f[N]
  BY CrcReduces
<1>3. PICK g : ReducesReference(g, x) /\ ReferenceCrc(x) = <<Lo(g[N]), Hi(g[N])>>
  BY ReferenceReduces
<1>4. /\ f \in [0..N -> Pair] /\ f[0] = <<255, 255>>
      /\ \A n \in 1..N : f[n] = CrcStep(f[n - 1], x[n])
  BY <1>2 DEF Reduces
<1>5. g[0] = Top /\ \A n \in 1..N : g[n] = EightShifted(XorWord(g[n - 1], x[n]))
  BY <1>3 DEF ReducesReference
<1>. HIDE DEF N
<1>. DEFINE good == {n \in 0..N : g[n] = Joined(f[n])}
            h == [n \in 0..N |-> n]
<1>6. h[0] \in good /\ \A n \in 1..N : h[n - 1] = n - 1 /\ h[n] = n
  <2>1. 0 \in 0..N
    BY <1>1
  <2>2. Joined(f[0]) = Top
    BY <1>4, SMT DEF Joined, Top
  <2>. QED BY <1>1, <1>5, <2>1, <2>2
<1>7. ASSUME NEW n \in 1..N, h[n - 1] \in good PROVE h[n] \in good
  <2>1. n - 1 \in 0..N /\ n \in 0..N
    BY <1>1
  <2>2. g[n - 1] = Joined(f[n - 1]) /\ f[n - 1] \in Pair /\ x[n] \in Byte
    BY <1>1, <1>4, <1>6, <1>7, <2>1
  <2>3. EightShifted(XorWord(Joined(f[n - 1]), x[n])) = Joined(CrcStep(f[n - 1], x[n]))
    BY <2>2, StepIsShifts DEF EightShifted
  <2>4. g[n] = Joined(CrcStep(f[n - 1], x[n]))
    BY <1>5, <2>2, <2>3, Zenon
  <2>. QED BY <1>4, <1>6, <2>1, <2>4
<1>8. \A n \in 0..N : h[n] \in good
  <2>. HIDE DEF h, good
  <2>. QED BY <1>1, <1>6, <1>7, IterationTyped
<1>9. g[N] = Joined(f[N]) /\ f[N] \in Pair
  <2>1. N \in 0..N /\ h[N] = N
    BY <1>1
  <2>2. N \in good
    <3>. HIDE DEF h, good
    <3>. QED BY <1>8, <2>1
  <2>. QED BY <1>4, <2>1, <2>2
<1>10. f[N] = <<f[N][1], f[N][2]>> /\ f[N][1] \in Byte /\ f[N][2] \in Byte
  BY <1>9 DEF Pair
<1>11. Lo(g[N]) = f[N][1] /\ Hi(g[N]) = f[N][2]
  BY <1>9, <1>10, WordOfBytes DEF Joined
<1>. QED BY <1>2, <1>3, <1>10, <1>11

LEMMA FramesProtected == ModbusInv => FrameIsProtected
<1>. SUFFICES ASSUME ModbusInv PROVE FrameIsProtected
  OBVIOUS
<1>. DEFINE r == op.frame
            n == Len(r)
<1>1. Allowed(op) /\ r = Frame(op)
  BY DEF ModbusInv, ModbusTyped
<1>2. PICK x \in Seq(Byte) : r = WithCrc(x)
  BY <1>1, FrameSays
<1>3. Closes(r, x)
  BY <1>2, WithCrcCloses
<1>4. r \in Seq(Byte) /\ n = Len(x) + 2 /\ Len(x) \in Nat /\ \A i \in 1..Len(x) : r[i] = x[i]
  BY <1>3 DEF Closes
<1>5. SubSeq(r, 1, n - 2) = x
  <2>. DEFINE y == SubSeq(r, 1, Len(x))
  <2>1. y \in Seq(Byte) /\ Len(y) = Len(x) /\ \A i \in 1..Len(x) : y[i] = r[i]
    <3>. HIDE DEF r
    <3>. QED BY <1>4, CheckIs
  <2>. HIDE DEF y
  <2>2. y = x
    BY <1>4, <2>1, SeqEqual
  <2>3. n - 2 = Len(x)
    BY <1>4
  <2>. QED BY <2>2, <2>3 DEF y
<1>6. CheckCrc(r)
  <2>. HIDE DEF r
  <2>. QED BY <1>3, <1>4, ClosedChecks
<1>7. SubSeq(r, n - 1, n) = ReferenceCrc(SubSeq(r, 1, n - 2))
  <2>1. Crc(SubSeq(r, 1, n - 2)) = SubSeq(r, n - 1, n)
    BY <1>6 DEF CheckCrc
  <2>2. Crc(x) = ReferenceCrc(x)
    BY CrcIsReference
  <2>. QED BY <1>5, <2>1, <2>2
<1>8. EveryEntry
  <2>1. \A b \in 0..255 : <<b>> \in Seq(Byte)
    BY DEF Byte
  <2>. QED BY <2>1, CrcIsReference DEF EveryEntry
<1>. QED BY <1>7, <1>8 DEF FrameIsProtected

LEMMA AnswersTyped ==
  ASSUME ModbusTyped, NEW a \in Answers(op)
  PROVE  a.bytes \in Seq(Byte)
<1>. DEFINE g == GoodAnswer(op)
<1>1. Allowed(op) /\ op.fn \in {3, 6, 16}
  BY DEF ModbusTyped, Exchange
<1>2. g \in Seq(Byte)
  BY AnswerExists, AnsweredIs
<1>3. \/ a.bytes = g
      \/ \E i \in 1..Len(g), d \in Changes : a.bytes = [g EXCEPT ![i] = (@ + d) % 256]
      \/ a.bytes = WithCrc(<<op.slave, op.fn + 128, 2>>)
      \/ op.fn = READ_HOLDING_REGISTERS /\ op.number > 1 /\ a.bytes = Reading(op, op.number - 1)
  BY DEF Answers
<1>. HIDE DEF g
<1>4. CASE \E i \in 1..Len(g), d \in Changes : a.bytes = [g EXCEPT ![i] = (@ + d) % 256]
  <2>1. PICK i \in 1..Len(g), d \in Changes : a.bytes = [g EXCEPT ![i] = (@ + d) % 256]
    BY <1>4
  <2>. DEFINE y == g[i]
              z == (y + d) % 256
  <2>2. z \in Byte
    <3>1. y \in 0..255 /\ d \in 1..255
      <4>1. y \in Byte
        BY <1>2, ElementOfSeq
      <4>. QED BY <4>1, ChangesAssumption DEF Byte
    <3>. HIDE DEF y
    <3>2. (y + d) % 256 \in 0..255
      BY <3>1
    <3>. QED BY <3>2 DEF Byte
  <2>3. a.bytes = [g EXCEPT ![i] = z]
    BY <2>1
  <2>. HIDE DEF z
  <2>. QED BY <1>2, <2>2, <2>3, ExceptSeq
<1>5. CASE a.bytes = WithCrc(<<op.slave, op.fn + 128, 2>>)
  <2>. DEFINE x == <<op.slave, op.fn + 128, 2>>
  <2>1. x \in Seq(Byte)
    <3>1. op.slave \in Byte
      BY <1>1, AllowedNumbers
    <3>2. op.fn + 128 \in Byte /\ 2 \in Byte
      BY <1>1 DEF Byte
    <3>. QED BY <3>1, <3>2
  <2>. HIDE DEF x
  <2>2. WithCrc(x) \in Seq(Byte)
    BY <2>1, WithCrcCloses DEF Closes
  <2>. QED BY <1>5, <2>2 DEF x
<1>6. CASE op.fn = READ_HOLDING_REGISTERS /\ op.number > 1 /\ a.bytes = Reading(op, op.number - 1)
  <2>1. op.number \in Word
    BY <1>1, AllowedNumbers
  <2>2. op.number \in Nat
    BY <2>1, WordIs
  <2>3. op.number - 1 \in 0..op.number
    BY <1>6, <2>2
  <2>4. PICK x : Says(op, x, op.number - 1) /\ Reading(op, op.number - 1) = WithCrc(x)
    BY <1>1, <1>6, <2>3, ReadingSays
  <2>. QED BY <1>6, <2>4, SaidClosed
<1>. QED BY <1>2, <1>3, <1>4, <1>5, <1>6

LEMMA AnswerStep == ASSUME ModbusInv, DeviceAnswers PROVE ModbusInv'
<1>. DEFINE b == answer'.bytes
<1>1. /\ answer = NoAnswer /\ pending = "read" /\ answer' \in Answers(op) /\ wire' = b
      /\ op' = op /\ aligned' = aligned /\ conn' = conn /\ pending' = pending /\ buffers' = buffers
  BY DEF DeviceAnswers, tcp
<1>2. ModbusTyped /\ Kept /\ Judged /\ Released
  BY DEF ModbusInv
<1>3. b \in Seq(Byte)
  BY <1>1, <1>2, AnswersTyped
<1>4. Len(b) \in Nat /\ SubSeq(b, 1, Len(b)) = b
  BY <1>3, SubSeqFull
<1>. HIDE DEF b
<1>5. ReadSoFar = 0 /\ EchoLength = 0 /\ ~Echoed
  <2>1. Len(answer.bytes) = 0
    BY <1>1 DEF NoAnswer
  <2>2. ReadSoFar = 0 /\ EchoLength \in Nat /\ EchoLength <= ReadSoFar
    <3>1. ReadSoFar \in 0..0 /\ EchoLength \in Nat /\ EchoLength <= ReadSoFar
      BY <1>2, <2>1, ResponseIs
    <3>. QED BY <3>1
  <2>3. Len(op.frame) >= 8 /\ Len(op.frame) \in Nat
    BY <1>2, FrameLength DEF ModbusTyped
  <2>4. EchoLength = 0
    BY <2>2
  <2>5. ~Echoed
    BY <2>3, <2>4 DEF EchoLength
  <2>. QED BY <2>2, <2>4, <2>5
<1>6. ReadSoFar' = 0 /\ EchoLength' = 0 /\ ~Echoed'
  <2>1. ReadSoFar' = Len(b) - Len(b)
    BY <1>1 DEF ReadSoFar, b
  <2>2. EchoLength' = 0 /\ ~Echoed'
    BY <1>1, <1>5 DEF EchoLength, Echoed
  <2>. QED BY <1>4, <2>1, <2>2
<1>7. ModbusTyped'
  <2>1. Len(b) - Len(b) + 1 = 1 /\ Len(b) <= Len(b)
    BY <1>4
  <2>2. wire' = SubSeq(b, Len(b) - Len(b) + 1, Len(b))
    BY <1>1, <1>4, <2>1
  <2>3. op'.frame = Frame(op')
    BY <1>1, <1>2 DEF ModbusTyped
  <2>. QED BY <1>1, <1>2, <1>3, <2>1, <2>2, <2>3 DEF ModbusTyped, b
<1>8. Kept'
  <2>1. op.response = <<>>
    <3>1. op.response = SubSeq(answer.bytes, EchoLength + 1, ReadSoFar)
      BY <1>2 DEF Kept
    <3>2. EchoLength + 1 \in Int /\ ReadSoFar \in Int /\ ReadSoFar < EchoLength + 1
      BY <1>5
    <3>. QED BY <3>1, <3>2, SubSeqEmpty
  <2>2. SubSeq(b, 1, 0) = <<>>
    BY SubSeqEmpty
  <2>3. aligned' # "yes"
    <3>1. aligned = "yes" => 0 >= Len(op.frame)
      BY <1>2, <1>5 DEF Kept
    <3>2. Len(op.frame) >= 8 /\ Len(op.frame) \in Nat
      BY <1>2, FrameLength DEF ModbusTyped
    <3>. QED BY <1>1, <3>1, <3>2
  <2>4. op'.response = SubSeq(b, EchoLength' + 1, ReadSoFar')
    BY <1>1, <1>6, <2>1, <2>2
  <2>5. (answer.bytes)' = b /\ EchoLength' <= ReadSoFar'
    BY <1>6 DEF b
  <2>6. /\ op'.need = "no" => op'.confirmed = "yes"
        /\ op'.confirmed = "no" => op'.response # op'.frame
    BY <1>1, <1>2 DEF Kept
  <2>. QED BY <1>6, <2>3, <2>4, <2>5, <2>6 DEF Kept
<1>9. Judged' /\ Released'
  BY <1>1, <1>2 DEF Judged, Released
<1>. QED BY <1>7, <1>8, <1>9 DEF ModbusInv

(* A step that leaves the exchange alone, and does not begin or close it   *)
(* while an operation is under way.                                        *)
LEMMA SameExchange ==
  ASSUME ModbusInv, UNCHANGED <<op, answer, wire, aligned>>
  PROVE  ModbusTyped' /\ Kept' /\ ((op.completed = "yes" => pending' = "none") => Judged')
<1>1. ModbusTyped' /\ Kept'
  BY DEF ModbusInv, ModbusTyped, Kept, Echoed, EchoLength, EchoComes, ReadSoFar
<1>2. ASSUME op.completed = "yes" => pending' = "none" PROVE Judged'
  BY <1>2 DEF ModbusInv, Judged
<1>. QED BY <1>1, <1>2

LEMMA ModbusStep == ModbusInv /\ [ModbusNext]_modbus => ModbusInv'
<1>. SUFFICES ASSUME ModbusInv, [ModbusNext]_modbus PROVE ModbusInv'
  OBVIOUS
<1>1. Released /\ (op.completed = "yes" => pending = "none")
  BY DEF ModbusInv, Judged
<1>2. CASE HandleConnection
  <2>1. op.completed # "yes" /\ Released'
    BY <1>1, <1>2 DEF HandleConnection, Released
  <2>. QED BY <1>2, <2>1, SameExchange DEF HandleConnection, ModbusInv
<1>3. CASE Written
  <2>1. op.completed # "yes" /\ Released'
    BY <1>1, <1>3 DEF Written, Released
  <2>. QED BY <1>3, <2>1, SameExchange DEF Written, ModbusInv
<1>4. CASE DeviceAnswers
  BY <1>4, AnswerStep
<1>5. CASE \E n \in 1..Len(wire) : HandleRead(n)
  BY <1>5, ReadStep
<1>6. CASE HandleReadError
  <2>1. pending' = "none" /\ Released'
    BY <1>6 DEF HandleReadError, Finish, Released
  <2>. QED BY <1>6, <2>1, SameExchange DEF HandleReadError, ModbusInv
<1>7. CASE CloseConnection
  <2>1. pending' = pending /\ Released'
    BY <1>7 DEF CloseConnection, Finish, Released
  <2>. QED BY <1>1, <1>7, <2>1, SameExchange DEF CloseConnection, ModbusInv
<1>8. CASE UNCHANGED modbus
  <2>1. Released' /\ pending' = pending
    BY <1>1, <1>8 DEF modbus, Released
  <2>. QED BY <1>1, <1>8, <2>1, SameExchange DEF modbus, ModbusInv
<1>. QED BY <1>2, <1>3, <1>4, <1>5, <1>6, <1>7, <1>8 DEF ModbusNext

LEMMA ModbusStarts == ModbusInit("accept") => ModbusInv
<1>. SUFFICES ASSUME ModbusInit("accept") PROVE ModbusInv
  OBVIOUS
<1>1. PICK o \in Operations : op = Start(o)
  BY DEF ModbusInit
<1>2. Allowed(o)
  BY OperationsAssumption
<1>3. /\ op.slave = o.slave /\ op.fn = o.fn /\ op.address = o.address /\ op.number = o.number
      /\ op.write = o.write /\ op.need = o.need /\ op.labels = o.labels /\ op.frame = Frame(o)
      /\ op.response = <<>> /\ op.finished = "no" /\ op.completed = "no"
      /\ op.confirmed = (IF o.need = "yes" THEN "no" ELSE "yes") /\ op.ok = "yes" /\ op.values = <<>>
  BY <1>1, Zenon DEF Start
<1>4. Allowed(op) /\ Frame(op) = Frame(o)
  BY <1>2, <1>3, AskedSame DEF Asked
<1>5. op.frame = Frame(op)
  BY <1>3, <1>4
<1>6. op.frame \in Seq(Byte) /\ Len(op.frame) >= 8 /\ Len(op.frame) \in Nat
  BY <1>4, <1>5, FrameLength
<1>7. op \in Exchange
  <2>1. /\ o.slave \in Byte /\ o.fn \in {3, 6, 16} /\ o.address \in Word /\ o.number \in Word
        /\ o.write \in Seq(Word) /\ o.need \in YesNo /\ o.labels \in Seq(Word)
    <3>1. o.labels \in Seq(Word)
      BY <1>2 DEF Allowed
    <3>. QED BY <1>2, <3>1, AllowedNumbers
             DEF YesNo, READ_HOLDING_REGISTERS, PRESET_SINGLE_REGISTER, PRESET_MULTIPLE_REGISTER
  <2>2. Frame(o) \in Seq(Byte)
    BY <1>3, <1>6
  <2>. DEFINE C == IF o.need = "yes" THEN "no" ELSE "yes"
  <2>3. C \in YesNo
    BY DEF YesNo
  <2>4. op = [slave |-> o.slave, fn |-> o.fn, address |-> o.address, number |-> o.number,
              write |-> o.write, need |-> o.need, labels |-> o.labels,
              frame |-> Frame(o), response |-> <<>>, finished |-> "no", completed |-> "no",
              confirmed |-> C, ok |-> "yes", values |-> <<>>]
    BY <1>1 DEF Start
  <2>. HIDE DEF C
  <2>. QED BY <2>1, <2>2, <2>3, <2>4 DEF Exchange, YesNo
<1>8. /\ answer = NoAnswer /\ answer.bytes = <<>> /\ wire = <<>> /\ aligned = "no"
      /\ conn = "open" /\ pending = "accept" /\ buffers = "no"
  BY DEF ModbusInit, NoAnswer
<1>9. ReadSoFar = 0 /\ EchoLength = 0 /\ ~Echoed
  BY <1>3, <1>8 DEF ReadSoFar, EchoLength, Echoed
<1>10. SubSeq(<<>>, 1, 0) = <<>>
  BY SubSeqEmpty
<1>11. ModbusTyped
  <2>1. /\ answer.bytes \in Seq(Byte) /\ wire \in Seq(Byte) /\ Len(wire) <= Len(answer.bytes)
        /\ wire = SubSeq(answer.bytes, Len(answer.bytes) - Len(wire) + 1, Len(answer.bytes))
    BY <1>8, <1>10
  <2>. QED BY <1>4, <1>5, <1>7, <1>8, <2>1 DEF ModbusTyped
<1>12. Kept
  <2>1. op.response = SubSeq(answer.bytes, EchoLength + 1, ReadSoFar)
    BY <1>3, <1>8, <1>9, <1>10
  <2>2. op.response # op.frame
    <3>1. Len(op.response) = 0
      BY <1>3
    <3>. QED BY <1>6, <3>1
  <2>3. op.need = "no" => op.confirmed = "yes"
    BY <1>3
  <2>4. EchoLength <= ReadSoFar
    BY <1>9
  <2>. QED BY <1>8, <1>9, <2>1, <2>2, <2>3, <2>4 DEF Kept
<1>13. Judged
  <2>1. ~AnswerComplete(op, op.response)
    <3>1. Len(op.response) = 0
      BY <1>3
    <3>2. op.confirmed # "yes" => Len(op.response) < Len(op.frame)
      BY <1>6, <3>1
    <3>3. Len(op.response) # Len(op.frame) /\ ~(Len(op.response) >= Len(op.frame))
      BY <1>6, <3>1
    <3>. QED BY <3>1, <3>3 DEF AnswerComplete
  <2>. QED BY <1>3, <2>1 DEF Judged
<1>. QED BY <1>8, <1>11, <1>12, <1>13 DEF ModbusInv, Released

(* Every frame that is sent ends in the CRC of Modbus, and the answer of a *)
(* device is judged rightly, in whatever pieces it comes: a right one is   *)
(* accepted, and nothing else is, unless the byte that says how long the   *)
(* answer to a read is has become smaller and the last two of the bytes it *)
(* leaves are the CRC of the others by accident (crc(), check_crc(),       *)
(* check_completed(), receive_modbus_frame()).                             *)
THEOREM AnswersAreJudged == ModbusSpec => [](~ShortenedRead => AnswerJudged)
<1>1. ModbusInv => (~ShortenedRead => AnswerJudged)
  <2>1. ModbusInv => BufferReleased
    BY DEF ModbusInv, Released, BufferReleased
  <2>. QED BY <2>1, FramesProtected, RightAccepted, FalseRefused DEF AnswerJudged
<1>. QED BY <1>1, ModbusStarts, ModbusStep, PTL DEF ModbusSpec

=============================================================================
