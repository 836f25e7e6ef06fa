----------------------------- MODULE Statistics -----------------------------
(***************************************************************************)
(* The traffic counters of a plugin: IoTStatistic (rest/iot_statistic.cc), *)
(* which keeps an accumulator for each counter in each of the last hours   *)
(* with traffic, the requests that count (operator(), handle_request() and *)
(* send_http_response() of rest/rest_handle.cc) and the report that        *)
(* get_statistics() makes of them for AdminService.                        *)
(*                                                                         *)
(* The map of counters is guarded by m_mutex_stat; what is inside an       *)
(* IoTStatistic by nothing.  The searches and insertions of operator[] are *)
(* the steps here; what a std::map does when it is changed by two threads  *)
(* at the very same time is left out.  So are the values: an accumulator   *)
(* is there, or is a null pointer, to which ~IoTValue() adds nothing.      *)
(***************************************************************************)
EXTENDS Integers, Sequences, FiniteSets, FiniteSetsExt

CONSTANTS
  TThreads,   \* threads of the HTTP server
  HOURS,      \* hours that are kept (24)
  MaxClock    \* bound: the last hour there is

ASSUME StatisticsAssumption == HOURS \in Nat \ {0} /\ MaxClock \in Nat

Counters == <<"in", "duration", "out">>

VARIABLES
  clock,      \* the hour it is
  accs,       \* _accumulators_: by hour, by name, "acc" or "null"
  counting,   \* where each thread is in its request
  report,     \* get_statistics(): the copy it walks through, if any
  busyHours,     \* history: hours with traffic
  met         \* history: two threads opened an hour at the same time

statVars == <<clock, accs, counting, report, busyHours, met>>

Waiting == [pc |-> "idle", at |-> 1, time |-> 0]

StatInit(pc) ==
  /\ clock = 1 /\ accs = [h \in {} |-> h]
  /\ counting = [t \in TThreads |-> [Waiting EXCEPT !.pc = pc]]
  /\ report = {} /\ busyHours = {} /\ met = FALSE

Now(t, pc) == counting' = [counting EXCEPT ![t].pc = pc]

(* The next counter of the request, or its end. *)
Counted(t) ==
  LET c == counting[t] IN
  counting' = [counting EXCEPT ![t] =
    IF c.at = Len(Counters) THEN Waiting ELSE [c EXCEPT !.pc = "counter", !.at = c.at + 1]]

(* operator() *)
TArrive(t) ==
  /\ counting[t].pc = "idle"
  /\ Now(t, "counter")
  /\ UNCHANGED <<clock, accs, report, busyHours, met>>

(* get_statistic_counter(): the counter is made if it is not there, and    *)
(* made enabled.                                                           *)
GetStatisticCounter(t) ==
  /\ counting[t].pc = "counter" /\ report = {}
  /\ Now(t, "find")
  /\ UNCHANGED <<clock, accs, report, busyHours, met>>

Name(t) == Counters[counting[t].at]
OpensHour(u) == counting[u].pc \in {"reset", "insert"}

(* operator[]: the accumulator is searched by hour and by name. *)
FindAccumulator(t) ==
  /\ counting[t].pc = "find"
  /\ IF clock \notin DOMAIN accs
     THEN /\ counting' = [counting EXCEPT ![t].pc = "reset", ![t].time = clock]
          /\ met' = (met \/ \E u \in TThreads \ {t} : OpensHour(u))
          /\ UNCHANGED busyHours
     ELSE IF Name(t) \notin DOMAIN accs[clock]
     THEN counting' = [counting EXCEPT ![t].pc = "add", ![t].time = clock] /\ UNCHANGED <<busyHours, met>>
     ELSE Counted(t) /\ UNCHANGED <<busyHours, met>>
  /\ UNCHANGED <<clock, accs, report>>

With(map, key, value) ==
  [k \in DOMAIN map \cup {key} |-> IF k = key THEN value ELSE map[k]]

(* ... a new name in an hour that is there.  insert() keeps what another   *)
(* thread may have put there.                                              *)
AddAccumulator(t) ==
  LET h == counting[t].time IN
  /\ counting[t].pc = "add"
  /\ accs' = IF Name(t) \in DOMAIN accs[h] THEN accs
             ELSE [accs EXCEPT ![h] = With(@, Name(t), "acc")]
  /\ Counted(t)
  /\ UNCHANGED <<clock, report, busyHours, met>>

(* A mutation: the commented clear(). *)
Cleared(map) == [h \in {} |-> h]

(* reset(): the first hour goes when there are HOURS. *)
OldestErased(map) ==
  IF Cardinality(DOMAIN map) >= HOURS
  THEN [h \in DOMAIN map \ {Min(DOMAIN map)} |-> map[h]] ELSE map

Reset(t) ==
  /\ counting[t].pc = "reset"
  /\ accs' = OldestErased(accs)
  /\ Now(t, "insert")
  /\ UNCHANGED <<clock, report, busyHours, met>>

(* A mutation: the accumulator is not put into the map of its hour. *)
HourWithout(map, h, n) == With(map, h, With([x \in {} |-> x], n, "null"))

(* ... a new hour.  insert() keeps an hour of another thread, and [] then  *)
(* puts a null pointer where the name is missing.                          *)
HourInserted(map, h, n) ==
  CASE h \notin DOMAIN map -> With(map, h, With([x \in {} |-> x], n, "acc"))
    [] h \in DOMAIN map /\ n \notin DOMAIN map[h] -> [map EXCEPT ![h] = With(@, n, "null")]
    [] OTHER -> map

InsertHour(t) ==
  LET h == counting[t].time IN
  /\ counting[t].pc = "insert"
  /\ accs' = HourInserted(accs, h, Name(t))
  /\ busyHours' = busyHours \cup {h}
  /\ Counted(t)
  /\ UNCHANGED <<clock, report, met>>

(* get_statistics(): under m_mutex_stat, over a copy of the map of hours.  *)
GetStatistics ==
  /\ report = {}
  /\ report' = {accs}
  /\ UNCHANGED <<clock, accs, counting, busyHours, met>>

HasNull(copy) == \E h \in DOMAIN copy : \E n \in DOMAIN copy[h] : copy[h][n] = "null"

(* Its loop does not get past a null pointer (continue without ++it). *)
ReportMade ==
  /\ report # {} /\ \A copy \in report : ~HasNull(copy)
  /\ report' = {}
  /\ UNCHANGED <<clock, accs, counting, busyHours, met>>

(* An hour ends.  A thread is not in operator[] for hours. *)
HourPasses ==
  /\ clock < MaxClock
  /\ \A t \in TThreads :
       counting[t].pc \in {"add", "reset", "insert"} => counting[t].time = clock
  /\ clock' = clock + 1
  /\ UNCHANGED <<accs, counting, report, busyHours, met>>

StatNext ==
  \/ \E t \in TThreads :
       \/ TArrive(t) \/ GetStatisticCounter(t) \/ FindAccumulator(t) \/ AddAccumulator(t)
       \/ Reset(t) \/ InsertHour(t)
  \/ GetStatistics \/ ReportMade \/ HourPasses

----------------------------------------------------------------------------
(* A report that never ends, and with it m_mutex_stat, which every request *)
(* of the plugin needs, takes two threads that open an hour at the same    *)
(* time, with different counters: no other sequence of requests, hours and *)
(* reports makes a null pointer.                                           *)
OnlyMeetingHurts ==
  (\E map \in report \cup {accs} : HasNull(map)) => met

Latest(hours) == {h \in hours : Cardinality({g \in hours : g > h}) < HOURS}

(* The counters cover the last HOURS hours with traffic, never less and    *)
(* never more, however long the plugin runs; a thread that opens an hour   *)
(* has dropped the oldest one already.  Threads that meet there lose an    *)
(* hour, or keep one more from then on.                                    *)
HoursKept ==
  LET opening == {counting[t].time : t \in {u \in TThreads : counting[u].pc = "insert"}}
  IN  /\ DOMAIN accs \subseteq busyHours
      /\ ~met => DOMAIN accs = Latest(busyHours \cup opening) \ opening

(* The counters of a plugin stay readable and cover the hours they should, *)
(* unless two threads open an hour together.                               *)
CountersKept == OnlyMeetingHurts /\ HoursKept
=============================================================================
