----------------------------- MODULE DeviceCache ----------------------------
(***************************************************************************)
(* iota::Cache (util/cache.h, util/cache.cc): the devices a plugin has     *)
(* read from the database, each with an iota::Timer (util/timer.h).        *)
(*                                                                         *)
(* A key is the pair of a device id and a service_path (one service is     *)
(* modelled).  Of the copy of a device only its version is kept: which     *)
(* write of the document it was read after.  RestHandle builds the cache   *)
(* with lru = false (MRU: a full cache takes nothing new), so the branch   *)
(* of insert() for lru = true is never taken.                              *)
(* Equality of two devices (util/device.h) does not look at the path, but  *)
(* hash_value() does: two keys of one id are kept apart, unless they fall  *)
(* into one bucket of the index, which is left out.                        *)
(*                                                                         *)
(* entry[k]: the cached copy, or Absent; armed: its deadline_timer runs.   *)
(* queued[k]: completion handlers of expired timers of objects with key k  *)
(* that wait for a thread; item_timeout() removes by key, whatever object  *)
(* is there by then, and cancel() no longer reaches them.                  *)
(***************************************************************************)
EXTENDS Integers, FiniteSets

CONSTANTS
  Keys,            \* (device id, service_path) pairs
  MAX_SIZE_CACHE,  \* types::MAX_SIZE_CACHE
  Absent

ASSUME DeviceCacheAssumption == MAX_SIZE_CACHE \in Nat

Entry == [ver: Nat, armed: {"yes", "no"}]

ASSUME AbsentAssumption == Absent \notin Entry

EmptyCache == [entry |-> [k \in Keys |-> Absent], queued |-> [k \in Keys |-> 0]]

CachedKeys(c) == {k \in Keys : c.entry[k] # Absent}

HasRoom(c) == Cardinality(CachedKeys(c)) < MAX_SIZE_CACHE

InsertUntimed(c, k, v) ==
  IF HasRoom(c) /\ c.entry[k] = Absent
  THEN [c EXCEPT !.entry[k] = [ver |-> v, armed |-> "no"]]
  ELSE c

(* insert(): nothing when the cache is full, not even for a device that is *)
(* already there; otherwise push_back (a duplicate only moves to the end)  *)
(* and a timer started anew.                                               *)
InsertDevice(c, k, v) ==
  IF HasRoom(c)
  THEN [c EXCEPT !.entry[k] = [ver |-> v, armed |-> "yes"]]
  ELSE c

(* get(), get_by_entity() and get_by_name(), the database read of a miss   *)
(* included: the mutex of the cache is held all along.  stored: the        *)
(* version in the database, or Absent.                                     *)
Get(c, k, stored) ==
  CASE c.entry[k] # Absent -> InsertDevice(c, k, c.entry[k].ver)
    [] c.entry[k] = Absent /\ stored # Absent -> InsertDevice(c, k, stored)
    [] OTHER -> c

(* remove(): by key; cancel() reaches a running timer only. *)
RemoveDevice(c, k) == [c EXCEPT !.entry[k] = Absent]

(* The timer of a cached device runs out. *)
Elapse(c, k) ==
  [c EXCEPT !.entry[k].armed = "no", !.queued[k] = @ + 1]

ItemTimeoutRestarted(c, k) ==
  IF c.entry[k] = Absent THEN [c EXCEPT !.queued[k] = @ - 1]
  ELSE [c EXCEPT !.queued[k] = @ - 1, !.entry[k].armed = "yes"]

(* item_timeout() without operation_aborted. *)
ItemTimeout(c, k) == [RemoveDevice(c, k) EXCEPT !.queued[k] = @ - 1]
=============================================================================
