----------------------------- MODULE HttpOutcome ----------------------------
(***************************************************************************)
(* What the sender of a request learns from an HttpClient: the response    *)
(* object (none, incomplete, complete) and the error code.                 *)
(***************************************************************************)
Response == {"null", "part", "full"}
Error == {"success", "failed", "aborted", "timed_out", "host_unreachable"}
Outcome == [resp: Response, ec: Error]

(* What the callback of an asynchronous client can be called with: success *)
(* means a complete response.                                              *)
AsyncOutcomes ==
  {[resp |-> "full", ec |-> "success"], [resp |-> "part", ec |-> "failed"]}
    \cup [resp: {"null"}, ec: {"failed", "host_unreachable", "timed_out"}]

(* What send() of a synchronous client can leave behind promises less: the *)
(* reader's error is not kept, and a late timeout replaces a success.      *)
SyncOutcomes ==
  [resp: {"full", "part"}, ec: {"success", "timed_out"}]
    \cup [resp: {"null"}, ec: Error]
=============================================================================
