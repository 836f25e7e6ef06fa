---------------------------- MODULE MCPepFilter -----------------------------
(* Small instances of PepFilter. *)
EXTENDS PepFilter

(* add_oauth_media_filters() with a PEP configuration. *)
PepAndMedia == <<"oauth", "media">>

Plain == [uri |-> "other", headers |-> "complete", path |-> "sub", verb |-> "known"]
(* An ordinary request and, from it, one deviation at a time. *)
MCShapes == {Plain, [Plain EXCEPT !.uri = "about"], [Plain EXCEPT !.headers = "missing"],
             [Plain EXCEPT !.path = "root"], [Plain EXCEPT !.verb = "unknown"]}
=============================================================================
