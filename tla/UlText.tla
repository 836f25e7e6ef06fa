------------------------------- MODULE UlText --------------------------------
(***************************************************************************)
(* Texts of the Ultralight and MQTT protocols: sequences of symbols, in    *)
(* which the separators are symbols of their own and a word is one symbol. *)
(***************************************************************************)
EXTENDS Integers, Sequences, SequencesExt, Arranged

(* riot_tokenizer(), boost::split(): the pieces between separators, empty  *)
(* ones kept.                                                              *)
riot_tokenizer(str, sep) ==
  LET cuts == {0, Len(str) + 1} \cup {i \in 1..Len(str) : str[i] = sep}
  IN [i \in 1..(Cardinality(cuts) - 1) |->
        SubSeq(str, Nth(cuts, i) + 1, Nth(cuts, i + 1) - 1)]

Before(str, sep) == Head(riot_tokenizer(str, sep))
After(str, sep) == SubSeq(str, Len(Before(str, sep)) + 2, Len(str))

(* get_id_command() and isCommandResp(): device@command before the first |. *)
isCommandResp(content) == Contains(Before(content, "|"), "@")
=============================================================================
