------------------------------ MODULE MCReads ------------------------------
(***************************************************************************)
(* An instance of Reads for TLC.  Bytes are 0 and 1, so that 1 plays the   *)
(* part of 0xFF; the keys are 0, 01, 1 and 11, one a prefix of another and *)
(* one all largest bytes.  A record of a value takes 13 or 14 bytes and a  *)
(* tombstone 10 or 11, against blocks of 13.  Keys 1 and 3 have the same   *)
(* hash: the Bloom filter takes one for the other.                         *)
(***************************************************************************)
EXTENDS Reads

MCKeys == 1..4
MCKeyText == << <<0>>, <<0, 1>>, <<1>>, <<1, 1>> >>
MCKeyBytes == [k \in MCKeys |-> Len(MCKeyText[k])]
MCValueBytes == [v \in Values |-> 1]
MCHashLow == <<5, 9, 5, 60>>
MCHashHigh == <<2, 7, 2, 12>>

\* The smallest key, a key inside, and a byte string between two keys.
MCScanTexts == {<<0>>, <<0, 1>>, <<1, 0>>}
MCScanPrefixes == {<< >>, <<0>>, <<1>>, <<0, 1>>, <<1, 0>>, <<1, 1>>}

=============================================================================
