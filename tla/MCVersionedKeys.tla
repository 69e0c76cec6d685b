---------------------------- MODULE MCVersionedKeys ----------------------------
(***************************************************************************)
(* The TLC instance of VersionedKeys: two-digit timestamps over binary     *)
(* bytes.                                                                  *)
(***************************************************************************)
EXTENDS VersionedKeys

(* Keys of different lengths, none of which begins another.  One prefix is *)
(* shared by two keys; one is no key's, but is itself begun by a key, so   *)
(* that a scan starts between the versions of that key.                    *)
SomeKeys == {<<0>>, <<1, 0>>, <<1, 1>>}
SomePrefixes == {<<>>, <<1>>, <<0, 1>>}

ASSUME KeysApart == PrefixFree
================================================================================
