---------------------------- MODULE MCCommandOutput ----------------------------
(***************************************************************************)
(* Instance of CommandOutput: two-byte characters, a second byte that      *)
(* could be a first one, 0xf7, and a text in Latin-1, ASCII followed by    *)
(* what GBK would take for the first byte of a character.                  *)
(***************************************************************************)
EXTENDS CommandOutput

MCOutputs == {<<190, 254>>, <<133, 247>>, <<65, 229>>}
==============================================================================
