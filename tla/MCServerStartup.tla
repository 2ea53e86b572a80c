--------------------------- MODULE MCServerStartup ---------------------------
(* Instances of ServerStartup: plugin lists of up to two blocks, so that a   *)
(* block can be refused, passed over, or replaced by a second of its type.   *)
EXTENDS ServerStartup, SequencesExt

MCPluginLists == SeqOf(Blocks, 2)
=============================================================================
