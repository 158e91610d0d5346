--------------------------- MODULE MCElfSegments ---------------------------
(***************************************************************************)
(* A small instance of ElfSegments: two threads that open two libraries    *)
(* and ask about addresses; one may lose several races while the other     *)
(* opens library after library.                                            *)
(***************************************************************************)
EXTENDS ElfSegments
=============================================================================
