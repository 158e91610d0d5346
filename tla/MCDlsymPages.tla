---------------------------- MODULE MCDlsymPages ----------------------------
(***************************************************************************)
(* A small instance of DlsymPages: a page holds one slot, so pages fill    *)
(* up at once and two threads race to put a new page in front.             *)
(***************************************************************************)
EXTENDS DlsymPages
=============================================================================
