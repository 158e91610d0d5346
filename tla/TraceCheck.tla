----------------------------- MODULE TraceCheck -----------------------------
(***************************************************************************)
(* The comparison of a static points-to relation with the traces of a run  *)
(* (checkPointsToAgainstTrace in PointsTo.cpp), composed with the traced   *)
(* program: after the core dump the files of all threads are read.  A site *)
(* in a file is a number whose lowest bit is the epoch of the table.       *)
(***************************************************************************)
EXTENDS TraceRuntime

CONSTANTS
    SiteTable,      \* sites found in the sections of the core dump
    Symbols,        \* addresses at which lldb finds a symbol
    StaticChoices   \* points-to relations, from nodes of sites to sites or symbols

ASSUME CheckAssumption == SiteTable \subseteq Sites /\ Symbols \subseteq MainObject \cup Library

VARIABLES
    static,         \* static_edges
    unread,         \* entries not yet read: <<site, epoch, value>>
    missing_edges,
    verdict         \* "none" until the check returns

checkVars == <<static, unread, missing_edges, verdict>>
allVars == <<runtimeVars, checkVars>>

CheckInit ==
    /\ RuntimeInit
    /\ static = {} /\ unread = {} /\ missing_edges = {} /\ verdict = "none"

Run == ((\E t \in Threads : ThreadStep(t)) \/ LoseSlab) /\ UNCHANGED checkVars

(* The core dump is taken, and the static relation computed from it. *)
TakeCore ==
    /\ Stop
    /\ static' \in StaticChoices
    /\ unread' = UNION {{<<e[1], epoch[t], e[2]>> : e \in table[t]} : t \in Threads}
    /\ UNCHANGED <<missing_edges, verdict>>

(* The address of a site without its lowest bit, and the lookup in trace_sites. *)
(* Mutant: the lowest bit is not cleared. *)
RawSite(e) == IF e[2] = 1 THEN Empty ELSE e[1]
MaskedSite(e) == e[1]
SiteFound(e) == MaskedSite(e) \in SiteTable

(* A value that is a site is the node of the site; otherwise it must have  *)
(* a symbol to be compared.                                                *)
Compared(e) == e[3] \in SiteTable \cup Symbols

ReadEntry ==
    /\ stage = "stopped" /\ verdict = "none"
    /\ \E e \in unread :
         /\ unread' = unread \ {e}
         /\ IF SiteFound(e)
            THEN /\ missing_edges' = IF Compared(e) /\ <<MaskedSite(e), e[3]>> \notin static
                                     THEN missing_edges \cup {<<MaskedSite(e), e[3]>>}
                                     ELSE missing_edges
                 /\ UNCHANGED verdict
            ELSE verdict' = "error" /\ UNCHANGED missing_edges
    /\ UNCHANGED <<runtimeVars, static>>

Conclude ==
    /\ stage = "stopped" /\ verdict = "none" /\ unread = {}
    /\ verdict' = IF missing_edges = {} THEN "ok" ELSE "missing"
    /\ UNCHANGED <<runtimeVars, static, unread, missing_edges>>

CheckNext == Run \/ TakeCore \/ ReadEntry \/ Conclude

CheckSpec == CheckInit /\ [][CheckNext]_allVars

----------------------------------------------------------------------------
(* Properties                                                              *)

CheckTypeOK ==
    /\ RuntimeOK
    /\ stage \in {"run", "stopped"} /\ verdict \in {"none", "ok", "missing", "error"}
    /\ missing_edges \subseteq SiteTable \X (SiteTable \cup Symbols)

(* What the runtime found of the program: edges of threads that have       *)
(* written them when the core dump is taken.                               *)
Written == observed \ {<<pc[t].site, pc[t].node>> : t \in {u \in Threads : pc[u].at = "add"}}

(* doc/src/points-to.md: "Any edge witnessed dynamically but absent from   *)
(* the static result is unsoundness in the pipeline ... and is reported".  *)
(* The check succeeds only if the static relation has all the edges that   *)
(* the runtime found and wrote; it fails only if the relation lacks an     *)
(* edge that the program had, or that a word which is no pointer had by    *)
(* its address; and it gives up only if a site is unknown.                 *)
VerdictExact ==
    LET words == shown \cup aliased
        lacking(E) == {e \in E : /\ e[1] \in SiteTable /\ e[2] \in SiteTable \cup Symbols
                                 /\ e \notin static}
    IN  /\ verdict = "missing" => lacking(words) # {}
        /\ verdict = "ok" => lacking(Written) = {} /\ \A e \in Written : e[1] \in SiteTable
        /\ verdict = "error" => \E e \in words : e[1] \notin SiteTable
=============================================================================
