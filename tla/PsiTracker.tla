----------------------------- MODULE PsiTracker -----------------------------
(***************************************************************************)
(* How a packet handler follows the PAT and the PMT of its input:          *)
(* process_pat and process_pmt of src/mux.rs on top of SectionReassembler  *)
(* of src/psi/mod.rs.  The first section of a table becomes the initial    *)
(* one; every later section is compared with it, and the table is dirty    *)
(* while they differ.                                                      *)
(*                                                                         *)
(* A table's content is one of Infos, as is_pat_changed and is_pmt_changed *)
(* see it.  A section fills one TS packet or two.  The reassembler checks  *)
(* neither the continuity counter nor the CRC, so a lost packet makes it   *)
(* join the head of one section to the tail of another: Mixed.             *)
(***************************************************************************)
EXTENDS Naturals

CONSTANTS
    Infos,   \* contents of a table
    Mixed,   \* a section put together from two
    None     \* no section, no content

ASSUME InfosAssumption == Mixed \notin Infos /\ None \notin Infos /\ None # Mixed

VARIABLES
    ready,   \* pat_ready, pmt_ready
    info,    \* pat_info, pmt_info: the initial content
    dirty,   \* dirty_pat, dirty_pmt
    reasm    \* psi_reasm: the head of a section whose tail is awaited

psiVars == <<ready, info, dirty, reasm>>

Tables == {"pat", "pmt"}

\* What a packet of a table carries: a whole section, the head or the tail of
\* one, or a tail followed by a whole section (a non-zero pointer field).
Parts == {"whole", "head", "tail", "tail_whole"}

PsiInit ==
    /\ ready = [t \in Tables |-> FALSE]
    /\ info = [t \in Tables |-> None]
    /\ dirty = [t \in Tables |-> FALSE]
    /\ reasm = [t \in Tables |-> None]

-----------------------------------------------------------------------------
(* SectionReassembler.push                                                 *)

\* The section that a head of h and a tail of i make.
Join(h, i) == IF h = i THEN i ELSE Mixed

\* The section push returns.  A packet that ends one section and starts
\* another yields the first only: the start is dropped with the buffer.
Section(h, part, i) ==
    CASE part = "whole"                       -> i
      [] part = "tail" /\ h # None            -> Join(h, i)
      [] part = "tail_whole" /\ h # None      -> Join(h, i)
      [] part = "tail_whole" /\ h = None      -> i
      [] OTHER                                -> None

\* What push leaves in the buffer.
Buffered(part, i) == IF part = "head" THEN i ELSE None

-----------------------------------------------------------------------------
(* process_pat and process_pmt                                             *)

\* The table now differs from the initial one (is_pat_changed, is_pmt_changed).
Changed(t, part, i) ==
    LET s == Section(reasm[t], part, i)
    IN  ready[t] /\ s # None /\ s # info[t]

\* The section a packet of table t completes is compared with the last one.
ProcessTableFollows(t, part, i) ==
    LET s == Section(reasm[t], part, i)
    IN  /\ reasm' = [reasm EXCEPT ![t] = Buffered(part, i)]
        /\ ready' = [ready EXCEPT ![t] = @ \/ s # None]
        /\ info' = [info EXCEPT ![t] = IF s = None THEN @ ELSE s]
        /\ dirty' = [dirty EXCEPT ![t] =
                         IF ready[t] /\ s # None THEN s # info[t] ELSE @]

\* A table that returned to its initial content stays dirty.
ProcessTableSticky(t, part, i) ==
    LET s == Section(reasm[t], part, i)
    IN  /\ reasm' = [reasm EXCEPT ![t] = Buffered(part, i)]
        /\ ready' = [ready EXCEPT ![t] = @ \/ s # None]
        /\ info' = [info EXCEPT ![t] = IF ready[t] THEN @ ELSE s]
        /\ dirty' = [dirty EXCEPT ![t] =
                         @ \/ (ready[t] /\ s # None /\ s # info[t])]

\* A packet of table t.
ProcessTable(t, part, i) ==
    LET s == Section(reasm[t], part, i)
    IN  /\ reasm' = [reasm EXCEPT ![t] = Buffered(part, i)]
        /\ ready' = [ready EXCEPT ![t] = @ \/ s # None]
        /\ info' = [info EXCEPT ![t] = IF ready[t] THEN @ ELSE s]
        /\ dirty' = [dirty EXCEPT ![t] =
                         IF ready[t] /\ s # None THEN s # info[t] ELSE @]

ProcessPat(part, i) == ProcessTable("pat", part, i)

ProcessPmt(part, i) == ProcessTable("pmt", part, i)

-----------------------------------------------------------------------------
PsiTypeOK ==
    /\ ready \in [Tables -> BOOLEAN]
    /\ info \in [Tables -> Infos \cup {Mixed, None}]
    /\ dirty \in [Tables -> BOOLEAN]
    /\ reasm \in [Tables -> Infos \cup {None}]

=============================================================================
