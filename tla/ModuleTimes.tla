----------------------------- MODULE ModuleTimes -----------------------------
(***************************************************************************)
(* The table of per-module compile times that travels with the cached      *)
(* build (scripts/module_times.py).                                        *)
(*                                                                         *)
(* A time is represented by what it was measured on: the inputs that the   *)
(* module had when Lake built it.  A table and a log's samples are         *)
(* functions from some of the modules to such inputs.                      *)
(***************************************************************************)
EXTENDS Naturals

Empty == [m \in {} |-> m]

\* the entries of f and g, those of g where both have one
Overlay(f, g) ==
    [m \in DOMAIN f \cup DOMAIN g |-> IF m \in DOMAIN g THEN g[m] ELSE f[m]]

\* is_module: a caption names a target and may name a facet of it; those of facets
\* are native work, and those of other packages' modules are not in the table
IsModule(caption, prefixes) == caption.facet = "" /\ caption.module \in prefixes

\* the samples of one log, a set of captions with what each was built from
SamplesOf(log, prefixes) ==
    LET kept == {c \in log : IsModule(c, prefixes)}
    IN [m \in {c.module : c \in kept} |-> (CHOOSE c \in kept : c.module = m).inputs]

\* parse_logs, of two logs of which either may be missing: the first sample of a
\* module wins
ParseLogs(first, second, prefixes) ==
    Overlay(SamplesOf(second, prefixes), SamplesOf(first, prefixes))

\* load_table: an absent or unreadable table is no table
LoadTable(file) == IF file.readable THEN file.modules ELSE Empty

\* Faulty variant of UpdateTable: the table goes over the samples.
UpdateTableOld(table, built, sources) ==
    LET all == Overlay(built, table)
    IN [m \in DOMAIN all \cap sources |-> all[m]]

\* update_table: the samples go over the table, and modules whose source is gone
\* are dropped
UpdateTable(table, built, sources) ==
    LET all == Overlay(table, built)
    IN [m \in DOMAIN all \cap sources |-> all[m]]
=============================================================================
