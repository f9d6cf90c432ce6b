------------------------------ MODULE Patterns ------------------------------
(***************************************************************************)
(* The patterns that a file lists in sections (src/patterns.cpp): names of *)
(* tables and functions that make a query risky, and constants that are    *)
(* always true.  The lines of a section become one regular expression, so  *)
(* one that does not compile costs its section; compile_pattern looks at   *)
(* the address of the result and not at the result, and the other sections *)
(* are compiled as if nothing had happened.                                *)
(***************************************************************************)
EXTENDS Sequences, FiniteSets, SequencesExt

\* A line of the file: the name of a section ("" if it has no end), or a pattern,
\* which may be fit for a regular expression or not.
Section(name)         == [kind |-> "section", name |-> name]
PatternLine(name, ok) == [kind |-> "pattern", name |-> name, compiles |-> ok]

\* The sections that something is made of.  The grants are read and left out.
Sections == {"alter", "create", "drop", "info", "block", "sensitive tables", "true constants",
             "bruteforce functions"}

\* LoadPattern: the pattern becomes an alternative of its section.
LoadPattern(list, section, line) ==
    IF section \in Sections THEN [list EXCEPT ![section] = Append(@, line)] ELSE list

\* The lists of patterns before the file is read.
clear == [section \in Sections |-> <<>>]

\* Load stops at a section without a name, or a pattern without a section.
Load(file) ==
    LET Read(acc, line) ==
          IF ~acc.loaded THEN acc
          ELSE IF line.kind = "section"
            THEN [acc EXCEPT !.section = line.name, !.loaded = line.name # ""]
          ELSE IF acc.section = "" THEN [acc EXCEPT !.loaded = FALSE]
          ELSE [acc EXCEPT !.list = LoadPattern(@, acc.section, line)]
    IN  FoldLeft(Read, [loaded |-> TRUE, section |-> "", list |-> clear], file)

\* Mutant: a section that does not compile ends CompilePatterns, which frees them all.
CompilePatterns_AllOrNone(list) ==
    IF \E s \in Sections : \E i \in DOMAIN list[s] : ~list[s][i].compiles THEN {}
    ELSE {s \in Sections : list[s] # <<>>}

\* The sections that have a regular expression.
CompilePatterns(list) ==
    {s \in Sections : list[s] # <<>> /\ \A i \in DOMAIN list[s] : list[s][i].compiles}

\* Whether a pattern is found in a name: in the whole of it, but anywhere in the name of
\* a table.
Covers(section, pattern, name) ==
    \E i, j \in 0..Len(name) :
        /\ SubSeq(name, i + 1, j) = pattern
        /\ section # "sensitive tables" => i = 0 /\ j = Len(name)

\* Match, for the sections that the parser asks for.
Match(file, section, name) ==
    LET list == Load(file).list
    IN  /\ section \in CompilePatterns(list)
        /\ \E i \in DOMAIN list[section] : Covers(section, list[section][i].name, name)
=============================================================================
