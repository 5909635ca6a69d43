------------------------------ MODULE CodexToml ------------------------------
(***************************************************************************)
(* replaceCodexEntry: the installer's edit of Codex's configuration, a     *)
(* TOML file it never parses.  A file is a sequence of lines, of which     *)
(* only the kind matters; blank lines are left out.                        *)
(*                                                                         *)
(*   ours, child   [mcp_servers.codefacts] and [mcp_servers.codefacts.x]   *)
(*   table, array  any other [table] and [[array of tables]]               *)
(*   key           a key with its value                                    *)
(*   comment       a comment                                               *)
(*   mark, new     the comment and the keys of the installer's entry       *)
(***************************************************************************)
EXTENDS Naturals, SequencesExt

CONSTANTS
    MaxLines,   \* bound on the lines of the file before the first install
    Kinds,      \* the kinds of lines in it
    Installs    \* bound on installs

ASSUME TomlAssumption ==
    /\ MaxLines \in Nat /\ Installs \in Nat
    /\ Kinds \subseteq {"ours", "child", "table", "array", "key", "comment"}

VARIABLES
    original,   \* the file before the first install
    file,       \* the file
    installs    \* installs so far

vars == <<original, file, installs>>

\* Lines that begin a section.
Header == {"ours", "child", "table", "array"}

\* codefactsTomlBlock
Block == <<"mark", "ours", "new">>

\* Where the pattern of replaceCodexEntry finds a table: a line that is one
\* name in single brackets.
Tables(s) == {i \in DOMAIN s : s[i] \in {"ours", "child", "table"}}

\* Mutant: every other table ends the entry, its own subtables too.
EntryEndAtAny(s, i) ==
    Min({k \in Tables(s) : k > i} \cup {Len(s) + 1})

\* Mutant: the entry is the last of the file.
EntryEndAll(s, i) == Len(s) + 1

\* The line after the entry whose table is at i.
EntryEnd(s, i) ==
    Min({k \in Tables(s) : k > i /\ s[k] # "child"} \cup {Len(s) + 1})

\* Mutant: an entry that exists is not recognised.
ReplaceEntryByAppending(s) == s \o Block

ReplaceEntry(s) ==
    LET existing == {i \in Tables(s) : s[i] = "ours"}
    IN  IF existing = {} THEN s \o Block
        ELSE LET i == Min(existing)
             IN  SubSeq(s, 1, i - 1) \o Block \o SubSeq(s, EntryEnd(s, i), Len(s))

-----------------------------------------------------------------------------
(* What the lines mean to a reader of TOML.                                *)

\* The header a line stands under, 0 at the top.
Under(s, i) == Max({k \in 1..i : s[k] \in Header} \cup {0})

Section(s, i) == IF Under(s, i) = 0 THEN "top" ELSE s[Under(s, i)]

IsOurs(s, i) == Section(s, i) \in {"ours", "child"}

\* What line i sets, if it is not ours, with the header it stands under.
Setting(s, i) ==
    IF s[i] \in Header \cup {"key"} /\ ~IsOurs(s, i) THEN <<<<s[i], Section(s, i)>>>> ELSE <<>>

\* The settings that are not ours.
Others(s) == FlattenSeq([i \in DOMAIN s |-> Setting(s, i)])

\* The lines but the installer's comments.
Unmarked(s) == FlattenSeq([i \in DOMAIN s |-> IF s[i] = "mark" THEN <<>> ELSE <<s[i]>>])

\* A table is defined once.  A subtable of ours may stand anywhere, with or
\* without ours, and there may be several, of different names.
Valid(s) == Cardinality({i \in DOMAIN s : s[i] = "ours"}) <= 1

Files == UNION {[1..n -> Kinds] : n \in 0..MaxLines}

Init ==
    /\ original \in {s \in Files : Valid(s)}
    /\ file = original
    /\ installs = 0

Install ==
    /\ installs < Installs
    /\ file' = ReplaceEntry(file)
    /\ installs' = installs + 1
    /\ UNCHANGED original

Next == Install

Spec == Init /\ [][Next]_vars

-----------------------------------------------------------------------------

\* An install removes no setting but the entry's, and moves none into another
\* table (the README says it only creates or replaces the named entry).
OthersKept == Others(file) = Others(original)

\* Line i stands in our entry: our table and the subtables right behind it.
InEntry(s, i) ==
    \E h \in 1..i : s[h] = "ours" /\ \A k \in h..i : s[k] \notin {"table", "array"}

\* After any install the file has one table of ours, which holds the new
\* command, and behind it no key and subtable of an earlier entry.  A subtable
\* that stands before ours, behind another table or alone is left, with its keys.
EntryIsNew ==
    installs > 0 =>
        /\ Cardinality({i \in DOMAIN file : file[i] = "ours"}) = 1
        /\ \E i \in DOMAIN file : file[i] = "ours" /\ file[i + 1] = "new"
        /\ \A i \in DOMAIN file : InEntry(file, i) => file[i] \in {"ours", "new", "comment"}

\* A second install keeps every line of the first but its comment, of which
\* it adds another: `already current' is never reported.
Settles == [][installs > 0 => Unmarked(file') = Unmarked(file)]_vars

=============================================================================
