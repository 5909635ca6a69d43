------------------------------ MODULE MCRefresh ------------------------------
(***************************************************************************)
(* Small instances of Refresh.  Text "def" defines a; "moved" defines a on *)
(* another line behind class b, constructs b and imports all of file 2, or *)
(* else of file 1; "use" defines nothing, calls a, calls b as if it were a *)
(* function, and imports a from file 2; "mixed" defines a class of name a. *)
(***************************************************************************)
EXTENDS Refresh, TLC

CONSTANT OldProcess  \* a process that runs an earlier binary, or None

AllDefs == [def   |-> {[name |-> "a", line |-> 1, kind |-> "callable"]},
           moved |-> {[name |-> "b", line |-> 1, kind |-> "type"],
                      [name |-> "a", line |-> 2, kind |-> "callable"]},
           use   |-> {},
           mixed |-> {[name |-> "a", line |-> 1, kind |-> "type"]}]

AllCalls == [def   |-> {},
            moved |-> {[line |-> 3, name |-> "b", form |-> "constructor"]},
            use   |-> {[line |-> 1, name |-> "a", form |-> "direct"],
                       [line |-> 2, name |-> "a", form |-> "member"],
                       [line |-> 3, name |-> "b", form |-> "direct"]},
            mixed |-> {[line |-> 1, name |-> "a", form |-> "direct"]}]

AllImports == [def   |-> {},
              moved |-> {[line |-> 5, paths |-> <<2, 1>>, name |-> Wildcard]},
              use   |-> {[line |-> 5, paths |-> <<2>>, name |-> "a"]},
              mixed |-> {}]

MCContent == {"def", "moved", "use"}

\* Functions and classes that share a name.
MixedContent == {"def", "use", "mixed"}

MCDefs    == [c \in Content |-> AllDefs[c]]
MCCalls   == [c \in Content |-> AllCalls[c]]
MCImports == [c \in Content |-> AllImports[c]]

MCName == {"a", "b"}

MCVersionOf == [p \in Process |-> IF p = OldProcess THEN "earlier" ELSE "current"]

Processes == Permutations(Process)

\* Two processes over a readable tree, the database absent or in step with it.
SharedInit ==
    /\ Init
    /\ disk \in [File -> Content]
    /\ db = EmptyDb \/ db.hashes = disk

SharedSpec == SharedInit /\ [][Next]_vars

=============================================================================
