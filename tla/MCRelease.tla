------------------------------ MODULE MCRelease ------------------------------
(* Two platform packages.  Binaries differ between builds; the launcher in  *)
(* the main package does not.                                               *)
EXTENDS Release

CONSTANTS linux, darwin, main, first, second

MCArchive ==
    [b \in Builds |-> [p \in {linux, darwin, main} |-> IF p = main THEN <<p>> ELSE <<p, b>>]]

MCStaged == SUBSET {linux, darwin}

=============================================================================
