---------------------------- MODULE MCDistribution ----------------------------
(* Two platforms, one machine with the first.  Two builds of one commit, a  *)
(* commit whose pins and one whose Cargo.toml were forgotten.               *)
EXTENDS Distribution

CONSTANTS linux, darwin, main, first, second, oldPins, oldCargo

Old == "0.3.0"
New == "0.4.0"

Pins(version) == [p \in {linux, darwin} |-> version]

Manifests == [cargo |-> New, npm |-> New, server |-> New, listed |-> New, named |-> TRUE, pins |-> Pins(New)]

MCSource ==
    [b \in {first, second, oldPins, oldCargo} |->
        CASE b = oldPins  -> [Manifests EXCEPT !.pins = Pins(Old)]
          [] b = oldCargo -> [Manifests EXCEPT !.cargo = Old]
          [] OTHER        -> Manifests]

OldBinary(p) == [platform |-> p, version |-> Old, build |-> None]

MCPrevious ==
    [p \in {linux, darwin, main} |->
        IF p = main THEN [name |-> p, version |-> Old, pins |-> Pins(Old)]
        ELSE [name |-> p, version |-> Old, on |-> p, platform |-> p,
              digest |-> OldBinary(p), file |-> OldBinary(p)]]

MCTag == New

MCStaged == SUBSET {linux, darwin}

=============================================================================
