-------------------------- MODULE MCUpdateSession --------------------------
(* Instances of UpdateSession for TLC. *)
EXTENDS UpdateSession

CONSTANTS v1, v2

\* A file of one block and a longer one: the last packet is the first one in
\* the one, and a transfer can be interrupted inside the other.
MCBlocks == [v \in Versions |-> IF v = v1 THEN 1 ELSE MaxBlocks]

\* No time and no size of a version, and by chance those of one.
MCGarbage == {<<CHOOSE n \in Names : TRUE, 0, NoVersion>>,
              <<CHOOSE n \in Names : TRUE, 1, v1>>}

\* What follows a packet that was misread is followed without another fault.
FewFaultsAstray == astray # "never" => faults + replaced <= 1

\* Or not at all, where the property says nothing more then.
InStep == astray = "never"

=============================================================================
