------------------------------ MODULE FlatFile ------------------------------
(***************************************************************************)
(* What a scull device promises: a file of bytes.  A write stores its      *)
(* bytes where it says and moves the end, a read returns bytes of the file *)
(* that lie in one piece, and nothing else changes but holes, which a      *)
(* write nearby may fill with whatever the allocator returns.              *)
(***************************************************************************)
EXTENDS Integers, Sequences

CONSTANTS Byte, Junk, Hole, MaxPos

VARIABLES
    flat,    \* the byte at every position
    size,    \* the length of the file
    got      \* the bytes that the last step has read

Positions == 0 .. MaxPos - 1

EmptyFile == [p \in Positions |-> Hole]

Init == flat = EmptyFile /\ size = 0 /\ got = <<>>

Truncate ==
    /\ flat' = EmptyFile
    /\ size' = 0
    /\ got' = <<>>

\* Positions pos .. pos + n - 1 take their bytes; another one may only stop
\* being a hole.
Stored(pos, n, b) ==
    \A p \in Positions :
        IF p \in pos .. pos + n - 1
          THEN flat'[p] = b
          ELSE flat'[p] = flat[p] \/ (flat[p] = Hole /\ flat'[p] = Junk)

Write ==
    /\ got' = <<>>
    /\ \E pos \in Positions, n \in 1 .. MaxPos, b \in Byte :
          /\ size' = IF size < pos + n THEN pos + n ELSE size
          /\ Stored(pos, n, b)

\* Where this one is not like other files: a write of 0 bytes behind the end
\* moves the end to where it was to start (scull_write, lines 377-382), and
\* the hole before it is never filled.
EmptyWrite ==
    /\ got' = <<>>
    /\ \E pos \in 0 .. MaxPos :
          /\ size' = IF size < pos THEN pos ELSE size
          /\ \A p \in Positions : flat'[p] = flat[p] \/ (flat[p] = Hole /\ flat'[p] = Junk)

\* A copy that fails half way spoils the range it was for and nothing else.
WriteFailed ==
    /\ UNCHANGED size /\ got' = <<>>
    /\ \E pos \in Positions, n \in 0 .. MaxPos :
          /\ \A p \in Positions \ (pos .. pos + n - 1) :
                flat'[p] = flat[p] \/ (flat[p] = Hole /\ flat'[p] = Junk)
          /\ \A p \in Positions : flat'[p] \in {flat[p], Junk} \cup Byte

Read ==
    /\ UNCHANGED <<flat, size>>
    /\ \E pos \in Positions, n \in 0 .. MaxPos :
          /\ pos + n <= size
          /\ got' = [i \in 1 .. n |-> flat[pos + i - 1]]
          /\ \A i \in 1 .. n : got'[i] # Hole

\* Nothing was read.
Other == got' = <<>> /\ UNCHANGED <<flat, size>>

Next == Other \/ Truncate \/ Read \/ Write \/ EmptyWrite \/ WriteFailed

Spec == Init /\ [][Next]_<<flat, size, got>>
=============================================================================
