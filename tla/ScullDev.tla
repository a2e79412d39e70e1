------------------------------ MODULE ScullDev ------------------------------
(***************************************************************************)
(* One scull device: a list of quantum sets, each an array of quanta.      *)
(* read and write copy the quantum and the qset of the device before they  *)
(* take its semaphore, so that a trim by another process may give the      *)
(* device another geometry in between: the call then computes with a       *)
(* geometry that is not the device's.                                      *)
(*                                                                         *)
(* The list is a sequence, an item of it a sequence of quanta (NoSet: not  *)
(* allocated), a quantum a sequence of bytes (<<>>: not allocated).        *)
(***************************************************************************)
EXTENDS Integers, Sequences, SequencesExt

CONSTANTS
    Tasks,        \* processes, each with a file of its own
    Byte, Junk, Hole,
    Geometries,   \* values of <<quantum, qset>> set at load time or by ioctl
    MaxPos        \* bound on file positions

Free == "free"

ASSUME ScullDevAssumption ==
    /\ Geometries # {} /\ Geometries \subseteq (Nat \ {0}) \X (Nat \ {0})
    /\ MaxPos \in Nat
    /\ Junk \notin Byte /\ Hole \notin Byte \cup {Junk}
    /\ Free \notin Tasks

VARIABLES
    data, size, geo,  \* dev->data, dev->size, <<dev->quantum, dev->qset>>
    param,            \* <<scull_quantum, scull_qset>>
    semaphore,        \* dev->sem
    file,             \* of every task: its control, mode, position, and its
                      \* copies of the quantum and the qset
    got,              \* the bytes that the last step copied to a user
    stale,            \* history: a call has used a geometry that was not the
                      \* device's, since the last trim
    wild              \* an access outside what was allocated

scullVars == <<data, size, geo, param, semaphore, file, got, stale, wild>>

NoSet     == <<>>
Quanta    == {g[1] : g \in Geometries}
Qsets     == {g[2] : g \in Geometries}
Closed    == [pc |-> "closed", mode |-> "rw", pos |-> 0, copy |-> <<0, 0>>]

Least(a, b) == IF a < b THEN a ELSE b

ScullTypeOK ==
    /\ size \in 0 .. MaxPos
    /\ geo \in Quanta \X Qsets /\ param \in Quanta \X Qsets
    /\ semaphore \in Tasks \cup {Free}
    /\ \A t \in Tasks :
          /\ file[t].pc \in {"closed", "trim", "idle", "begun", "called"}
          /\ file[t].mode \in {"w", "rw"} /\ file[t].pos \in 0 .. MaxPos
          /\ file[t].pc = "trim" <=> semaphore = t
    /\ \A i \in DOMAIN data : \A s \in DOMAIN data[i] :
          data[i][s] \in Seq(Byte \cup {Junk})
    /\ stale \in BOOLEAN /\ wild \in BOOLEAN

ScullInit ==
    /\ data = <<>> /\ size = 0
    /\ param = (CHOOSE g \in Geometries : TRUE) /\ geo = param
    /\ semaphore = Free
    /\ file = [t \in Tasks |-> Closed]
    /\ got = <<>> /\ stale = FALSE /\ wild = FALSE

-----------------------------------------------------------------------------
(* Where a position is, by the geometry g.                                 *)

Item(pos, g)   == pos \div (g[1] * g[2]) + 1
Slot(pos, g)   == (pos % (g[1] * g[2])) \div g[1] + 1
Offset(pos, g) == pos % g[1]

\* scull_follow: the list, made as long as m items.
Followed(m) == [i \in 1 .. IF m < Len(data) THEN Len(data) ELSE m |->
                  IF i <= Len(data) THEN data[i] ELSE NoSet]

Goto(t, pc) == file' = [file EXCEPT ![t].pc = pc]

-----------------------------------------------------------------------------
(* Opening.  Write only empties the device: scull_trim, in two steps so    *)
(* that others may see the new quantum with the old qset.                  *)

OpenKeep(t) ==
    /\ file[t].pc = "closed"
    /\ Goto(t, "idle")
    /\ UNCHANGED <<data, size, geo, param, semaphore, stale, wild>> /\ got' = <<>>

TrimmedSize == 0

TrimBegin(t) ==
    /\ file[t].pc = "closed" /\ semaphore = Free
    /\ semaphore' = t
    /\ file' = [file EXCEPT ![t].pc = "trim", ![t].mode = "w"]
    /\ size' = TrimmedSize
    /\ geo' = <<param[1], geo[2]>>
    \* every set is walked as if it had qset slots
    /\ wild' = \/ wild
               \/ \E i \in DOMAIN data : data[i] # NoSet /\ Len(data[i]) < geo[2]
    /\ data' = <<>>
    /\ UNCHANGED <<param, stale>> /\ got' = <<>>

TrimEnd(t) ==
    /\ file[t].pc = "trim"
    /\ geo' = <<geo[1], param[2]>>
    /\ stale' = FALSE
    /\ semaphore' = Free
    /\ Goto(t, "idle")
    /\ UNCHANGED <<data, size, param, wild>> /\ got' = <<>>

Close(t) ==
    /\ file[t].pc = "idle"
    /\ file' = [file EXCEPT ![t] = Closed]
    /\ UNCHANGED <<data, size, geo, param, semaphore, stale, wild>> /\ got' = <<>>

\* Set, Tell, eXchange, sHift and RESET change one parameter or the other.
SetParameter ==
    /\ \/ \E q \in Quanta : param' = <<q, param[2]>>
       \/ \E s \in Qsets : param' = <<param[1], s>>
    /\ UNCHANGED <<data, size, geo, semaphore, file, stale, wild>> /\ got' = <<>>

ValidPosition(pos) == pos >= 0

\* scull_llseek: whatever it counts from (the start, the position, the end),
\* the offset may be any, and so may what it comes to.
Seek(t) ==
    /\ file[t].pc = "idle"
    /\ \E pos \in -MaxPos .. MaxPos :
          ValidPosition(pos) /\ file' = [file EXCEPT ![t].pos = pos]
    /\ UNCHANGED <<data, size, geo, param, semaphore, stale, wild>> /\ got' = <<>>

-----------------------------------------------------------------------------
(* The start of read and write: the copies, before the semaphore.          *)

CopyQuantum(t) ==
    /\ file[t].pc = "idle"
    /\ file' = [file EXCEPT ![t].pc = "begun", ![t].copy[1] = geo[1]]
    /\ UNCHANGED <<data, size, geo, param, semaphore, stale, wild>> /\ got' = <<>>

CopyQset(t) ==
    /\ file[t].pc = "begun"
    /\ file' = [file EXCEPT ![t].pc = "called", ![t].copy[2] = geo[2]]
    /\ UNCHANGED <<data, size, geo, param, semaphore, stale, wild>> /\ got' = <<>>

Interrupted(t) ==
    /\ file[t].pc = "called" /\ semaphore # Free
    /\ file' = [file EXCEPT ![t].pc = "idle", ![t].copy = <<0, 0>>]
    /\ UNCHANGED <<data, size, geo, param, semaphore, stale, wild>> /\ got' = <<>>

\* With the semaphore, to its release: no step of another task is seen.
Inside(t) ==
    /\ file[t].pc = "called" /\ semaphore = Free
    /\ stale' = (stale \/ file[t].copy # geo)
    /\ UNCHANGED <<geo, param, semaphore>>

Return(t, n) == file' = [file EXCEPT ![t].pc = "idle", ![t].copy = <<0, 0>>,
                                     ![t].pos = @ + n]

Astray(t) ==
    /\ wild' = TRUE
    /\ Return(t, 0)
    /\ UNCHANGED <<data, size>> /\ got' = <<>>

\* n bytes from off on are all in a quantum that was allocated.
Holds(quantum, off, n) == n = 0 \/ off + n <= Len(quantum)

(* read of up to count bytes                                               *)
ReadSome(t, count) ==
    LET g == file[t].copy
        pos == file[t].pos
        item == Item(pos, g)
        slot == Slot(pos, g)
        n == Least(Least(count, size - pos), g[1] - Offset(pos, g))
        Nothing(list) == /\ data' = list
                         /\ got' = <<>> /\ Return(t, 0) /\ UNCHANGED <<size, wild>>
    IN /\ Inside(t) /\ file[t].mode = "rw"
       /\ \/ pos >= size /\ Nothing(data)
          \/ /\ pos < size
             /\ \/ \E m \in Len(data) .. item - 1 : Nothing(Followed(m))
                \/ /\ Followed(item)[item] = NoSet /\ Nothing(Followed(item))
                \/ /\ item <= Len(data) /\ data[item] # NoSet
                   /\ \/ slot > Len(data[item]) /\ Astray(t)
                      \/ slot <= Len(data[item]) /\ data[item][slot] = <<>> /\ Nothing(data)
                      \/ /\ slot <= Len(data[item]) /\ data[item][slot] # <<>>
                         /\ \/ ~Holds(data[item][slot], Offset(pos, g), n) /\ Astray(t)
                            \/ /\ Holds(data[item][slot], Offset(pos, g), n)
                               /\ got' = SubSeq(data[item][slot], Offset(pos, g) + 1, Offset(pos, g) + n)
                               /\ Return(t, n)
                               /\ UNCHANGED <<data, size, wild>>
                            \/ Nothing(data)   \* copy_to_user fails

(* write of up to count bytes b                                            *)
\* A slip that would take the new end for the size whatever the size was.
EndIsSize(end) == end
NewSize(end) == IF size < end THEN end ELSE size

WriteSome(t, count, b) ==
    LET g == file[t].copy
        pos == file[t].pos
        item == Item(pos, g)
        slot == Slot(pos, g)
        off == Offset(pos, g)
        n == Least(count, g[1] - off)
        list == Followed(item)
        set == IF list[item] = NoSet THEN [s \in 1 .. g[2] |-> <<>>] ELSE list[item]
        quantum == IF set[slot] = <<>> THEN [i \in 1 .. g[1] |-> Junk] ELSE set[slot]
        Stored(k, c) == [i \in DOMAIN quantum |->
                            CASE i - off \in 1 .. k -> b
                              [] i - off \in k + 1 .. n -> c
                              [] OTHER -> quantum[i]]
        Put(q) == data' = [list EXCEPT ![item] = [set EXCEPT ![slot] = q]]
        Fails == got' = <<>> /\ Return(t, 0) /\ UNCHANGED <<size, wild>>
    IN /\ Inside(t)
       /\ \/ \E m \in Len(data) .. item - 1 : data' = Followed(m) /\ Fails
          \/ list[item] = NoSet /\ data' = list /\ Fails
          \/ slot > Len(set) /\ Astray(t)
          \/ /\ slot <= Len(set)
             /\ \/ set[slot] = <<>> /\ data' = [list EXCEPT ![item] = set] /\ Fails
                \/ ~Holds(quantum, off, n) /\ Astray(t)
                \/ /\ Holds(quantum, off, n)
                   /\ \/ /\ Put(Stored(n, b))
                         /\ size' = NewSize(pos + n)
                         /\ Return(t, n)
                         /\ UNCHANGED wild /\ got' = <<>>
                      \/ \E k \in 0 .. n - 1 : Put(Stored(k, Junk)) /\ Fails

\* What happens after a wild access is not modelled.
Running == ~wild

\* A call starts below the bound of positions, and ends there at the latest.
Counts(pos) == IF pos < MaxPos THEN 0 .. MaxPos - pos ELSE {}

ScullTask(t) ==
    /\ Running
    /\ \/ OpenKeep(t) \/ TrimBegin(t) \/ TrimEnd(t) \/ Close(t) \/ Seek(t)
       \/ CopyQuantum(t) \/ CopyQset(t) \/ Interrupted(t)
       \/ \E count \in Counts(file[t].pos) : ReadSome(t, count)
       \/ \E count \in Counts(file[t].pos), b \in Byte : WriteSome(t, count, b)

ScullNext == (\E t \in Tasks : ScullTask(t)) \/ (Running /\ SetParameter)

ScullSpec == ScullInit /\ [][ScullNext]_scullVars

-----------------------------------------------------------------------------
(* The file that a call with the device's own geometry sees.               *)
Flat == [p \in 0 .. MaxPos - 1 |->
           LET item == Item(p, geo) slot == Slot(p, geo) IN
           IF item > Len(data) \/ slot > Len(data[item]) THEN Hole
           ELSE IF data[item][slot] = <<>> THEN Hole
           ELSE data[item][slot][Offset(p, geo) + 1]]

File == INSTANCE FlatFile WITH flat <- Flat

\* Unless a call computed with a geometry that another process has replaced
\* (scull_read, scull_write: quantum and qset are copied before the
\* semaphore is taken), the quanta are one file: a write changes its own
\* bytes only and a read returns what was written there.  As no other file it
\* lets a write of 0 bytes move the end (lines 377-382; FlatFile!EmptyWrite).
ScullIsFile == [][~stale /\ ~stale' => File!Next]_<<Flat, size, got>>

\* No call leaves the memory that was allocated for the sets and the quanta
\* it uses, scull_trim with the qset of the device included, unless a call
\* had a replaced geometry.
ScullWithinBounds == wild => stale

\* The end of the file lies inside the items that the list has, so that a
\* read below the size never has scull_follow allocate one.
ScullSizeCovered == ~stale => size <= Len(data) * geo[1] * geo[2]
=============================================================================
