---------------------------- MODULE UsbSkeleton -----------------------------
(***************************************************************************)
(* usb-skeleton: a structure for each device that is plugged in, which the *)
(* driver and every open file hold by a reference, so that it outlives the *)
(* device.  The big kernel lock keeps an open out of skel_disconnect, but  *)
(* not where usb_deregister_dev sleeps.  read and write lock nothing.      *)
(*                                                                         *)
(* The usb core looks the interface of a minor up, hands out the packets   *)
(* of an endpoint in the order of the requests, fails requests once the    *)
(* device is gone, and completes what it has accepted.                     *)
(***************************************************************************)
EXTENDS Integers, FiniteSets

CONSTANTS
    SkFiles,      \* processes, each with one file at a time
    MaxPlugs,     \* how often the device is plugged in
    MaxPackets,   \* how many packets the device sends, each time
    MaxUrbs       \* how many writes are under way

ASSUME SkeletonAssumption == MaxPlugs \in Nat /\ MaxPackets \in Nat /\ MaxUrbs \in Nat

VARIABLES
    interface,    \* of the last device: "none", "bound", "cleared", "gone"
    minorFor,     \* the device whose interface the minor leads to, or None
    intfData,     \* the structure that its interface leads to, or None
    refs,         \* kref of each structure; the structure is freed at 0
    skFreed,      \* how often it was freed
    buffer,       \* bulk_in_buffer of each structure: the number of a packet
    packets,      \* how many packets have come from it
    skPc, file,   \* of each process, and its private_data
    got,          \* the packet that its usb_bulk_msg brought
    mixed,        \* another read has used the buffer since this one began
    copied,       \* history: a read gave another packet than its own
    urbs,         \* how many writes are under way
    skFault       \* history: what went wrong with memory

skVars == <<interface, minorFor, intfData, refs, skFreed, buffer, packets, skPc, file, got, mixed,
            copied, urbs, skFault>>
holders == <<refs, skFreed>>
reading == <<buffer, packets, got, mixed, copied>>
binding == <<interface, minorFor, intfData>>

None == 0
Structs == DOMAIN refs

\* No device has been plugged in.
SkInit ==
    /\ interface = "none" /\ minorFor = None /\ intfData = None
    /\ refs = [d \in {} |-> 0] /\ skFreed = refs /\ buffer = refs /\ packets = refs
    /\ skPc = [f \in SkFiles |-> "out"] /\ file = [f \in SkFiles |-> None]
    /\ got = file /\ mixed = {} /\ copied = {}
    /\ urbs = 0 /\ skFault = "none"

-----------------------------------------------------------------------------
\* (A slip: the file's reference is not counted.)
GotNone(d) == UNCHANGED <<refs, skFreed>>

\* kref_get, and kref_put with skel_delete.
Got(d) == refs' = [refs EXCEPT ![d] = @ + 1] /\ UNCHANGED skFreed
Put(d) ==
    /\ refs' = [refs EXCEPT ![d] = @ - 1]
    /\ skFreed' = IF refs[d] = 1 THEN [skFreed EXCEPT ![d] = @ + 1] ELSE skFreed

\* skel_probe: a structure with a buffer and both endpoints, or none, and a
\* minor, or none.  The error path gives its reference back.
Extended(f, d, x) == [e \in DOMAIN f \cup {d} |-> IF e = d THEN x ELSE f[e]]

Probe ==
    LET d == Cardinality(Structs) + 1 IN
    /\ interface \in {"none", "gone"} /\ d <= MaxPlugs
    /\ buffer' = Extended(buffer, d, 0) /\ packets' = Extended(packets, d, 0)
    /\ \/ /\ interface' = "bound" /\ minorFor' = d /\ intfData' = d
          /\ refs' = Extended(refs, d, 1) /\ skFreed' = Extended(skFreed, d, 0)
       \/ /\ interface' = "gone" /\ intfData' = None /\ UNCHANGED minorFor
          /\ refs' = Extended(refs, d, 0) /\ skFreed' = Extended(skFreed, d, 1)
    /\ UNCHANGED <<skPc, file, got, mixed, copied, urbs, skFault>>

\* skel_disconnect: the interface forgets the structure, the minor is given
\* back, which may sleep, and then the reference.
Disconnect ==
    /\ interface = "bound" /\ interface' = "cleared" /\ intfData' = None
    /\ UNCHANGED <<minorFor, holders, reading, skPc, file, urbs, skFault>>

Deregister ==
    /\ interface = "cleared" /\ interface' = "gone"
    /\ Put(minorFor) /\ minorFor' = None
    /\ UNCHANGED <<intfData, reading, skPc, file, urbs, skFault>>

-----------------------------------------------------------------------------
\* skel_open.
SkOpen(f) ==
    /\ skPc[f] = "out"
    /\ minorFor # None /\ intfData # None
    /\ Got(intfData)
    /\ skPc' = [skPc EXCEPT ![f] = "open"] /\ file' = [file EXCEPT ![f] = intfData]
    /\ UNCHANGED <<binding, reading, urbs, skFault>>

\* skel_release.
SkRelease(f) ==
    /\ skPc[f] = "open"
    /\ Put(file[f])
    /\ skPc' = [skPc EXCEPT ![f] = "out"] /\ file' = [file EXCEPT ![f] = None]
    /\ UNCHANGED <<binding, reading, urbs, skFault>>

Use(d) == skFault' = IF skFreed[d] > 0 THEN "freed" ELSE skFault

\* skel_read: usb_bulk_msg waits for a packet, which goes to the buffer that
\* all files share, or fails; the buffer is copied after that.
Readers(d) == {f \in SkFiles : skPc[f] \in {"reading", "copying"} /\ file[f] = d}

SkRead(f) ==
    LET d == file[f] IN
    /\ skPc[f] = "open" /\ Use(d)
    /\ skPc' = [skPc EXCEPT ![f] = "reading"]
    /\ mixed' = mixed \ {f}
    /\ copied' = copied \ {f}
    /\ UNCHANGED <<binding, holders, buffer, packets, got, file, urbs>>

SkPacket(f) ==
    LET d == file[f] IN
    /\ skPc[f] = "reading" /\ Use(d)
    /\ \/ /\ intfData = d /\ packets[d] < MaxPackets
          /\ packets' = [packets EXCEPT ![d] = @ + 1]
          /\ buffer' = [buffer EXCEPT ![d] = packets'[d]]
          /\ got' = [got EXCEPT ![f] = packets'[d]]
          /\ mixed' = mixed \cup (Readers(d) \ {f})
          /\ skPc' = [skPc EXCEPT ![f] = "copying"]
       \/ /\ skPc' = [skPc EXCEPT ![f] = "open"] /\ UNCHANGED <<packets, buffer, got, mixed>>
    /\ UNCHANGED <<binding, holders, copied, file, urbs>>

SkCopy(f) ==
    LET d == file[f] IN
    /\ skPc[f] = "copying" /\ Use(d)
    /\ copied' = IF buffer[d] # got[f] THEN copied \cup {f} ELSE copied
    /\ got' = [got EXCEPT ![f] = 0]
    /\ skPc' = [skPc EXCEPT ![f] = "open"]
    /\ UNCHANGED <<binding, holders, buffer, packets, mixed, file, urbs>>

\* skel_write of some bytes.  The error path looks into the urb, which may be
\* what could not be had, and gives a buffer that could not be filled or sent
\* back twice, to the core and with kfree.
SkWrite(f) ==
    /\ skPc[f] = "open"
    /\ \/ /\ intfData = file[f] /\ urbs < MaxUrbs /\ urbs' = urbs + 1 /\ Use(file[f])
       \/ /\ skFreed[file[f]] = 0 /\ skFault' \in {"null urb", "freed twice"} /\ UNCHANGED urbs
    /\ UNCHANGED <<binding, holders, reading, skPc, file>>

\* skel_write_bulk_callback, whatever has become of the file and the device: it
\* frees the buffer, and needs no structure for that.
SkWritten ==
    /\ urbs > 0 /\ urbs' = urbs - 1
    /\ UNCHANGED <<binding, holders, reading, skPc, file, skFault>>

SkNext ==
    /\ skFault = "none"
    /\ \/ Probe \/ Disconnect \/ Deregister
       \/ \E f \in SkFiles : SkOpen(f) \/ SkRelease(f) \/ SkRead(f) \/ SkPacket(f) \/ SkCopy(f) \/ SkWrite(f)
       \/ SkWritten

-----------------------------------------------------------------------------
SkTypeOK ==
    /\ interface \in {"none", "bound", "cleared", "gone"}
    /\ \A d \in Structs : skFreed[d] \in 0..1 /\ refs[d] \in 0..(1 + Cardinality(SkFiles))

\* A structure goes when the device is gone and the last file is closed, not
\* sooner and not later, and no file uses one that is freed.
SkStructuresKept ==
    /\ \A d \in Structs : skFreed[d] = 0 <=> (minorFor = d \/ \E f \in SkFiles : file[f] = d)
    /\ skFault # "freed"

\* A read gives the packet that it has received, unless another one has
\* received one between (usb-skeleton.c:120-128).
SkOwnPacket == \A f \in copied : f \in mixed
=============================================================================
