--------------------------- MODULE MCScullAccess ----------------------------
(***************************************************************************)
(* Devices that processes open and close while others do, checked in one   *)
(* run: ScullAccess, the ports of TinyTty (tiny_tty and tiny_serial),      *)
(* UsbSkeleton, and the loading of all drivers, DriverLoad.  A behaviour   *)
(* picks one of them and steps it only.                                    *)
(*                                                                         *)
(* Of ScullAccess: a process of one user, one of another, one of that      *)
(* other user that did su to the first, and one of root.                   *)
(***************************************************************************)
EXTENDS ScullAccess, TinyTty, UsbSkeleton, DriverLoad, TLC

CONSTANTS a, b, root, p, q, su, r

MCuid  == p :> a @@ q :> b @@ su :> b @@ r :> root
MCeuid == p :> a @@ q :> b @@ su :> a @@ r :> root

VARIABLE opened

scullVars == <<vars, userVars>>
openVars == <<opened, scullVars, ttVars, tsVars, skVars, dlVars>>

OpenInit ==
    /\ opened \in {"scull", "tiny_tty", "tiny_serial", "usb-skeleton", "load"}
    /\ AccessInit /\ TtInit /\ TsInit /\ SkInit
    /\ DlInit /\ (opened # "load" => dlDriver = "misc")

OpenNext ==
    /\ UNCHANGED opened
    /\ \/ opened = "scull" /\ AccessNext /\ UNCHANGED <<ttVars, tsVars, skVars, dlVars>>
       \/ opened = "tiny_tty" /\ TtNext /\ UNCHANGED <<scullVars, tsVars, skVars, dlVars>>
       \/ opened = "tiny_serial" /\ TsNext /\ UNCHANGED <<scullVars, ttVars, skVars, dlVars>>
       \/ opened = "usb-skeleton" /\ SkNext /\ UNCHANGED <<scullVars, ttVars, tsVars, dlVars>>
       \/ opened = "load" /\ DlNext /\ UNCHANGED <<scullVars, ttVars, tsVars, skVars>>
       \* The others stop at a bound, or where memory is used wrongly.
       \/ opened # "scull" /\ UNCHANGED openVars

OpenSpec == OpenInit /\ [][OpenNext]_openVars

\* What a port or a usb device needs lives as long as somebody has it open, and
\* no longer, whoever opens, closes, unplugs and unloads when: opens are
\* counted, the timer runs and finds its tty, the structure is freed once, and
\* a read gives its own packet, but through the windows that the conjuncts name
\* (tiny_tty.c:97-160, tiny_serial.c:215, usb-skeleton.c:120).  And a driver that is
\* loaded or unloaded, whatever it is refused, gives back what it took, once, and
\* not what those inside it need, but for the drivers that the conjuncts name.
PortsKept ==
    /\ TtTypeOK /\ TtOpensCounted /\ TtTimerSane /\ TtCharactersComing
    /\ TsTimerSane /\ TsTimerComing
    /\ SkTypeOK /\ SkStructuresKept /\ SkOwnPacket
    /\ DlTypeOK /\ DlPutsRight /\ DlNothingLeft /\ DlUserHasAll

=============================================================================
