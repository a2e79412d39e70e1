----------------------------- MODULE DriverLoad -----------------------------
(***************************************************************************)
(* Loading and unloading the drivers.  A driver's init and exit functions  *)
(* are sequences of steps that take and give back what the kernel keeps    *)
(* for it; whatever can fail may fail, and then the error path is what is  *)
(* left to do.  Meanwhile a process may come in through what has been      *)
(* registered.  Where a loop sets up several devices alike, one or two of  *)
(* them stand for all.                                                     *)
(***************************************************************************)
EXTENDS Integers, Sequences

VARIABLES
    dlDriver,     \* the driver that is looked at
    dlPhase,      \* "load", "live", "unload", "gone" or "failed"
    dlRest,       \* the steps that are left of the phase
    dlHeld,       \* what the kernel keeps for the driver, and what is initialised
    dlSet,        \* pointers (and numbers) that the driver takes for valid
    dlUser,       \* the door through which a process is inside, or "none"
    dlCounted,    \* it holds a reference on the module
    dlWrong       \* history: given back, or used, and not held

dlVars == <<dlDriver, dlPhase, dlRest, dlHeld, dlSet, dlUser, dlCounted, dlWrong>>

-----------------------------------------------------------------------------
(* The steps.  A failing take goes on with on, where skip steps of the     *)
(* function are left out.                                                  *)

DlStep(op, what) == [op |-> op, what |-> what, fails |-> FALSE, on |-> <<>>, skip |-> 0, if |-> {}, unless |-> {}]

Sure(what)          == DlStep("take", what)
On(what, on, skip)  == [DlStep("take", what) EXCEPT !.fails = TRUE, !.on = on, !.skip = skip]
Loose(what)         == On(what, <<>>, 0)                   \* nobody looks at the result
Unseen(what)        == [Loose(what) EXCEPT !.op = "error pointer"]   \* and it looks valid
Return(phase)       == DlStep("return", {phase})
Whole               == 100                                 \* more than any function has
Try(what, undo)     == On(what, Append(undo, Return("failed")), Whole)
Check(any, undo)    == [Try(any, undo) EXCEPT !.op = "check"]

DlPut(what)           == DlStep("put", what)
DlPutIf(p, what)      == [DlPut(what) EXCEPT !.if = p]
DlDrop(what)          == DlStep("drop", what)                \* harmless if it is not there
DlUse(what)           == DlStep("use", what)

\* cdev_init, and cdev_add whose failure is only reported.
Cdev(cdev, node)    == <<Sure({cdev}), Loose({node})>>
CdevDel(cdev, node) == <<DlPut({cdev}), DlDrop({node})>>

-----------------------------------------------------------------------------
(* c/ak_driver                                                             *)

GlobalmemInit == <<Try({"region"}, <<>>), Try({"dev"}, <<DlPut({"region"})>>)>> \o Cdev("cdev", "node")
GlobalmemExit == CdevDel("cdev", "node") \o <<DlPut({"dev"}), DlPut({"region"})>>

LockInit == <<Try({"region"}, <<>>), Try({"dev"}, <<DlPut({"region"})>>)>> \o Cdev("cdev", "node") \o <<Sure({"sem"})>>
LockExit == CdevDel("cdev", "node") \o <<DlPut({"dev"}), DlPut({"region"})>>

FifoInit ==
    <<Try({"region"}, <<>>), Try({"dev"}, <<DlPut({"region"})>>)>> \o Cdev("cdev", "node") \o <<Sure({"sem"}), Sure({"queues"})>>
FifoExit == CdevDel("cdev", "node") \o <<DlPut({"dev"}), DlPut({"region"})>>

\* Two minors are registered, and one unregistered when there is no memory.
TwoInit ==
    <<Try({"minor0", "minor1"}, <<>>), Try({"dev"}, <<DlPut({"minor0"})>>)>>
    \o Cdev("cdev", "node") \o Cdev("cdev1", "node1")
TwoExit == CdevDel("cdev", "node") \o CdevDel("cdev1", "node1") \o <<DlPut({"dev"}), DlPut({"minor0", "minor1"})>>

CtestSetup == Cdev("cdev", "node") \o <<Loose({"proc"})>>
CtestInit ==
    <<Try({"region"}, <<>>), Try({"dev"}, <<DlPut({"region"})>>), Try({"pages"}, <<DlPut({"region"})>>),
      Sure({"sem", "queues"})>> \o CtestSetup
CtestExit == <<DlDrop({"proc"}), DlPut({"pages"})>> \o CdevDel("cdev", "node") \o <<DlPut({"dev"}), DlPut({"region"})>>

\* kfifo_free frees the buffer too.
KfifoExit ==
    <<DlPutIf({"dev", "kfifo"}, {"kfifo", "buffer"}), DlPutIf({"dev"}, {"cdev"}), DlDrop({"node"}), DlPutIf({"dev"}, {"dev"}),
      [DlPutIf({"buffer"}, {"buffer"}) EXCEPT !.unless = {"kfifo"}], DlPutIf({"tekkaman"}, {"tekkaman"}), DlPut({"region"})>>
KfifoInit ==
    <<Try({"region"}, <<>>), Try({"dev"}, KfifoExit), Try({"buffer"}, KfifoExit), Try({"tekkaman"}, KfifoExit),
      Sure({"sem"}), Unseen({"kfifo"})>> \o Cdev("cdev", "node")

\* Of two devices.  When there are no pages, 0 is returned; down() on a
\* semaphore that was never initialised waits for ever.
ChrdevClear(sem, pages) == <<[DlUse({sem}) EXCEPT !.if = {"devices"}], DlPutIf({"devices", pages}, {pages})>>
ChrdevExit ==
    ChrdevClear("sem0", "pages0") \o <<DlPutIf({"devices"}, {"cdev0"}), DlDrop({"node0"})>>
    \o ChrdevClear("sem1", "pages1") \o <<DlPutIf({"devices"}, {"cdev1"}), DlDrop({"node1"})>>
    \o <<DlPutIf({"devices"}, {"devices"}), DlPut({"region"})>>
ChrdevSetup(pages, sem, file, cdev, node) ==
    <<On({pages}, Append(ChrdevExit, Return("live")), Whole), Sure({sem}), Try({file}, ChrdevExit)>> \o Cdev(cdev, node)
ChrdevInit ==
    <<Try({"region"}, <<>>), Try({"devices"}, ChrdevExit)>>
    \o ChrdevSetup("pages0", "sem0", "file0", "cdev0", "node0") \o ChrdevSetup("pages1", "sem1", "file1", "cdev1", "node1")

MiscInit == <<Try({"misc"}, <<>>)>>
MiscExit == <<DlPut({"misc"})>>

HelloDevInit == <<Try({"misc"}, <<>>)>>
HelloDevExit == <<DlPut({"misc"})>>

HelloProcInit == <<Try({"proc"}, <<>>)>>
HelloProcExit == <<DlDrop({"proc"})>>

MycdevInit == <<Try({"chrdev"}, <<>>)>>
MycdevExit == <<DlPut({"chrdev"})>>

ChardevInit == <<Try({"chrdev"}, <<>>)>>
ChardevExit == <<DlPut({"chrdev"})>>

Chardev1Init == <<Try({"chrdev"}, <<>>)>>
Chardev1Exit == <<DlPut({"chrdev"})>>

Procfs1Init == <<Try({"proc"}, <<DlDrop({"proc"})>>)>>
Procfs1Exit == <<DlDrop({"proc"})>>

Procfs2Init == <<Try({"proc"}, <<DlDrop({"proc"})>>)>>
Procfs2Exit == <<DlDrop({"proc"})>>

Procfs3Init == <<Try({"proc"}, <<>>)>>
Procfs3Exit == <<DlDrop({"proc"})>>

Procfs4Init == <<Loose({"proc"})>>
Procfs4Exit == <<DlDrop({"proc"})>>

-----------------------------------------------------------------------------
(* c/ldd3_codes                                                            *)

\* The pipes and the devices of access.c fail without scull's noticing.
PipeInit ==
    <<On({"pregion"}, <<>>, 4), On({"pipes"}, <<DlPut({"pregion"})>>, 3), Sure({"psem"})>> \o Cdev("pcdev", "pnode")
PipeExit ==
    <<DlPutIf({"pipes"}, {"pcdev"}), DlDrop({"pnode"}), DlPutIf({"pipes"}, {"pipes"}), DlPutIf({"pipes"}, {"pregion"})>>

AccessSetup == <<Sure({"asem"}), Sure({"acdev"}), On({"anode"}, <<DlPut({"acdev"})>>, 0)>>
FriendsInit == <<On({"aregion"}, <<>>, 3)>> \o AccessSetup
FriendsExit == CdevDel("acdev", "anode") \o <<DlDrop({"aregion"})>>

ScullExit ==
    <<DlPutIf({"devices"}, {"cdev"}), DlDrop({"node"}), DlPutIf({"devices"}, {"devices"}), DlDrop({"proc"}), DlPut({"region"})>>
    \o PipeExit \o FriendsExit
ScullLoad ==
    <<Try({"region"}, <<>>), Try({"devices"}, ScullExit), Sure({"sem"})>> \o Cdev("cdev", "node")
    \o PipeInit \o FriendsInit \o <<Loose({"proc"})>>

ScullpInit ==
    <<Try({"region"}, <<>>), Try({"devices"}, <<DlPut({"region"})>>), Sure({"sem"})>>
    \o Cdev("cdev", "node") \o <<Loose({"proc"})>>
ScullpExit == <<DlDrop({"proc"})>> \o CdevDel("cdev", "node") \o <<DlPut({"devices"}), DlPut({"region"})>>

ScullvInit ==
    <<Try({"region"}, <<>>), Try({"devices"}, <<DlPut({"region"})>>), Sure({"sem"})>>
    \o Cdev("cdev", "node") \o <<Loose({"proc"})>>
ScullvExit == <<DlDrop({"proc"})>> \o CdevDel("cdev", "node") \o <<DlPut({"devices"}), DlPut({"region"})>>

\* The nodes are there before the cache is.
ScullcExit ==
    <<DlDrop({"proc"})>> \o CdevDel("cdev", "node") \o <<DlPut({"devices"}), DlPutIf({"cache"}, {"cache"}), DlPut({"region"})>>
ScullcInit ==
    <<Try({"region"}, <<>>), Try({"devices"}, <<DlPut({"region"})>>), Sure({"sem"})>>
    \o Cdev("cdev", "node") \o <<Try({"cache"}, ScullcExit), Loose({"proc"})>>

SculldRegister == Cdev("cdev", "node") \o <<Loose({"ldev"})>>
SculldInit ==
    <<Try({"region"}, <<>>), Loose({"ldriver"}), Try({"devices"}, <<DlPut({"region"})>>), Sure({"sem"})>>
    \o SculldRegister \o <<Loose({"proc"})>>
SculldExit ==
    <<DlDrop({"proc"}), DlPut({"ldev"})>> \o CdevDel("cdev", "node")
    \o <<DlPut({"devices"}), DlPut({"ldriver"}), DlPut({"region"})>>

LddbusInit == <<Try({"bus"}, <<>>), Loose({"attribute"}), Try({"ldd0"}, <<>>)>>
LddbusExit == <<DlPut({"ldd0"}), DlDrop({"attribute"}), DlPut({"bus"})>>

\* short with ports, with memory, and with a bottom half.
ShortInit == <<Try({"ports"}, <<>>), Try({"chrdev"}, <<DlPut({"ports"})>>), Loose({"buffer"}), Loose({"irq"})>>
ShortHalvesInit ==
    <<Try({"ports"}, <<>>), Try({"chrdev"}, <<DlPut({"ports"})>>), Loose({"buffer"}), On({"irq"}, <<>>, 2),
      DlPut({"irq"}), Loose({"irq"})>>
ShortMemInit ==
    <<Try({"memory"}, <<>>), Loose({"map"}), Try({"chrdev"}, <<DlPut({"ports"})>>), Loose({"buffer"}), Loose({"irq"})>>
ShortExit == <<DlPutIf({"irq"}, {"irq"}), DlPut({"chrdev"}), DlPut({"ports"}), DlPutIf({"buffer"}, {"buffer"})>>
\* short_base is the address of the mapping by now.
ShortMemExit ==
    <<DlPutIf({"irq"}, {"irq"}), DlPut({"chrdev"}), DlDrop({"map"}), DlPut({"memory at the mapping"}), DlPutIf({"buffer"}, {"buffer"})>>

ShortpExit ==
    <<DlPutIf({"irq"}, {"irq"}), DlPut({"chrdev"}), DlPut({"ports"}), DlPut({"workqueue"}),
      DlPutIf({"in"}, {"in"}), DlPutIf({"out"}, {"out"})>>
ShortpInit ==
    <<Try({"ports"}, <<>>), Try({"chrdev"}, <<DlPut({"ports"})>>), Loose({"in"}), Loose({"out"}), Sure({"sem"}),
      Loose({"workqueue"}), Try({"irq"}, ShortpExit)>>

SnullExit ==
    <<DlPutIf({"net0"}, {"sn0"}), DlPutIf({"net0"}, {"net0"}), DlPutIf({"net1"}, {"sn1"}), DlPutIf({"net1"}, {"net1"})>>
SnullLoad ==
    <<Loose({"net0"}), Loose({"net1"}), Check({"net0"}, SnullExit), Check({"net1"}, SnullExit),
      Loose({"sn0"}), Loose({"sn1"}), Check({"sn0", "sn1"}, SnullExit)>>

\* data is freed and the pointer kept; the name it was registered under is sbull.
SbullSetup ==
    LET vfree == <<DlPutIf({"data"}, {"data"}), Return("live")>>
    IN <<On({"data"}, <<Return("live")>>, Whole), On({"queue"}, vfree, Whole), On({"gd"}, vfree, Whole), Sure({"disk"})>>
SbullLoad == <<Try({"blkdev"}, <<>>), Try({"Devices"}, <<DlDrop({"sbd"})>>)>> \o SbullSetup
SbullExit ==
    <<DlDrop({"disk"}), DlPutIf({"gd"}, {"gd"}), DlPutIf({"queue"}, {"queue"}), DlPutIf({"data"}, {"data"}),
      DlPut({"blkdev"}), DlPut({"Devices"})>>

TinyTtyInit == <<Try({"driver"}, <<>>), Try({"tty"}, <<DlPut({"driver"})>>), Loose({"sysfs"})>>
TinyTtyExit == <<DlDrop({"sysfs"}), DlPut({"tty"})>>

TinySerialInit == <<Try({"uart"}, <<>>), Try({"port"}, <<DlPut({"uart"})>>)>>

UsbInit == <<Try({"usb"}, <<>>)>>
UsbExit == <<DlPut({"usb"})>>

JitInit == <<Loose({"jitsched"}), Loose({"jitimer"})>>
JitExit == <<DlDrop({"jitsched"}), DlDrop({"jitimer"})>>

JiqInit == <<Sure({"work"}), Loose({"jiqwq"}), Loose({"jitimer"})>>
JiqExit == <<DlDrop({"jiqwq"}), DlDrop({"jitimer"})>>

SillyInit == <<Try({"chrdev"}, <<>>), Loose({"io_base"})>>
SillyExit == <<DlDrop({"io_base"}), DlPut({"chrdev"})>>

SimpleInit == <<Try({"region"}, <<>>)>> \o Cdev("cdev", "node") \o Cdev("cdev1", "node1")
SimpleExit == CdevDel("cdev", "node") \o CdevDel("cdev1", "node1") \o <<DlPut({"region"})>>

CompleteInit == <<Try({"chrdev"}, <<>>)>>
CompleteExit == <<DlPut({"chrdev"})>>

SleepyInit == <<Try({"chrdev"}, <<>>)>>
SleepyExit == <<DlPut({"chrdev"})>>

FaultyInit == <<Try({"chrdev"}, <<>>)>>
FaultyExit == <<DlPut({"chrdev"})>>

SeqInit == <<Loose({"proc"})>>
SeqExit == <<DlDrop({"proc"})>>

-----------------------------------------------------------------------------
(* Each driver: its functions; what is used behind each door; and whether  *)
(* fops.owner counts those inside, the open function does, or nobody.      *)

Driver(init, exit, use, owner) == [init |-> init, exit |-> exit, use |-> use, owner |-> owner]
Node(needs)  == [node |-> needs]
Plain(door)  == [d \in {door} |-> {}]

Drivers ==
    [ globalmem      |-> Driver(GlobalmemInit, GlobalmemExit, Node({"dev"}), "fops"),
      globalmem_lock |-> Driver(LockInit, LockExit, Node({"dev", "sem"}), "fops"),
      globalfifo     |-> Driver(FifoInit, FifoExit, Node({"dev", "sem", "queues"}), "fops"),
      globalmem_two  |-> Driver(TwoInit, TwoExit, [node |-> {"dev"}, node1 |-> {"dev"}], "fops"),
      ctest          |-> Driver(CtestInit, CtestExit, Node({"dev", "pages", "sem", "queues"}), "fops"),
      scull_kfifo    |-> Driver(KfifoInit, KfifoExit, Node({"dev", "kfifo", "tekkaman", "sem"}), "fops"),
      chardevice     |-> Driver(ChrdevInit, ChrdevExit, [node0 |-> {"devices", "pages0", "sem0"},
                                                         node1 |-> {"devices", "pages1", "sem1"}], "fops"),
      misc           |-> Driver(MiscInit, MiscExit, Plain("misc"), "fops"),
      hello_dev      |-> Driver(HelloDevInit, HelloDevExit, Plain("misc"), "fops"),
      hello_proc     |-> Driver(HelloProcInit, HelloProcExit, Plain("proc"), "nobody"),
      mycdev         |-> Driver(MycdevInit, MycdevExit, Plain("chrdev"), "fops"),
      chardev        |-> Driver(ChardevInit, ChardevExit, Plain("chrdev"), "open"),
      chardev1       |-> Driver(Chardev1Init, Chardev1Exit, Plain("chrdev"), "open"),
      procfs1        |-> Driver(Procfs1Init, Procfs1Exit, Plain("proc"), "nobody"),
      procfs2        |-> Driver(Procfs2Init, Procfs2Exit, Plain("proc"), "nobody"),
      procfs3        |-> Driver(Procfs3Init, Procfs3Exit, Plain("proc"), "open"),
      procfs4        |-> Driver(Procfs4Init, Procfs4Exit, Plain("proc"), "fops"),
      scull          |-> Driver(ScullLoad, ScullExit, [node |-> {"devices", "sem"}, pnode |-> {"pipes", "psem"},
                                                       anode |-> {"asem"}], "fops"),
      scullp         |-> Driver(ScullpInit, ScullpExit, Node({"devices", "sem"}), "fops"),
      scullv         |-> Driver(ScullvInit, ScullvExit, Node({"devices", "sem"}), "fops"),
      scullc         |-> Driver(ScullcInit, ScullcExit, Node({"devices", "sem", "cache"}), "fops"),
      sculld         |-> Driver(SculldInit, SculldExit, Node({"devices", "sem"}), "fops"),
      lddbus         |-> Driver(LddbusInit, LddbusExit, [d \in {} |-> {}], "fops"),
      short          |-> Driver(ShortInit, ShortExit, [chrdev |-> {"ports", "buffer"}], "fops"),
      short_halves   |-> Driver(ShortHalvesInit, ShortExit, [chrdev |-> {"ports", "buffer"}], "fops"),
      short_mem      |-> Driver(ShortMemInit, ShortMemExit, [chrdev |-> {"map", "buffer"}], "fops"),
      shortprint     |-> Driver(ShortpInit, ShortpExit, [chrdev |-> {"ports", "sem", "out", "workqueue"}], "fops"),
      snull          |-> Driver(SnullLoad, SnullExit, [d \in {} |-> {}], "nobody"),
      sbull          |-> Driver(SbullLoad, SbullExit, [disk |-> {"data", "queue", "gd", "blkdev", "Devices"}], "fops"),
      tiny_tty       |-> Driver(TinyTtyInit, TinyTtyExit, [tty |-> {"driver"}], "fops"),
      tiny_serial    |-> Driver(TinySerialInit, <<>>, [port |-> {"uart"}], "fops"),
      usb_skeleton   |-> Driver(UsbInit, UsbExit, [d \in {} |-> {}], "fops"),
      jit            |-> Driver(JitInit, JitExit, [jitsched |-> {}, jitimer |-> {}], "nobody"),
      jiq            |-> Driver(JiqInit, JiqExit, [jiqwq |-> {"work"}, jitimer |-> {}], "nobody"),
      silly          |-> Driver(SillyInit, SillyExit, [chrdev |-> {"io_base"}], "fops"),
      simple         |-> Driver(SimpleInit, SimpleExit, [node |-> {}, node1 |-> {}], "fops"),
      complete       |-> Driver(CompleteInit, CompleteExit, Plain("chrdev"), "fops"),
      sleepy         |-> Driver(SleepyInit, SleepyExit, Plain("chrdev"), "fops"),
      faulty         |-> Driver(FaultyInit, FaultyExit, Plain("chrdev"), "fops"),
      seq            |-> Driver(SeqInit, SeqExit, Plain("proc"), "fops") ]

Code == Drivers[dlDriver]

-----------------------------------------------------------------------------
DlInit ==
    /\ dlDriver \in DOMAIN Drivers
    /\ dlPhase = "load" /\ dlRest = Append(Code.init, Return("live"))
    /\ dlHeld = {} /\ dlSet = {} /\ dlUser = "none" /\ dlCounted = FALSE /\ dlWrong = {}

\* A step of init or exit; after one that is wrong anything may happen.
DlDoes(op) == dlRest # <<>> /\ Head(dlRest).op = op /\ dlWrong = {}

DlApplies == Head(dlRest).if \subseteq dlSet /\ Head(dlRest).unless \cap dlSet = {}

DlGoOn == dlRest' = Tail(dlRest) /\ UNCHANGED <<dlDriver, dlPhase, dlUser, dlCounted>>

\* What is asked for is given, or refused: on is done, and skip steps are not.
DlTake ==
    /\ DlDoes("take") \/ DlDoes("error pointer")
    /\ dlHeld' = dlHeld \cup Head(dlRest).what /\ dlSet' = dlSet \cup Head(dlRest).what
    /\ UNCHANGED dlWrong /\ DlGoOn

DlOtherwise ==
    /\ dlRest' = Head(dlRest).on \o SubSeq(dlRest, Head(dlRest).skip + 2, Len(dlRest))
    /\ UNCHANGED <<dlDriver, dlPhase, dlHeld, dlUser, dlCounted, dlWrong>>

DlRefuse ==
    /\ DlDoes("take") \/ DlDoes("error pointer")
    /\ Head(dlRest).fails
    /\ dlSet' = IF DlDoes("take") THEN dlSet \ Head(dlRest).what ELSE dlSet \cup Head(dlRest).what
    /\ DlOtherwise

DlCheck ==
    /\ DlDoes("check")
    /\ \/ Head(dlRest).what \cap dlHeld # {} /\ DlGoOn /\ UNCHANGED <<dlHeld, dlSet, dlWrong>>
       \/ Head(dlRest).what \cap dlHeld = {} /\ DlOtherwise /\ UNCHANGED dlSet

\* Put gives back what must be held, drop what may be; use only needs it.
DlGiveBack ==
    /\ DlDoes("put") \/ DlDoes("drop") \/ DlDoes("use")
    /\ LET does == IF DlApplies THEN Head(dlRest).what ELSE {} IN
       /\ dlHeld' = IF DlDoes("use") THEN dlHeld ELSE dlHeld \ does
       /\ dlWrong' = IF DlDoes("drop") THEN {} ELSE does \ dlHeld
    /\ UNCHANGED dlSet /\ DlGoOn

DlReturn ==
    /\ DlDoes("return")
    /\ dlPhase' \in Head(dlRest).what /\ dlRest' = <<>>
    /\ UNCHANGED <<dlDriver, dlHeld, dlSet, dlUser, dlCounted, dlWrong>>

\* rmmod: a module that is counted on stays, and so does one without an exit function.
DlUnload ==
    /\ dlPhase = "live" /\ ~dlCounted /\ Code.exit # <<>> /\ dlWrong = {}
    /\ dlPhase' = "unload" /\ dlRest' = Append(Code.exit, Return("gone"))
    /\ UNCHANGED <<dlDriver, dlHeld, dlSet, dlUser, dlCounted, dlWrong>>

\* A process calls the driver through a door, leaves the open function that
\* counts it, and leaves.  The kernel counts nobody on a module that is going.
DlEnter(door) ==
    /\ dlUser = "none" /\ door \in DOMAIN Code.use \cap dlHeld /\ dlWrong = {}
    /\ Code.owner = "fops" => dlPhase # "unload"
    /\ dlUser' = door /\ dlCounted' = (Code.owner = "fops")
    /\ UNCHANGED <<dlDriver, dlPhase, dlRest, dlHeld, dlSet, dlWrong>>

DlCount ==
    /\ dlUser # "none" /\ ~dlCounted /\ Code.owner = "open" /\ dlPhase # "unload" /\ dlWrong = {}
    /\ dlCounted' = TRUE
    /\ UNCHANGED <<dlDriver, dlPhase, dlRest, dlHeld, dlSet, dlUser, dlWrong>>

DlLeave ==
    /\ dlUser # "none" /\ dlWrong = {} /\ dlUser' = "none" /\ dlCounted' = FALSE
    /\ UNCHANGED <<dlDriver, dlPhase, dlRest, dlHeld, dlSet, dlWrong>>

DlNext ==
    \/ DlTake \/ DlRefuse \/ DlCheck \/ DlGiveBack \/ DlReturn \/ DlUnload
    \/ \E door \in DOMAIN Code.use : DlEnter(door)
    \/ DlCount \/ DlLeave

-----------------------------------------------------------------------------
DlTypeOK ==
    /\ dlPhase \in {"load", "live", "unload", "gone", "failed"}
    /\ dlCounted => dlUser # "none"
    /\ dlUser # "none" => dlUser \in DOMAIN Code.use

\* Nothing is given back twice, or that was never taken, whatever fails and in
\* which order; the error paths of eight drivers do it: scull's and chardevice's
\* clean up devices that were not set up (ldd3_codes/scull/access.c:398,
\* chardevice/drv/main.c:521), scull_kfifo deletes a cdev that is zero (:212) and
\* frees an error pointer, sculld and snull unregister what was refused, sbull
\* frees its data twice (:393), short mixes ports with memory, shortprint
\* destroys a workqueue that could not be created.
DlMisPut ==
    [ chardevice |-> {"sem0", "sem1", "cdev0", "cdev1"}, scull |-> {"acdev"}, scull_kfifo |-> {"cdev", "kfifo"},
      sculld |-> {"ldev", "ldriver"}, snull |-> {"sn0", "sn1"}, sbull |-> {"data"},
      short_mem |-> {"ports", "memory at the mapping"}, shortprint |-> {"workqueue"} ]

DlPutsRight == dlWrong # {} => dlDriver \in DOMAIN DlMisPut /\ dlWrong \subseteq DlMisPut[dlDriver]

\* What is only initialised, or closed at once, and needs no giving back.
DlSoft == {"sem", "sem0", "sem1", "psem", "asem", "queues", "work", "attribute", "file0", "file1"}

\* A driver that is gone, or whose init failed, has left nothing behind; six do:
\* a second minor (globalmem_two.c:237), the device of ctest (ctest.c:478), a bus
\* or a driver whose follower failed (lddbus.c:163, sculld.c:604), a block device
\* unregistered under another's name (sbull.c:426), a tty driver that is never put.
DlLeft ==
    [ globalmem_two |-> {"minor1"}, ctest |-> {"dev"}, lddbus |-> {"bus"}, sculld |-> {"ldriver"},
      sbull |-> {"blkdev"}, tiny_tty |-> {"driver"} ]

DlNothingLeft ==
    dlPhase \in {"gone", "failed"} /\ dlWrong = {} /\ ~(dlHeld \subseteq DlSoft) =>
        dlDriver \in DOMAIN DlLeft /\ dlHeld \ DlSoft \subseteq DlLeft[dlDriver]

\* Registered before it is ready, and so entered too early; or loaded though
\* something is missing.
DlEarly  == {"chardevice", "globalfifo", "globalmem_lock", "scull_kfifo", "scullc", "short", "short_halves",
             "short_mem", "shortprint", "silly"}
DlLoaded == {"scull_kfifo", "short", "short_halves", "short_mem", "shortprint", "silly"}

\* Unregistered with a process inside that nothing counts, or that is counted
\* only once it runs; or released by a failing init that had registered.
DlUncounted == {"chardev", "chardev1", "hello_proc", "jiq", "jit", "procfs1", "procfs2", "procfs3"}
DlGivenUp   == {"scullc", "shortprint"}

\* Who is inside a driver has what the operations use, and the driver with it,
\* but for the drivers that are named.
DlUserHasAll ==
    dlUser # "none" =>
        /\ dlPhase = "gone" => dlDriver \in DlUncounted
        /\ dlPhase = "failed" => dlDriver \in DlGivenUp
        /\ dlPhase = "load" /\ ~(Code.use[dlUser] \subseteq dlHeld) => dlDriver \in DlEarly
        /\ dlPhase \in {"live", "unload"} /\ ~(Code.use[dlUser] \subseteq dlHeld) => dlDriver \in DlLoaded

=============================================================================
