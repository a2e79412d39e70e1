------------------------------ MODULE PagedScull ----------------------------
(***************************************************************************)
(* One device of the drivers scullp, scullv, sculld and scullc: scull with *)
(* quanta of 2^order pages from the page allocator (scullp, sculld), from  *)
(* vmalloc (scullv), or from a slab cache (scullc).  A process may map the *)
(* device; the pages of the mapping are looked up one by one when they are *)
(* touched (nopage), and while vmas counts a mapping nobody trims.         *)
(*                                                                         *)
(* Only pages are followed, and not what is in them (ScullDev does that):  *)
(* positions count pages.  A quantum is the number of its first page (0:   *)
(* not allocated), an item of the list a sequence of quanta.  An order is  *)
(* given by the pages it stands for: 1 for the order 0.                    *)
(***************************************************************************)
EXTENDS Integers, Sequences, FiniteSets

CONSTANTS
    PsTasks,        \* processes, each with a file and at most one mapping
    PsGeometries,   \* values of <<pages, qset>> set at load time or by ioctl
    PsPages,        \* the number of pages there are
    PsMaxPos        \* bound on the size of the file and on positions

PsFree   == "free"

ASSUME PagedScullAssumption ==
    /\ IsFiniteSet(PsTasks) /\ PsFree \notin PsTasks
    /\ \A g \in PsGeometries : g[1] \in Nat \ {0} /\ g[2] \in Nat \ {0}
    /\ PsPages \in Nat /\ PsMaxPos \in Nat

VARIABLES
    psDriver,       \* which of the four
    psCache,        \* scullc_cache: the pages of its objects
    psData, psSize, psGeo, psVmas,  \* dev: the list, size, <<pages, qset>>, vmas
    psParam,        \* scullp_order, in pages, and scullp_qset
    psSem,          \* dev->sem
    psTask,         \* of every process: control, its copies, whether it
                    \* has a mapping, and the pages in that
    psRefs,         \* of every page: its reference count
    psStale,        \* history: a call has used a geometry that was not the
                    \* device's
    psRaced,        \* history: vmas was changed by two at once, or while a
                    \* trim went on
    psNull,         \* history: scullp_follow has set the item at NULL to 0
    psWild          \* an access outside what was allocated

psVars == <<psDriver, psCache, psData, psSize, psGeo, psVmas, psParam, psSem,
            psTask, psRefs, psStale, psRaced, psNull, psWild>>

PageNos  == 1 .. PsPages
Unmapped == [o \in 0 .. PsMaxPos - 1 |-> 0]
PsClosed == [pc |-> "closed", copy |-> <<0, 0>>,
             mapped |-> FALSE, pte |-> Unmapped]

PsLeast(a, b) == IF a < b THEN a ELSE b

\* The processes that are changing vmas, and those that trim.
Counting == {t \in PsTasks : psTask[t].pc \in {"mmap", "unmap"}}
Trimming == {t \in PsTasks : psTask[t].pc \in {"trim", "trimmed"}}

PsInit ==
    /\ psDriver \in {"scullp", "scullv", "sculld", "scullc"}
    /\ psParam \in PsGeometries /\ psGeo = psParam /\ psCache = psParam[1]
    /\ psData = <<>> /\ psSize = 0 /\ psVmas = 0
    /\ psSem = PsFree
    /\ psTask = [t \in PsTasks |-> PsClosed]
    /\ psRefs = [p \in PageNos |-> 0]
    /\ psStale = FALSE /\ psRaced = FALSE
    /\ psNull = FALSE /\ psWild = FALSE

-----------------------------------------------------------------------------
(* The list                                                                *)

PsItem(pos, g) == pos \div (g[1] * g[2]) + 1
PsSlot(pos, g) == (pos % (g[1] * g[2])) \div g[1] + 1
PsOff(pos, g)  == (pos % (g[1] * g[2])) % g[1]

\* scullp_follow: the list, made as long as m items.  The items that it adds
\* are zeroed: their order is 0, whatever the order of the device.
PsFollowed(m) == [i \in 1 .. IF m < Len(psData) THEN Len(psData) ELSE m |->
                    IF i <= Len(psData) THEN psData[i] ELSE <<>>]
ItemPages(i) == IF i = 1 THEN psGeo[1] ELSE 1

\* The pages that a quantum of item i is given: in scullc the cache knows only
\* one size.
BlockPages(i) == IF psDriver = "scullc" THEN psCache ELSE ItemPages(i)

Goes(t, pc) == psTask' = [psTask EXCEPT ![t].pc = pc]

Device == <<psData, psSize, psGeo>>
Flags  == <<psStale, psRaced, psNull, psWild>>
Fixed  == <<psDriver, psCache>>

-----------------------------------------------------------------------------
(* Opening.  Write only trims, unless the device is mapped; that it does   *)
(* not is no error.                                                        *)

PsOpen(t) ==
    /\ psTask[t].pc = "closed"
    /\ \/ Goes(t, "idle") /\ UNCHANGED psSem
       \/ psSem = PsFree /\ psSem' = t /\ Goes(t, "trim")
    /\ UNCHANGED <<Fixed, Device, psVmas, psParam, psRefs, Flags>>

\* A slip that trims a device that is mapped.
TrimsAlways == TRUE
MayTrim == psVmas = 0

\* The quanta of the device, each with the number of its pages.
Blocks == {<<psData[x[1]][x[2]], BlockPages(x[1])>> :
             x \in {q \in (1 .. Len(psData)) \X (1 .. psGeo[2]) :
                       q[2] <= Len(psData[q[1]]) /\ psData[q[1]][q[2]] # 0}}

Trim(t) ==
    /\ psTask[t].pc = "trim"
    /\ IF MayTrim
         THEN /\ psRefs' = [p \in PageNos |->
                    IF \E b \in Blocks : p \in b[1] .. b[1] + b[2] - 1 THEN psRefs[p] - 1
                    ELSE psRefs[p]]
              /\ psWild' = (psWild \/ \E i \in DOMAIN psData :
                              psData[i] # <<>> /\ Len(psData[i]) < psGeo[2])
              /\ psData' = <<>> /\ psSize' = 0 /\ psGeo' = <<psGeo[1], psParam[2]>>
              /\ psRaced' = (psRaced \/ Counting # {})
              /\ Goes(t, "trimmed") /\ UNCHANGED psSem
         ELSE /\ psSem' = PsFree /\ Goes(t, "idle")
              /\ UNCHANGED <<Device, psRefs, psWild, psRaced>>
    /\ UNCHANGED <<Fixed, psVmas, psParam, psStale, psNull>>

TrimDone(t) ==
    /\ psTask[t].pc = "trimmed"
    /\ psGeo' = <<psParam[1], psGeo[2]>>
    /\ psSem' = PsFree
    /\ Goes(t, "idle")
    /\ UNCHANGED <<Fixed, psData, psSize, psVmas, psParam, psRefs, Flags>>

PsClose(t) ==
    /\ psTask[t].pc = "idle" /\ ~psTask[t].mapped
    /\ psTask' = [psTask EXCEPT ![t] = PsClosed]
    /\ UNCHANGED <<Fixed, Device, psVmas, psParam, psSem, psRefs, Flags>>

\* scullp_ioctl changes one parameter or the other.
PsParameter ==
    /\ \E g \in PsGeometries : psParam' \in {<<g[1], psParam[2]>>, <<psParam[1], g[2]>>}
    /\ UNCHANGED <<Fixed, Device, psVmas, psSem, psTask, psRefs, Flags>>

-----------------------------------------------------------------------------
(* read and write: the geometry is copied before the semaphore is taken.   *)
(* (The order and the qset are copied one after the other; a call that has *)
(* one from before a trim and one from after it is stale either way.)      *)
(* The position of a call is any: llseek can have set it to anything.      *)
(* A count of more than a quantum is as good as a quantum.  Whether a file  *)
(* may be read is left out.                                                *)

PsCopy(t) ==
    /\ psTask[t].pc = "idle"
    /\ psTask' = [psTask EXCEPT ![t].pc = "called", ![t].copy = psGeo]
    /\ UNCHANGED <<Fixed, Device, psVmas, psParam, psSem, psRefs, Flags>>

PsInside(t) ==
    /\ psTask[t].pc = "called" /\ psSem = PsFree
    /\ psStale' = (psStale \/ psTask[t].copy # psGeo)
    /\ UNCHANGED <<Fixed, psGeo, psVmas, psParam, psSem, psRaced>>

PsReturn(t) == psTask' = [psTask EXCEPT ![t].pc = "idle", ![t].copy = <<0, 0>>]

\* The call leaves what was allocated: what it does there is not modelled.
PsAstray(t) ==
    /\ psWild' = TRUE /\ PsReturn(t)
    /\ UNCHANGED <<psSize, psRefs>>

\* The list is to become longer and kmalloc fails: what it returns is set to 0
\* all the same.  (The first item is the device itself.)
FollowFails(t, item) ==
    /\ item > 1 /\ item > Len(psData)
    /\ psNull' = TRUE /\ PsAstray(t) /\ UNCHANGED psData

\* down_interruptible returns without the semaphore.
PsInterrupted(t) ==
    /\ psTask[t].pc = "called" /\ psSem # PsFree
    /\ PsReturn(t)
    /\ UNCHANGED <<Fixed, Device, psVmas, psParam, psSem, psRefs, Flags>>

PsRead(t, pos, count) ==
    LET g == psTask[t].copy
        item == PsItem(pos, g)
        slot == PsSlot(pos, g)
        off == PsOff(pos, g)
        n == PsLeast(PsLeast(count, psSize - pos), g[1] - off)
        Nothing == /\ PsReturn(t)
                   /\ UNCHANGED <<psSize, psRefs, psWild>>
    IN /\ PsInside(t)
       /\ \/ pos <= psSize /\ FollowFails(t, item)
          \/ pos > psSize /\ Nothing /\ UNCHANGED <<psData, psNull>>
          \/ /\ pos <= psSize /\ PsFollowed(item)[item] = <<>>
             /\ psData' = PsFollowed(item) /\ Nothing /\ UNCHANGED psNull
          \/ /\ pos <= psSize /\ item <= Len(psData) /\ psData[item] # <<>>
             /\ UNCHANGED <<psData, psNull>>
             /\ \/ slot > Len(psData[item]) /\ PsAstray(t)
                \/ /\ slot <= Len(psData[item])
                   /\ LET first == psData[item][slot] IN
                      \/ first = 0 /\ Nothing
                      \/ first # 0 /\ n > 0 /\ off + n > BlockPages(item) /\ PsAstray(t)
                      \/ /\ first # 0 /\ (n = 0 \/ off + n <= BlockPages(item))
                         /\ Nothing                     \* n pages are copied

\* The first of n free pages that follow each other.
Runs(n) == {p \in PageNos : p + n - 1 \in PageNos
                            /\ \A q \in p .. p + n - 1 : psRefs[q] = 0}

\* What is set to 0: the quantum, and in scullc as much as the parameter says
\* now, whatever the cache was made for.
Cleared(i) == IF psDriver = "scullc" THEN psParam[1] ELSE ItemPages(i)

PsWrite(t, pos, count) ==
    LET g == psTask[t].copy
        item == PsItem(pos, g)
        slot == PsSlot(pos, g)
        off == PsOff(pos, g)
        n == PsLeast(count, g[1] - off)
        list == PsFollowed(item)
        set == IF list[item] = <<>> THEN [s \in 1 .. g[2] |-> 0] ELSE list[item]
        Outside(pages) == n > 0 /\ off + n > pages
        Fails == PsReturn(t) /\ UNCHANGED <<psSize, psNull, psWild>>
        Astray == PsAstray(t) /\ psData' = list /\ UNCHANGED psNull
        Into(first, refs) ==
            /\ psData' = [list EXCEPT ![item] = [set EXCEPT ![slot] = first]]
            /\ psRefs' = refs
            /\ \/ Fails                                \* copy_from_user
               \/ /\ pos + n <= PsMaxPos              \* the bound
                  /\ psSize' = (IF psSize < pos + n THEN pos + n ELSE psSize)
                  /\ PsReturn(t) /\ UNCHANGED <<psNull, psWild>>
    IN /\ PsInside(t)
       /\ \/ FollowFails(t, item)
          \/ list[item] = <<>> /\ psData' = list /\ Fails /\ UNCHANGED psRefs
          \/ slot > Len(set) /\ Astray
          \/ /\ slot <= Len(set) /\ set[slot] = 0
             /\ LET size == BlockPages(item) IN
                \/ /\ psData' = [list EXCEPT ![item] = set]
                   /\ Fails /\ UNCHANGED psRefs
                \/ /\ Runs(size) # {}
                   /\ \/ /\ Cleared(item) > BlockPages(item) \/ Outside(size)
                         /\ Astray
                      \/ /\ Cleared(item) <= BlockPages(item) /\ ~Outside(size)
                         /\ LET first == CHOOSE p \in Runs(size) : \A q \in Runs(size) : p <= q
                            IN Into(first, [p \in PageNos |->
                                   IF p \in first .. first + size - 1 THEN 1 ELSE psRefs[p]])
          \/ /\ slot <= Len(set) /\ set[slot] # 0
             /\ \/ Outside(BlockPages(item)) /\ Astray
                \/ ~Outside(BlockPages(item)) /\ Into(set[slot], psRefs)

-----------------------------------------------------------------------------
(* Mappings.  scullc has none.  Neither dev->sem nor a lock that two       *)
(* processes share is held where the order is looked at and vmas changed.  *)

PsMmap(t) ==
    /\ psTask[t].pc = "idle" /\ ~psTask[t].mapped
    /\ psDriver # "scullc"
    /\ psDriver # "scullv" => psGeo[1] = 1       \* -ENODEV
    /\ Goes(t, "mmap")
    /\ psRaced' = (psRaced \/ Counting \cup Trimming # {})
    /\ UNCHANGED <<Fixed, Device, psVmas, psParam, psSem, psRefs, psStale, psNull, psWild>>

\* Unmapping takes the pages out of the process first.
PsMunmap(t) ==
    /\ psTask[t].pc = "idle" /\ psTask[t].mapped
    /\ psTask' = [psTask EXCEPT ![t].pc = "unmap", ![t].pte = Unmapped]
    /\ psRefs' = [p \in PageNos |-> psRefs[p] - Cardinality({o \in DOMAIN Unmapped : psTask[t].pte[o] = p})]
    /\ psRaced' = (psRaced \/ Counting # {})
    /\ UNCHANGED <<Fixed, Device, psVmas, psParam, psSem, psStale, psNull, psWild>>

\* scullp_vma_open, scullp_vma_close.  A load and a store: whoever comes in
\* between is a race.
CountVma(t) ==
    /\ psTask[t].pc \in {"mmap", "unmap"}
    /\ psVmas' = psVmas + IF psTask[t].pc = "mmap" THEN 1 ELSE -1
    /\ psTask' = [psTask EXCEPT ![t].mapped = psTask[t].pc = "mmap", ![t].pc = "idle"]
    /\ UNCHANGED <<Fixed, Device, psParam, psSem, psRefs, Flags>>

\* The page at an offset into the mapping: quantum number offset, whatever the
\* order is.
ListItem(o) == o \div psGeo[2] + 1
ListSlot(o) == (o % psGeo[2]) + 1
QuantumAt(o) ==
    IF ListItem(o) <= Len(psData) /\ ListSlot(o) <= Len(psData[ListItem(o)])
      THEN psData[ListItem(o)][ListSlot(o)] ELSE 0

\* The set was made with another qset than the device has now.
OutOfSet(o) == /\ ListItem(o) <= Len(psData) /\ psData[ListItem(o)] # <<>>
               /\ ListSlot(o) > Len(psData[ListItem(o)])

\* scullp_vma_nopage; sculld's leaves page as it was, NOPAGE_SIGBUS, and
\* counts a reference to that.
NoPage(t, o) ==
    /\ psTask[t].pc = "idle" /\ psTask[t].mapped /\ psTask[t].pte[o] = 0
    /\ psSem = PsFree
    /\ o < psSize /\ (QuantumAt(o) # 0 \/ OutOfSet(o))     \* else SIGBUS
    /\ IF psDriver = "sculld" \/ OutOfSet(o)
         THEN psWild' = TRUE /\ UNCHANGED <<psTask, psRefs>>
         ELSE /\ psTask' = [psTask EXCEPT ![t].pte[o] = QuantumAt(o)]
              /\ psRefs' = [psRefs EXCEPT ![QuantumAt(o)] = @ + 1]
              /\ UNCHANGED psWild
    /\ UNCHANGED <<Fixed, Device, psVmas, psParam, psSem, psStale, psRaced, psNull>>

\* After a wild access anything may happen.  A race for vmas and a geometry that
\* was replaced leave the device with pages that nobody counts, for good: the
\* model ends there too.
PsRunning == ~psWild /\ ~psStale /\ ~psRaced

PsTask(t) ==
    /\ PsRunning
    /\ \/ PsOpen(t) \/ Trim(t) \/ TrimDone(t) \/ PsClose(t)
       \/ PsCopy(t) \/ PsInterrupted(t)
       \/ \E pos \in 0 .. PsMaxPos - 1, count \in 1 .. psTask[t].copy[1] : PsRead(t, pos, count)
       \/ \E pos \in 0 .. PsMaxPos - 1, count \in 0 .. psTask[t].copy[1] : PsWrite(t, pos, count)
       \/ PsMmap(t) \/ PsMunmap(t) \/ CountVma(t)
       \/ \E o \in DOMAIN Unmapped : NoPage(t, o)

PsNext == (\E t \in PsTasks : PsTask(t)) \/ (PsRunning /\ PsParameter)

-----------------------------------------------------------------------------
PsTypeOK ==
    /\ psSize \in 0 .. PsMaxPos
    /\ psSem \in PsTasks \cup {PsFree}
    /\ \A t \in PsTasks : t \in Trimming <=> psSem = t
    /\ psRefs \in [PageNos -> Nat]

\* Where the drivers are what they are meant to be: no item after the first
\* with an order of its own (scullp_follow, main.c:156 zeroes it), a cache for
\* the quantum of the day (scullc main.c:250, 560).
Fits ==
    /\ psGeo[1] = 1 \/ Len(psData) <= 1 \/ psDriver = "scullc"
    /\ psDriver = "scullc" => psCache >= psGeo[1] /\ psCache >= psParam[1]

\* No call leaves the pages of its quantum, unless its geometry was replaced
\* after it had copied it; but all four set to 0 what kmalloc returns for
\* another item of the list, NULL included (main.c:155), and sculld faults on
\* every page of a mapping (sculld mmap.c:87).
PsWithinBounds ==
    psWild => \/ psStale \/ ~Fits \/ psNull
              \/ psDriver = "sculld" /\ \E t \in PsTasks : psTask[t].mapped

\* The page of the device that holds position o.
PageAt(o) ==
    LET item == PsItem(o, psGeo) slot == PsSlot(o, psGeo) IN
    IF item <= Len(psData) /\ slot <= Len(psData[item]) /\ psData[item][slot] # 0
      THEN psData[item][slot] + PsOff(o, psGeo) ELSE 0

\* A mapping shows the device, as long as it lasts: trims are held off and the
\* counter of mappings is right, unless it was changed by two at once or during
\* a trim (mmap.c:37, main.c:488); and unless scullv, which maps a device of any
\* order, looks at quantum n for page n (scullv mmap.c:77).
MappingShowsDevice ==
    ~psRaced /\ ~psStale =>
        /\ psVmas = Cardinality({t \in PsTasks : psTask[t].mapped})
        /\ psGeo[1] = 1 => \A t \in PsTasks : \A o \in DOMAIN Unmapped :
                             psTask[t].pte[o] \in {0, PageAt(o)}

\* A page's count is the mappings that have it and the device; no page is lost
\* or given away while somebody has it, with the same exceptions.
PagesCounted ==
    PsRunning =>
        \A p \in PageNos :
            psRefs[p] = Cardinality({m \in PsTasks \X DOMAIN Unmapped : psTask[m[1]].pte[m[2]] = p})
                        + Cardinality({b \in Blocks : p \in b[1] .. b[1] + b[2] - 1})
=============================================================================
