-------------------------- MODULE ProducerConsumer --------------------------
(***************************************************************************)
(* producer and consumer: processes started in any number and order, which *)
(* share N shelves, two indices and three System V semaphores.  Whoever    *)
(* comes first creates what is not there yet; nothing is ever removed, and *)
(* no semop has SEM_UNDO, so what a killed process holds is lost.          *)
(***************************************************************************)
EXTENDS Integers, Sequences, FiniteSets

CONSTANTS
    Producers, Consumers,
    Goods, NoGood,
    N,          \* num
    MaxKills    \* bound on processes that are killed

ASSUME PcAssumption ==
    /\ N \in Nat \ {0} /\ MaxKills \in Nat
    /\ Producers \cap Consumers = {} /\ IsFiniteSet(Producers \cup Consumers)

VARIABLES
    shelf, index,    \* shmaddr, indexaddr; NoShm before index is created
    sem,             \* mutex, empty, full; NoSems before they are created
    at,              \* control of the processes
    line,            \* history: the goods on the shelves, oldest first
    unlike,          \* a consumer got a good that was not the oldest
    late,            \* history: indices set to 0 after they were used
    dead             \* processes killed

pcVars == <<shelf, index, sem, at, line, unlike, late, dead>>

Workers == Producers \cup Consumers
NoShm == <<>>
NoSems == <<>>

mutex == 1
empty == 2
full  == 3

PcTypeOK ==
    /\ shelf \in [0 .. N - 1 -> Goods \cup {NoGood}]
    /\ index \in {NoShm} \cup (0 .. N - 1) \X (0 .. N - 1)
    /\ sem \in {NoSems} \cup (0 .. 1) \X (0 .. N) \X (0 .. N)
    /\ at \in [Workers -> {"shm", "zero", "sems", "set0", "set1", "p", "pm", "in",
                           "v", "dead"}]
    /\ Cardinality({w \in Workers : at[w] = "in"}) <= 1

PcInit ==
    /\ shelf = [i \in 0 .. N - 1 |-> NoGood]
    /\ index = NoShm /\ sem = NoSems
    /\ at = [w \in Workers |-> "shm"]
    /\ line = <<>> /\ unlike = FALSE /\ late = FALSE /\ dead = 0

Goes(w, pc) == at' = [at EXCEPT ![w] = pc] /\ UNCHANGED unlike

\* createshm or openshm.  New shared memory is zero; the creator zeroes it
\* again, in a step of its own.
GetIndex(w) ==
    /\ at[w] = "shm"
    /\ IF index = NoShm THEN index' = <<0, 0>> /\ Goes(w, "zero")
                        ELSE UNCHANGED index /\ Goes(w, "sems")
    /\ UNCHANGED <<shelf, sem, line, late, dead>>

ZeroIndex(w) ==
    /\ at[w] = "zero" /\ Goes(w, "sems")
    /\ index' = <<0, 0>>
    /\ late' = (late \/ index # <<0, 0>> \/ line # <<>>)
    /\ UNCHANGED <<shelf, sem, line, dead>>

\* createsem, with all values 0, or opensem; then the values, one by one.
GetSems(w) ==
    /\ at[w] = "sems"
    /\ IF sem = NoSems THEN sem' = <<0, 0, 0>> /\ Goes(w, "set0")
                       ELSE UNCHANGED sem /\ Goes(w, "p")
    /\ UNCHANGED <<shelf, index, line, late, dead>>

Shelves == N

\* What the mutex is set to.  (A slip would leave it as it was created.)
AsCreated == 0
Unlocked == 1

SetSem(w) ==
    /\ \/ at[w] = "set0" /\ sem' = [sem EXCEPT ![mutex] = Unlocked] /\ Goes(w, "set1")
       \/ at[w] = "set1" /\ sem' = [sem EXCEPT ![empty] = Shelves] /\ Goes(w, "p")
    /\ UNCHANGED <<shelf, index, line, late, dead>>

-----------------------------------------------------------------------------
\* What a process waits for, and gives when it is done.
Awaits(w) == IF w \in Producers THEN empty ELSE full
Gives(w)  == IF w \in Producers THEN full ELSE empty

PSlot(w) ==
    /\ at[w] = "p" /\ sem[Awaits(w)] > 0
    /\ sem' = [sem EXCEPT ![Awaits(w)] = @ - 1]
    /\ Goes(w, "pm")
    /\ UNCHANGED <<shelf, index, line, late, dead>>

\* p(semid, 0).
MutexUp == sem[mutex] > 0

PMutex(w) ==
    /\ at[w] = "pm" /\ MutexUp
    /\ sem' = [sem EXCEPT ![mutex] = @ - 1]
    /\ Goes(w, "in")
    /\ UNCHANGED <<shelf, index, line, late, dead>>

\* The next shelf.  (A slip would stay on the last one.)
Stays(i) == IF i = N - 1 THEN i ELSE i + 1
NextShelf(i) == (i + 1) % N

\* Between p and v of the mutex.
Produce(w) ==
    /\ w \in Producers /\ at[w] = "in"
    /\ \E g \in Goods : /\ shelf' = [shelf EXCEPT ![index[1]] = g]
                        /\ line' = Append(line, g)
    /\ index' = [index EXCEPT ![1] = NextShelf(@)]
    /\ sem' = [sem EXCEPT ![mutex] = @ + 1]
    /\ Goes(w, "v")
    /\ UNCHANGED <<late, dead>>

Consume(w) ==
    /\ w \in Consumers /\ at[w] = "in"
    /\ at' = [at EXCEPT ![w] = "v"]
    /\ unlike' = (unlike \/ line = <<>> \/ shelf[index[2]] # Head(line))
    /\ line' = IF line = <<>> THEN line ELSE Tail(line)
    /\ index' = [index EXCEPT ![2] = NextShelf(@)]
    /\ sem' = [sem EXCEPT ![mutex] = @ + 1]
    /\ UNCHANGED <<shelf, late, dead>>

VSlot(w) ==
    /\ at[w] = "v"
    /\ sem' = [sem EXCEPT ![Gives(w)] = @ + 1]
    /\ Goes(w, "p")
    /\ UNCHANGED <<shelf, index, line, late, dead>>

PcKill(w) ==
    /\ at[w] # "dead" /\ dead < MaxKills
    /\ dead' = dead + 1
    /\ Goes(w, "dead")
    /\ UNCHANGED <<shelf, index, sem, line, late>>

Worker(w) ==
    \/ GetIndex(w) \/ ZeroIndex(w) \/ GetSems(w) \/ SetSem(w)
    \/ PSlot(w) \/ PMutex(w) \/ Produce(w) \/ Consume(w) \/ VSlot(w)

PcNext == \E w \in Workers : Worker(w) \/ PcKill(w)

PcFairness == \A w \in Workers : WF_pcVars(Worker(w)) /\ SF_pcVars(PSlot(w)) /\ SF_pcVars(PMutex(w))

PcSpec == PcInit /\ [][PcNext]_pcVars /\ PcFairness

-----------------------------------------------------------------------------
\* The shelves from the consumers' index on hold what was produced and not
\* yet consumed, in order: nothing is overwritten and nothing read twice,
\* for any number of processes and wherever some are killed -- unless the
\* creator of the indices zeroes them after another process has used them
\* (producer.c:80).
PcShelvesAreQueue ==
    ~late => \A k \in 1 .. Len(line) :
                k <= N /\ shelf[(index[2] + k - 1) % N] = line[k]

\* Every consumer gets the oldest good.
PcOldestFirst == ~late => ~unlike

\* The semaphores and what the processes hold of them always add up to N
\* shelves, and the killed processes alone have lost any.
PcShelvesAddUp ==
    LET Count(pcs) == Cardinality({w \in Workers : at[w] \in pcs})
    IN sem # NoSems /\ ~(\E w \in Workers : at[w] \in {"set0", "set1"}) =>
          LET sum == sem[empty] + sem[full] + Count({"pm", "in", "v"})
          IN sum = N \/ (dead > 0 /\ sum \in {0} \cup N - dead .. N)

\* As long as nobody is killed, every process gets through again and again:
\* no consumer that waits for goods and no producer that waits for a shelf
\* is left behind.
PcNobodyStarves ==
    \A w \in Workers : []<>(at[w] = "v") \/ <>(dead > 0 \/ late)
=============================================================================
