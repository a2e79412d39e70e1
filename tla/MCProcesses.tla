---------------------------- MODULE MCProcesses -----------------------------
(***************************************************************************)
(* The programs of processes that meet in System V semaphores, checked in  *)
(* one run.  A behaviour picks a program and steps it only; its fairness   *)
(* asks nothing of the other one.                                          *)
(***************************************************************************)
EXTENDS ProducerConsumer, DiningPhilosophers

VARIABLE program

processesVars == <<program, pcVars, dpVars>>

ProcessesInit == program \in {"market", "table"} /\ PcInit /\ DpInit

InMarket(A) == program = "market" /\ A /\ UNCHANGED <<program, dpVars>>
AtTable(A)  == program = "table" /\ A /\ UNCHANGED <<program, pcVars>>

ProcessesNext == InMarket(PcNext) \/ AtTable(DpNext)

ProcessesFairness ==
    /\ \A w \in Workers : /\ WF_processesVars(InMarket(Worker(w)))
                          /\ SF_processesVars(InMarket(PSlot(w)))
                          /\ SF_processesVars(InMarket(PMutex(w)))
    /\ \A i \in Philosophers : /\ WF_processesVars(AtTable(Philosopher(i)))
                               /\ SF_processesVars(AtTable(PGuard(i)))

ProcessesSpec == ProcessesInit /\ [][ProcessesNext]_processesVars /\ ProcessesFairness

\* The shelves are a queue wherever producers and consumers are killed, and
\* the semaphores add up to the shelves (producer.c:124-136, consumer.c:124-137).
ShelvesKept == PcTypeOK /\ PcShelvesAreQueue /\ PcOldestFirst /\ PcShelvesAddUp

\* Whoever is killed when, neighbours do not eat at a time, and who was granted
\* his forks gets them (take_forks, put_forks, test): all but those from whom
\* the death of a neighbour takes the grant back, and these never get them.
ForksKept == DpTypeOK /\ DpNeighboursExclude /\ DpGrantKept

\* As long as nobody is killed, every producer and consumer gets through
\* again and again, and somebody at the table eats again and again, unless
\* the kernel refuses a semop (producer.c:124, consumer.c:124, take_forks).
NobodyStarves == /\ program = "market" => PcNobodyStarves
                 /\ program = "table" => DpSomebodyEats
=============================================================================
