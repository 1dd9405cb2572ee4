----------------------------- MODULE Simulation -----------------------------
(***************************************************************************)
(* The simulation of contract calls: the RPC thread hands every call to    *)
(* one of its child processes in turn (RPCSubWorkerManager) and waits for  *)
(* its answer or for two minutes; the child (RPCSubWorker) gives it to a   *)
(* VM that is free, and the VM executes it at the height of the latest     *)
(* block, which it remembers for two seconds (VMManager.execute).          *)
(*                                                                         *)
(* A call is named by the promise the API thread awaits.                   *)
(***************************************************************************)
EXTENDS Integers, Sequences, FiniteSets

CONSTANTS
    Workers,        \* how many child processes the RPC thread starts
    ConcurrentVMs,  \* CONCURRENT_VMS of a child
    MaxTries        \* tries of getNextVMManager (10 in the code)

VARIABLES
    manager,    \* whose turn it is, and the calls that are waited for
    workers,    \* the child processes and their VMs
    tasks       \* the calls in the child processes

simulationVars == <<manager, workers, tasks>>

\* A VM: whether it executes, and the height it remembers: none, the block
\* read, or the rejection of the read that failed.
IdleVM == [busy |-> FALSE, memo |-> "none", block |-> 0]

StartWorkers ==
    /\ manager = [next |-> 1, waiting |-> {}]
    /\ workers = [w \in 1..Workers |->
                     [alive |-> TRUE, index |-> 1, vms |-> [v \in 1..ConcurrentVMs |-> IdleVM]]]
    /\ tasks = {}

Task(p, w) == [p |-> p, w |-> w, at |-> "queued", tries |-> 0, vm |-> 0, ok |-> FALSE, block |-> 0]
Alive(t) == workers[t.w].alive
Replace(t, u) == (tasks \ {t}) \cup {u}

\* resolve: the next process in turn gets the call, dead or alive.
Resolve(p) ==
    /\ manager' = [next |-> (manager.next % Workers) + 1,
                   waiting |-> manager.waiting \cup {p}]
    /\ tasks' = tasks \cup {Task(p, manager.next)}
    /\ UNCHANGED workers

\* The VMs of a process in the order in which they are looked at.
Turn(w) == [i \in 1..ConcurrentVMs |-> ((workers[w].index + i - 2) % ConcurrentVMs) + 1]

\* getNextVMManager: the first VM that is not busy executes the call.
TakeVM(t) ==
    /\ t.at = "queued" /\ Alive(t)
    /\ \E i \in 1..ConcurrentVMs :
          LET v == Turn(t.w)[i]
          IN /\ ~workers[t.w].vms[v].busy
             /\ \A j \in 1..i - 1 : workers[t.w].vms[Turn(t.w)[j]].busy
             /\ workers' = [workers EXCEPT ![t.w].index = (v % ConcurrentVMs) + 1,
                                           ![t.w].vms[v].busy = TRUE]
             /\ tasks' = Replace(t, [t EXCEPT !.at = "contract", !.vm = v])
    /\ UNCHANGED manager

\* Every VM is busy: try again in 100 ms.  The error after the last try is
\* thrown inside the executor of a promise, which then never settles.
HighLoad(t) ==
    /\ t.at = "queued" /\ Alive(t)
    /\ \A v \in 1..ConcurrentVMs : workers[t.w].vms[v].busy
    /\ tasks' = Replace(t, IF t.tries < MaxTries THEN [t EXCEPT !.tries = @ + 1]
                           ELSE [t EXCEPT !.at = "hung"])
    /\ UNCHANGED <<manager, workers>>

VMOf(t) == workers[t.w].vms[t.vm]

\* The end of execute, with or without an error: the VM is free again, and
\* the process sends what it has.
ExecuteEnds(t, ok, block) ==
    tasks' = Replace(t, [t EXCEPT !.at = "answered", !.ok = ok, !.block = block])
FreeVM(vm) == [vm EXCEPT !.busy = FALSE]

\* Mutant: an unknown contract leaves the VM busy.
FindContractHolding(t, found) ==
    /\ t.at = "contract" /\ Alive(t)
    /\ IF found THEN tasks' = Replace(t, [t EXCEPT !.at = "height"])
       ELSE ExecuteEnds(t, FALSE, 0)
    /\ UNCHANGED <<manager, workers>>

\* getContractAddress: the call fails when the contract is unknown or the
\* query fails.
FindContract(t, found) ==
    /\ t.at = "contract" /\ Alive(t)
    /\ IF found
          THEN /\ tasks' = Replace(t, [t EXCEPT !.at = "height"])
               /\ UNCHANGED workers
          ELSE /\ ExecuteEnds(t, FALSE, 0)
               /\ workers' = [workers EXCEPT ![t.w].vms[t.vm] = FreeVM(@)]
    /\ UNCHANGED manager

\* fetchCachedBlockHeight: what the VM remembers, or the latest block (0 when
\* the read fails).  Only a read that succeeds sets the timer that forgets
\* it: a rejection is remembered for good.
FetchCachedBlockHeight(t, latest) ==
    /\ t.at = "height" /\ Alive(t)
    /\ LET vm == VMOf(t)
           read == CASE vm.memo # "none" -> vm
                     [] latest = 0 -> [vm EXCEPT !.memo = "rejected"]
                     [] OTHER -> [vm EXCEPT !.memo = "block", !.block = latest]
       IN /\ (vm.memo # "none" => latest # 0)
          /\ IF read.memo = "rejected"
                THEN /\ ExecuteEnds(t, FALSE, 0)
                     /\ workers' = [workers EXCEPT ![t.w].vms[t.vm] = FreeVM(read)]
                ELSE /\ tasks' = Replace(t, [t EXCEPT !.at = "execute", !.block = read.block])
                     /\ workers' = [workers EXCEPT ![t.w].vms[t.vm] = read]
    /\ UNCHANGED manager

\* executeCallInternal, which reverts or not.
ExecuteCallInternal(t) ==
    /\ t.at = "execute" /\ Alive(t)
    /\ ExecuteEnds(t, TRUE, t.block)
    /\ workers' = [workers EXCEPT ![t.w].vms[t.vm] = FreeVM(@)]
    /\ UNCHANGED manager

\* The timer of getChainCurrentBlockHeight.
ForgetBlockHeight(w, v) ==
    /\ workers[w].vms[v].memo = "block"
    /\ workers' = [workers EXCEPT ![w].vms[v] = [@ EXCEPT !.memo = "none", !.block = 0]]
    /\ UNCHANGED <<manager, tasks>>

\* A child process exits.  It is not started again, and what it had is lost.
WorkerExits(w) ==
    /\ workers[w].alive
    /\ workers' = [workers EXCEPT ![w].alive = FALSE]
    /\ UNCHANGED <<manager, tasks>>

\* onMessage: the answer of a call that is still waited for settles it.
OnMessage(t) ==
    /\ t.at = "answered"
    /\ tasks' = tasks \ {t}
    /\ manager' = [manager EXCEPT !.waiting = @ \ {t.p}]
    /\ UNCHANGED workers
Awaited(t) == t.p \in manager.waiting

\* The two minutes are over.
TaskTimesOut(p) ==
    /\ p \in manager.waiting
    /\ manager' = [manager EXCEPT !.waiting = @ \ {p}]
    /\ UNCHANGED <<workers, tasks>>

\* No process is at work, and none will be.
Lost(t) == ~Alive(t) \/ t.at = "hung"
=============================================================================
