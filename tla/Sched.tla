------------------------------- MODULE Sched -------------------------------
(***************************************************************************)
(* The process scheduler of DucreuOS: src/src/sched.c, the dispatching     *)
(* half of src/src/process.c, the timer trap of src/src/ostrap.c, the      *)
(* EXIT and SLEEP system calls of src/src/syscall.c, and the console       *)
(* commands of src/src/main.c that create processes, call the scheduler    *)
(* and stop harts.                                                         *)
(*                                                                         *)
(* Every hart (hardware thread) runs the same kernel.  A hart enters the   *)
(* scheduler from a trap with interrupts off; hart 0 starts in the console.*)
(* One action is one stretch of kernel code between two points where       *)
(* another hart can observe or disturb it.                                 *)
(***************************************************************************)
EXTENDS ProcessList

CONSTANTS
    Harts,        \* the harts of the machine; hart 0 boots into the console
    Procs,        \* process_t slots: a slot is reused after process_free
    Idle,         \* process_idle[h], written once and only ever run on h
    NULL,         \* no process
    SleepLens,    \* arguments of the SLEEP system call, in time units
    MaxVruntime   \* bound: a process past it is no longer preempted

ASSUME HartsAssumption == Harts \subseteq Nat /\ 0 \in Harts
ASSUME ProcsAssumption == Idle \notin Procs /\ NULL \notin Procs /\ Idle # NULL
ASSUME SleepAssumption == SleepLens \subseteq Nat
ASSUME BoundAssumption == MaxVruntime \in Nat

\* mutex_t: an amoswap flag without an owner.  mutex_post leaves it unlocked
\* whoever calls it.
MUTEX_LOCKED == 0
MUTEX_UNLOCKED == 1
mutex_post_forgotten == MUTEX_LOCKED
mutex_post == MUTEX_UNLOCKED

\* process_state_t.  A loaded process keeps PS_UNINIT until it first wakes
\* from a sleep: neither elf_load nor the scheduler sets PS_RUNNING.
States == {"PS_DEAD", "PS_UNINIT", "PS_RUNNING", "PS_SLEEPING", "PS_ASYNC_FREE"}

\* What a process is charged for one dispatch (quantum * context timer).
Charge == 1

VARIABLES
    sched_mutex,            \* the scheduler lock
    unsched_mutex,          \* the mutex of unsched_process_llist
    unsched_process_llist,  \* runnable processes
    sleeping_process_llist, \* sleeping processes; only used under sched_mutex
    process_current,        \* hart -> the process the kernel thinks it runs
    process_state,
    on_hart,                \* process -> hart, or -1
    vruntime,
    sleep_left,             \* sleep_until - time; -1 once it is in the past
    has_pid,                \* processes sched_assign_pid has been called for
    pc,                     \* hart -> where it is
    running,                \* hart -> the process it really executes
    target,                 \* hart -> the argument of its sched_invoke call
    held,                   \* hart -> local `new' of sched_invoke, the process
                            \* being created on hart 0
    snapshot,               \* the list as process_insert read it on hart 0
    due,                    \* the sleepers whose time has come when the walk
                            \* read the clock
    pln,                    \* the walk's position in the sleeping list
    mtimer,                 \* hart -> mtimecmp is set to a finite time
    stip                    \* hart -> a timer interrupt is pending

lists == <<unsched_process_llist, sleeping_process_llist>>
procs == <<process_state, vruntime, sleep_left, has_pid>>
walkv == <<due, pln>>
timers == <<mtimer, stip>>
vars == <<sched_mutex, unsched_mutex, lists, process_current, procs, on_hart,
          pc, running, target, held, snapshot, walkv, timers>>

InSched == {"walk", "pick"}     \* the labels that own sched_mutex

\* What mutex_wait spins for: the scheduler lock, the lock of the run queue.
\* (Mutations of this module are named for the mistake they make and stand in
\* front of the definition they mutate.)
SchedMutexFree_Unchecked == TRUE
SchedMutexFree == sched_mutex = MUTEX_UNLOCKED
ListMutexFree_Unchecked == TRUE
ListMutexFree == unsched_mutex = MUTEX_UNLOCKED

----------------------------------------------------------------------------
\* sched_init: every hart but 0 is started on its idle process; hart 0 goes on
\* to the console and has no process.
Init ==
    /\ sched_mutex = MUTEX_UNLOCKED
    /\ unsched_mutex = MUTEX_UNLOCKED
    /\ unsched_process_llist = << >>
    /\ sleeping_process_llist = << >>
    /\ process_current = [h \in Harts |-> IF h = 0 THEN NULL ELSE Idle]
    /\ process_state = [p \in Procs |-> "PS_DEAD"]
    /\ on_hart = [p \in Procs |-> -1]
    /\ vruntime = [p \in Procs |-> 0]
    /\ sleep_left = [p \in Procs |-> -1]
    /\ has_pid = {}
    /\ pc = [h \in Harts |-> IF h = 0 THEN "console" ELSE "user"]
    /\ running = [h \in Harts |-> IF h = 0 THEN NULL ELSE Idle]
    /\ target = [h \in Harts |-> h]
    /\ held = [h \in Harts |-> NULL]
    /\ snapshot = << >>
    /\ due = {}
    /\ pln = 1
    /\ mtimer = [h \in Harts |-> h # 0]
    /\ stip = [h \in Harts |-> FALSE]

----------------------------------------------------------------------------
(* Time *)

\* The clock moves on: every process that asked for a sleep gets closer to its
\* sleep_until.
Tick ==
    /\ \E p \in Procs : sleep_left[p] >= 0
    /\ sleep_left' = [p \in Procs |-> IF sleep_left[p] >= 0
                                      THEN sleep_left[p] - 1 ELSE -1]
    /\ UNCHANGED <<sched_mutex, unsched_mutex, lists, process_current,
                   process_state, vruntime, has_pid, on_hart, pc, running,
                   target, held, snapshot, walkv, timers>>

\* The machine timer of hart h fires: the SBI raises STIP and parks mtimecmp.
TimerFires(h) ==
    /\ mtimer[h]
    /\ mtimer' = [mtimer EXCEPT ![h] = FALSE]
    /\ stip' = [stip EXCEPT ![h] = TRUE]
    /\ UNCHANGED <<sched_mutex, unsched_mutex, lists, process_current, procs,
                   on_hart, pc, running, target, held, snapshot, walkv>>

----------------------------------------------------------------------------
(* Entering the scheduler *)

\* A hart leaves user code for sched_invoke(t).
EnterSched(h, t) ==
    /\ pc' = [pc EXCEPT ![h] = "wait"]
    /\ target' = [target EXCEPT ![h] = t]

\* os_trap_handler, STIP: acknowledge the interrupt and call the scheduler.
TimerTrap(h) ==
    /\ pc[h] = "user" /\ stip[h]
    /\ process_current[h] \in Procs => vruntime[process_current[h]] < MaxVruntime
    /\ stip' = [stip EXCEPT ![h] = FALSE]
    /\ EnterSched(h, h)
    /\ UNCHANGED <<sched_mutex, unsched_mutex, lists, process_current, procs,
                   on_hart, running, held, snapshot, walkv, mtimer>>

\* SYSCALL_EXIT: the process marks itself and calls the scheduler.
SyscallExit(h) ==
    /\ pc[h] = "user" /\ running[h] \in Procs
    /\ process_current[h] \in Procs
    /\ process_state' = [process_state EXCEPT ![process_current[h]] = "PS_ASYNC_FREE"]
    /\ EnterSched(h, h)
    /\ UNCHANGED <<sched_mutex, unsched_mutex, lists, process_current, vruntime,
                   sleep_left, has_pid, on_hart, running, held, snapshot, walkv,
                   timers>>

\* SYSCALL_SLEEP with argument q.
SyscallSleep(h, q) ==
    /\ pc[h] = "user" /\ running[h] \in Procs
    /\ process_current[h] \in Procs
    /\ vruntime[process_current[h]] < MaxVruntime
    /\ process_state' = [process_state EXCEPT ![process_current[h]] = "PS_SLEEPING"]
    /\ sleep_left' = [sleep_left EXCEPT ![process_current[h]] = q]
    /\ EnterSched(h, h)
    /\ UNCHANGED <<sched_mutex, unsched_mutex, lists, process_current, vruntime,
                   has_pid, on_hart, running, held, snapshot, walkv, timers>>

----------------------------------------------------------------------------
(* sched_invoke *)

\* The test of the walk, pln->p->sleep_until < time, for the time it read.
Due_Inclusive == {p \in Procs : sleep_left[p] <= 0}
Due == {p \in Procs : sleep_left[p] < 0}

\* The walk starts at the head.
WalkStart_SkipsHead == 2
WalkStart == 1

\* mutex_wait(&sched_mutex), and the clock is read for the walk.
SchedLock(h) ==
    /\ pc[h] = "wait"
    /\ SchedMutexFree
    /\ sched_mutex' = MUTEX_LOCKED
    /\ due' = Due
    /\ pln' = WalkStart
    /\ pc' = [pc EXCEPT ![h] = "walk"]
    /\ UNCHANGED <<unsched_mutex, lists, process_current, procs, on_hart,
                   running, target, held, snapshot, timers>>

\* Where the walk goes on after it has woken a process: pln is set to the head
\* of the shortened list, and the loop's increment steps past it.
WalkRestart_BeforeHead == 0
WalkRestart == 2

\* The state a woken process is left in.
WokenState_Kept == "PS_SLEEPING"
WokenState == "PS_RUNNING"

\* One iteration of sched_walk_sleeping_list on a process whose time has come.
WalkWake(h) ==
    /\ pc[h] = "walk" /\ pln <= Len(sleeping_process_llist)
    /\ sleeping_process_llist[pln] \in due
    /\ ListMutexFree
    /\ process_state' = [process_state EXCEPT ![sleeping_process_llist[pln]] = WokenState]
    /\ sleeping_process_llist' = process_remove(sleeping_process_llist, pln)
    /\ unsched_process_llist' =
          process_insert(vruntime, unsched_process_llist, sleeping_process_llist[pln])
    /\ pln' = WalkRestart
    /\ UNCHANGED <<sched_mutex, unsched_mutex, process_current, vruntime,
                   sleep_left, has_pid, on_hart, pc, running, target, held,
                   snapshot, due, timers>>

\* One iteration on a process that still has to sleep.
WalkSkip(h) ==
    /\ pc[h] = "walk" /\ pln <= Len(sleeping_process_llist)
    /\ sleeping_process_llist[pln] \notin due
    /\ pln' = pln + 1
    /\ UNCHANGED <<sched_mutex, unsched_mutex, lists, process_current, procs,
                   on_hart, pc, running, target, held, snapshot, due, timers>>

\* The process on the target hart comes off it: the one the kernel has on
\* record, or the idle process when there is none.
Outgoing(t) == IF process_current[t] = NULL THEN Idle ELSE process_current[t]

\* It is freed, put to sleep, or made runnable again; an idle process is not
\* kept in any list.
SchedPut(h) ==
    LET t == target[h]
        p == Outgoing(t)
    IN
    /\ pc[h] = "walk" /\ pln > Len(sleeping_process_llist)
    /\ process_current' = [process_current EXCEPT ![t] = NULL]
    /\ pc' = [pc EXCEPT ![h] = "pick"]
    /\ due' = {} /\ pln' = 1
    /\ \/ /\ p = Idle
          /\ UNCHANGED <<lists, procs, on_hart>>
       \/ /\ p # Idle
          /\ on_hart' = [on_hart EXCEPT ![p] = -1]
          /\ \/ /\ process_state[p] = "PS_ASYNC_FREE"       \* process_free
                /\ process_state' = [process_state EXCEPT ![p] = "PS_DEAD"]
                /\ sleep_left' = [sleep_left EXCEPT ![p] = -1]
                /\ has_pid' = has_pid \ {p}
                /\ vruntime' = [vruntime EXCEPT ![p] = 0]
                /\ UNCHANGED lists
             \/ /\ process_state[p] = "PS_SLEEPING"         \* sched_sleep
                /\ sleeping_process_llist' =
                      process_insert(vruntime, sleeping_process_llist, p)
                /\ UNCHANGED <<procs, unsched_process_llist>>
             \/ /\ process_state[p] \notin {"PS_ASYNC_FREE", "PS_SLEEPING"}
                /\ ListMutexFree                            \* sched_add
                /\ unsched_process_llist' =
                      process_insert(vruntime, unsched_process_llist, p)
                /\ UNCHANGED <<procs, sleeping_process_llist>>
    /\ UNCHANGED <<sched_mutex, unsched_mutex, running, target, held, snapshot,
                   timers>>

\* sched_get, then mutex_post(&sched_mutex): the chosen process is in no list
\* and on no hart until process_spawn.
SchedPick(h) ==
    /\ pc[h] = "pick"
    /\ ListMutexFree
    /\ IF unsched_process_llist = << >>
       THEN /\ held' = [held EXCEPT ![h] = Idle]
            /\ UNCHANGED unsched_process_llist
       ELSE /\ held' = [held EXCEPT ![h] = unsched_process_llist[1]]
            /\ unsched_process_llist' = process_remove_lowest(unsched_process_llist)
    /\ sched_mutex' = mutex_post
    /\ pc' = [pc EXCEPT ![h] = "spawn"]
    /\ UNCHANGED <<unsched_mutex, sleeping_process_llist, process_current, procs,
                   on_hart, running, target, snapshot, walkv, timers>>

\* The bookkeeping of process_spawn(new, t), done without any lock.
Dispatch_HartNotRecorded(p, t) ==
    /\ process_current' = [process_current EXCEPT ![t] = p]
    /\ vruntime' = IF p = Idle THEN vruntime
                   ELSE [vruntime EXCEPT ![p] = vruntime[p] + Charge]
    /\ mtimer' = [mtimer EXCEPT ![t] = TRUE]
    /\ UNCHANGED on_hart

Dispatch_TimerNotSet(p, t) ==
    /\ process_current' = [process_current EXCEPT ![t] = p]
    /\ on_hart' = IF p = Idle THEN on_hart ELSE [on_hart EXCEPT ![p] = t]
    /\ vruntime' = IF p = Idle THEN vruntime
                   ELSE [vruntime EXCEPT ![p] = vruntime[p] + Charge]
    /\ UNCHANGED mtimer

Dispatch(p, t) ==
    /\ process_current' = [process_current EXCEPT ![t] = p]
    /\ on_hart' = IF p = Idle THEN on_hart ELSE [on_hart EXCEPT ![p] = t]
    /\ vruntime' = IF p = Idle THEN vruntime
                   ELSE [vruntime EXCEPT ![p] = vruntime[p] + Charge]
    /\ mtimer' = [mtimer EXCEPT ![t] = TRUE]

\* process_spawn on the calling hart jumps into the process.
SpawnSelf(h) ==
    /\ pc[h] = "spawn" /\ target[h] = h
    /\ Dispatch(held[h], h)
    /\ running' = [running EXCEPT ![h] = held[h]]
    /\ held' = [held EXCEPT ![h] = NULL]
    /\ pc' = [pc EXCEPT ![h] = "user"]
    /\ UNCHANGED <<sched_mutex, unsched_mutex, lists, process_state, sleep_left,
                   has_pid, target, snapshot, walkv, stip>>

----------------------------------------------------------------------------
(* The console on hart 0 *)

\* elfread: process_init_new and elf_load build a process in a free slot.
ConsoleCreate(p) ==
    /\ pc[0] = "console"
    /\ process_state[p] = "PS_DEAD"
    /\ process_state' = [process_state EXCEPT ![p] = "PS_UNINIT"]
    /\ vruntime' = [vruntime EXCEPT ![p] = 0]
    /\ on_hart' = [on_hart EXCEPT ![p] = -1]
    /\ held' = [held EXCEPT ![0] = p]
    /\ pc' = [pc EXCEPT ![0] = "load"]
    /\ UNCHANGED <<sched_mutex, unsched_mutex, lists, process_current,
                   sleep_left, has_pid, running, target, snapshot, walkv,
                   timers>>

\* elf_load failed: "won't load process".  The process is never freed.
ConsoleLoadFails ==
    /\ pc[0] = "load"
    /\ held' = [held EXCEPT ![0] = NULL]
    /\ pc' = [pc EXCEPT ![0] = "console"]
    /\ UNCHANGED <<sched_mutex, unsched_mutex, lists, process_current, procs,
                   on_hart, running, target, snapshot, walkv, timers>>

\* sched_assign_pid, then sched_add, which is not under sched_mutex: it takes
\* the mutex of the list and reads the list.
ConsoleAddBegin ==
    /\ pc[0] = "load"
    /\ ListMutexFree
    /\ unsched_mutex' = MUTEX_LOCKED
    /\ has_pid' = has_pid \union {held[0]}
    /\ snapshot' = unsched_process_llist
    /\ pc' = [pc EXCEPT ![0] = "add"]
    /\ UNCHANGED <<sched_mutex, lists, process_current, process_state, vruntime,
                   sleep_left, on_hart, running, target, held, walkv, timers>>

\* The new node is linked into the list that was read, the mutex posted.
ConsoleAddEnd ==
    /\ pc[0] = "add"
    /\ unsched_process_llist' = process_insert(vruntime, snapshot, held[0])
    /\ unsched_mutex' = mutex_post
    /\ snapshot' = << >>
    /\ held' = [held EXCEPT ![0] = NULL]
    /\ pc' = [pc EXCEPT ![0] = "console"]
    /\ UNCHANGED <<sched_mutex, sleeping_process_llist, process_current, procs,
                   on_hart, running, target, walkv, timers>>

\* schedinvoke 0: the console gives its hart to the scheduler.
ConsoleSchedInvoke(t) ==
    /\ pc[0] = "console"
    /\ EnterSched(0, t)
    /\ UNCHANGED <<sched_mutex, unsched_mutex, lists, process_current, procs,
                   on_hart, running, held, snapshot, walkv, timers>>

----------------------------------------------------------------------------
(* What an operator can also type, outside the kernel's own discipline *)

\* schedinvoke t for another hart ends in process_spawn(new, t) on hart h:
\* sbi_hart_start only starts a stopped hart, and its result is ignored.
SpawnOther(h) ==
    LET t == target[h] IN
    /\ pc[h] = "spawn" /\ t # h
    /\ Dispatch(held[h], t)
    /\ held' = [held EXCEPT ![h] = NULL]
    /\ \/ /\ pc[t] = "stopped"
          /\ pc' = [pc EXCEPT ![h] = "console", ![t] = "user"]
          /\ running' = [running EXCEPT ![t] = held[h]]
       \/ /\ pc[t] # "stopped"
          /\ pc' = [pc EXCEPT ![h] = "console"]
          /\ UNCHANGED running
    /\ UNCHANGED <<sched_mutex, unsched_mutex, lists, process_state, sleep_left,
                   has_pid, target, snapshot, walkv, stip>>

\* stop t: hart_stop and hart_handle_msip drop whatever the hart was doing.
\* Machine-mode interrupts are not masked inside the kernel.
ConsoleStop(t) ==
    /\ pc[0] = "console" /\ pc[t] # "stopped"
    /\ pc' = [pc EXCEPT ![t] = "stopped"]
    /\ running' = [running EXCEPT ![t] = NULL]
    /\ held' = [held EXCEPT ![t] = NULL]
    /\ mtimer' = [mtimer EXCEPT ![t] = FALSE]
    /\ stip' = [stip EXCEPT ![t] = FALSE]
    /\ UNCHANGED <<sched_mutex, unsched_mutex, lists, process_current, procs,
                   on_hart, target, snapshot, walkv>>

----------------------------------------------------------------------------
SchedStep(h) ==
    \/ SchedLock(h) \/ WalkWake(h) \/ WalkSkip(h) \/ SchedPut(h)
    \/ SchedPick(h) \/ SpawnSelf(h)

ConsoleAdd == ConsoleLoadFails \/ ConsoleAddBegin \/ ConsoleAddEnd

Next ==
    \/ Tick
    \/ \E h \in Harts :
          \/ TimerFires(h)
          \/ TimerTrap(h)
          \/ SyscallExit(h)
          \/ \E q \in SleepLens : SyscallSleep(h, q)
          \/ SchedStep(h)
    \/ \E p \in Procs : ConsoleCreate(p)
    \/ ConsoleAdd
    \/ ConsoleSchedInvoke(0)

\* With the console commands that reach into other harts.
OperatorNext ==
    \/ Next
    \/ \E h \in Harts : SpawnOther(h) \/ ConsoleStop(h)
    \/ \E t \in Harts \ {0} : ConsoleSchedInvoke(t)

Spec == Init /\ [][Next]_vars

\* Harts execute (WF of every step of a hart and of its timer), and the clock
\* advances.  A user process need not make any system call, the console need
\* not be given any command, and the spinning mutexes are not fair to anyone.
Fairness ==
    /\ WF_vars(Tick)
    /\ \A h \in Harts :
          /\ WF_vars(TimerFires(h))
          /\ WF_vars(TimerTrap(h))
          /\ WF_vars(SchedStep(h))
    /\ WF_vars(ConsoleAdd)

FairSpec == Spec /\ Fairness
OperatorSpec == Init /\ [][OperatorNext]_vars
----------------------------------------------------------------------------
(* Properties *)

Labels == {"console", "load", "add", "user", "wait", "walk", "pick", "spawn",
           "stopped"}

\* Type invariant of the scheduler's state.
TypeOK ==
    /\ sched_mutex \in {MUTEX_LOCKED, MUTEX_UNLOCKED}
    /\ unsched_mutex \in {MUTEX_LOCKED, MUTEX_UNLOCKED}
    /\ unsched_process_llist \in Seq(Procs)
    /\ sleeping_process_llist \in Seq(Procs)
    /\ process_current \in [Harts -> Procs \union {Idle, NULL}]
    /\ process_state \in [Procs -> States]
    /\ on_hart \in [Procs -> Harts \union {-1}]
    /\ vruntime \in [Procs -> Nat]
    /\ sleep_left \in [Procs -> Nat \union {-1}]
    /\ has_pid \subseteq Procs
    /\ pc \in [Harts -> Labels]
    /\ running \in [Harts -> Procs \union {Idle, NULL}]
    /\ target \in [Harts -> Harts]
    /\ held \in [Harts -> Procs \union {Idle, NULL}]
    /\ snapshot \in Seq(Procs)
    /\ due \subseteq Procs
    /\ pln \in Nat \ {0}
    /\ mtimer \in [Harts -> BOOLEAN]
    /\ stip \in [Harts -> BOOLEAN]

\* sched_mutex: never two harts between mutex_wait and mutex_post of
\* sched_invoke, and the mutex is locked exactly when one is there.
MutualExclusion ==
    /\ \A g, h \in Harts : pc[g] \in InSched /\ pc[h] \in InSched => g = h
    /\ sched_mutex = MUTEX_LOCKED <=> \E h \in Harts : pc[h] \in InSched

\* The places a process can be: a hart's current process, the process a hart
\* is about to spawn or is creating, and the two lists.
OnHart(p, h) == process_current[h] = p
InFlight(p, h) == held[h] = p
Queued(p) == p \in Elems(unsched_process_llist)
Asleep(p) == p \in Elems(sleeping_process_llist)

\* A process is never in two places: not on two harts, not on a hart and in a
\* list, not in both lists or twice in one (two harts would run one frame).
AtMostOnePlace ==
    /\ NoDuplicates(unsched_process_llist)
    /\ NoDuplicates(sleeping_process_llist)
    /\ \A p \in Procs :
          /\ ~(Queued(p) /\ Asleep(p))
          /\ \A h \in Harts :
                OnHart(p, h) \/ InFlight(p, h) => ~Queued(p) /\ ~Asleep(p)
          /\ \A g, h \in Harts :
                /\ OnHart(p, g) /\ OnHart(p, h) => g = h
                /\ InFlight(p, g) /\ InFlight(p, h) => g = h
                /\ ~(OnHart(p, g) /\ InFlight(p, h))

\* A process that was given a pid is never lost: until process_free it is on a
\* hart, about to be spawned, or in a list.  A freed slot is in none of them,
\* so no hart runs or queues a process whose memory was released.
NeverLost ==
    \A p \in Procs :
       /\ p \in has_pid => \/ Queued(p) \/ Asleep(p)
                           \/ \E h \in Harts : OnHart(p, h) \/ InFlight(p, h)
       /\ process_state[p] = "PS_DEAD" =>
             /\ ~Queued(p) /\ ~Asleep(p)
             /\ \A h \in Harts : ~OnHart(p, h) /\ ~InFlight(p, h)

\* "array of process pointers: which process is running of which hart"
\* (process.c): in user code a hart runs the process the kernel has on record
\* for it, and that process knows its hart, so a trap saves into its frame.
CurrentIsRunning ==
    \A h \in Harts : pc[h] = "user" =>
       /\ process_current[h] = running[h]
       /\ running[h] \in Procs => on_hart[running[h]] = h

\* The lists are in ascending order of run time, although run times change
\* and the console inserts without the scheduler lock: the head really is the
\* process that has run least.
ListsAscending ==
    /\ Ascending(vruntime, unsched_process_llist)
    /\ Ascending(vruntime, sleeping_process_llist)

\* sched_walk_sleeping_list's check ("nonsleeping process in sleeping list")
\* never fires, and no runnable process is marked as sleeping or exiting: a
\* stale mark would put it to sleep or free it at its next preemption.
StateMatchesList ==
    /\ \A p \in Elems(sleeping_process_llist) : process_state[p] = "PS_SLEEPING"
    /\ \A p \in Elems(unsched_process_llist) :
          process_state[p] \in {"PS_UNINIT", "PS_RUNNING"}

\* The strengthening that makes these inductive: which label owns which lock,
\* what a hart's record and local process may be at each label, and which
\* states a process may have in each place.
LabelsOwnState ==
    /\ \A h \in Harts : target[h] = h
    /\ \A h \in Harts : pc[h] \in {"console", "load", "add"} => h = 0
    /\ \A h \in Harts : pc[h] # "stopped"
    /\ unsched_mutex = MUTEX_LOCKED <=> pc[0] = "add"
    /\ pc[0] = "add" => snapshot = unsched_process_llist
    /\ \A h \in Harts : pc[h] = "user" => process_current[h] # NULL
    /\ \A h \in Harts :
          pc[h] \in {"console", "load", "add", "pick", "spawn"} => process_current[h] = NULL
    /\ \A h \in Harts : held[h] # NULL => pc[h] \in {"load", "add", "spawn"}
    /\ \A h \in Harts : pc[h] \in {"load", "add"} => held[h] \in Procs
    /\ \A h \in Harts : pc[h] = "spawn" => held[h] # NULL

Runnable == {"PS_UNINIT", "PS_RUNNING"}

PlacesMatchState ==
    /\ \A h \in Harts : process_current[h] \in Procs =>
          /\ on_hart[process_current[h]] = h
          /\ process_state[process_current[h]] # "PS_DEAD"
          /\ pc[h] = "user" => process_state[process_current[h]] \in Runnable
    /\ \A h \in Harts : held[h] \in Procs => process_state[held[h]] \in Runnable
    /\ \A p \in has_pid : process_state[p] # "PS_DEAD"
    /\ pc[0] = "load" => held[0] \notin has_pid

IInv ==
    /\ TypeOK
    /\ MutualExclusion
    /\ LabelsOwnState
    /\ PlacesMatchState
    /\ StateMatchesList
    /\ AtMostOnePlace
    /\ NeverLost
    /\ CurrentIsRunning
    /\ ListsAscending

\* What makes NoEarlyWake inductive: the clock was read before the walk, but a
\* process that is asleep cannot ask for another sleep until it has been woken.
WalkIsFresh == \A p \in due : Asleep(p) => sleep_left[p] < 0

\* No sleeper is made runnable before its sleep_until has passed.
NoEarlyWake ==
    [][\A p \in Procs : Asleep(p) /\ ~Asleep(p)' => sleep_left[p] < 0]_vars

\* A hart in user code can always be preempted: its timer is set or a timer
\* interrupt is already pending, however system calls, timer interrupts and
\* dispatches interleave.
AlwaysPreemptible ==
    \A h \in Harts : pc[h] = "user" => mtimer[h] \/ stip[h]

\* The scheduler lock is released again and again: no hart keeps it.
LockReleased == []<>(sched_mutex = MUTEX_UNLOCKED)

\* The bound on run time holds hart h in the process it runs, and from some point
\* on no hart calls the scheduler because of it.
HeldByBound(h) ==
    /\ pc[h] = "user" /\ process_current[h] \in Procs
    /\ vruntime[process_current[h]] >= MaxVruntime
NoMoreCalls == \A h \in Harts : HeldByBound(h) \/ (h = 0 /\ pc[h] = "console")

\* A sleeper whose time has come is taken off the sleeping list by some later
\* scheduler call, although a walk that wakes another process can miss it.
SleeperWakes ==
    []<>~NoMoreCalls =>
       \A p \in Procs : (Asleep(p) /\ sleep_left[p] < 0) ~> ~Asleep(p)

\* "array of process pointers: which process is running of which hart"
\* (process.c:23) at its weakest: while no hart is inside the scheduler, the
\* record of a hart in user code names what it runs.
RecordWhenQuiet ==
    (\A g \in Harts : pc[g] \in {"console", "user", "stopped"}) =>
        \A h \in Harts : pc[h] = "user" => process_current[h] = running[h]
=============================================================================
