------------------------------ MODULE SbiHart ------------------------------
(***************************************************************************)
(* Starting and stopping harts: the boot code of src/sbi/src/main.c and    *)
(* hart_start, hart_stop and hart_handle_msip of src/sbi/src/hart.c.       *)
(*                                                                         *)
(* A hart in supervisor mode asks the SBI to start or stop any hart; the   *)
(* SBI changes the hart's status under the hart's lock and sends it a      *)
(* machine software interrupt, which the hart handles when it next can.    *)
(* Machine mode runs with interrupts off.                                  *)
(***************************************************************************)
EXTENDS Integers

CONSTANTS
    Harts,      \* hart 0 boots the machine
    Targets,    \* calls' arguments: an entry address with its process frame
    MaxCalls    \* bound on the number of hart_start and hart_stop calls

ASSUME HartsAssumption == Harts \subseteq Nat /\ 0 \in Harts
ASSUME TargetsAssumption == Targets \subseteq Nat \ {0}
ASSUME CallsAssumption == MaxCalls \in Nat

Statuses ==
    {"HS_STOPPED", "HS_STARTING", "HS_STARTED", "HS_STOPPING", "HS_INVALID"}

VARIABLES
    hart_lock,        \* the lock of the boot messages is free
    status,           \* sbi_hart_data[h].status
    target_address,   \* sbi_hart_data[h].target_address
    process_frame,    \* sbi_hart_data[h].process_frame, by the call it came with
    sbi_hart_lock,    \* hart -> its lock is free
    msip,             \* hart -> a machine software interrupt is pending
    pc,               \* hart -> where it is
    arg,              \* hart -> the hart it starts or stops, and with what
    mepc,             \* hart -> the address it was last started at
    sscratch,         \* hart -> the frame it was last started with
    asked,            \* history, hart -> the argument of its last hart_start
    raced,            \* history: harts started before their boot code was over
    calls

boot == <<hart_lock>>
entry == <<target_address, process_frame>>
data == <<status, entry, sbi_hart_lock, msip>>
csrs == <<mepc, sscratch>>
ghosts == <<asked, raced>>
vars == <<boot, data, pc, arg, csrs, ghosts, calls>>

NoArg == <<0, 0>>

\* sbi_hart_data is HS_INVALID until a hart has booted.
Init ==
    /\ hart_lock = FALSE
    /\ status = [h \in Harts |-> "HS_INVALID"]
    /\ target_address = [h \in Harts |-> 0]
    /\ process_frame = [h \in Harts |-> 0]
    /\ sbi_hart_lock = [h \in Harts |-> TRUE]
    /\ msip = [h \in Harts |-> FALSE]
    /\ pc = [h \in Harts |-> IF h = 0 THEN "init" ELSE "boot"]
    /\ arg = [h \in Harts |-> NoArg]
    /\ mepc = [h \in Harts |-> 0]
    /\ sscratch = [h \in Harts |-> 0]
    /\ asked = [h \in Harts |-> 0]
    /\ raced = {}
    /\ calls = 0

Goto(h, label) == pc' = [pc EXCEPT ![h] = label]

----------------------------------------------------------------------------
(* Boot *)

\* Hart 0 initialises the table and lets the others run.
BootInit ==
    /\ pc[0] = "init"
    /\ hart_lock' = TRUE
    /\ Goto(0, "boot0")
    /\ UNCHANGED <<data, arg, csrs, ghosts, calls>>

\* Hart 0 enters its own data.
BootZero ==
    /\ pc[0] = "boot0"
    /\ status' = [status EXCEPT ![0] = "HS_STARTED"]
    /\ target_address' = [target_address EXCEPT ![0] = 0]
    /\ process_frame' = [process_frame EXCEPT ![0] = 0]
    /\ Goto(0, "hello")
    /\ UNCHANGED <<boot, sbi_hart_lock, msip, arg, csrs, ghosts, calls>>

\* Hart 0 greets and starts the kernel; it waits for no other hart.
BootDone ==
    /\ pc[0] = "hello" /\ hart_lock
    /\ Goto(0, "running")
    /\ UNCHANGED <<boot, data, arg, csrs, ghosts, calls>>

\* Another hart prints under the lock ...
BootLock(h) ==
    /\ pc[h] = "boot" /\ hart_lock
    /\ hart_lock' = FALSE
    /\ Goto(h, "print")
    /\ UNCHANGED <<data, arg, csrs, ghosts, calls>>

BootPrint(h) ==
    /\ pc[h] = "print"
    /\ hart_lock' = TRUE
    /\ Goto(h, "status")
    /\ UNCHANGED <<data, arg, csrs, ghosts, calls>>

\* ... and enters its data without its own lock: first the status,
BootStatus(h) ==
    /\ pc[h] = "status"
    /\ status' = [status EXCEPT ![h] = "HS_STOPPED"]
    /\ Goto(h, "address")
    /\ UNCHANGED <<boot, entry, sbi_hart_lock, msip, arg, csrs, ghosts, calls>>

\* then the address, then the frame.
BootAddress_Invalid(h) ==
    /\ pc[h] = "address"
    /\ target_address' = [target_address EXCEPT ![h] = -1]
    /\ Goto(h, "frame")
    /\ UNCHANGED <<boot, status, process_frame, sbi_hart_lock, msip, arg, csrs,
                   ghosts, calls>>
BootAddress(h) ==
    /\ pc[h] = "address"
    /\ target_address' = [target_address EXCEPT ![h] = 0]
    /\ Goto(h, "frame")
    /\ UNCHANGED <<boot, status, process_frame, sbi_hart_lock, msip, arg, csrs,
                   ghosts, calls>>

BootFrame(h) ==
    /\ pc[h] = "frame"
    /\ process_frame' = [process_frame EXCEPT ![h] = 0]
    /\ Goto(h, "csrs")
    /\ UNCHANGED <<boot, status, target_address, sbi_hart_lock, msip, arg, csrs,
                   ghosts, calls>>

\* The interrupt is enabled and the hart hangs until it comes.
BootHang(h) ==
    /\ pc[h] = "csrs"
    /\ Goto(h, "hang")
    /\ UNCHANGED <<boot, data, arg, csrs, ghosts, calls>>

----------------------------------------------------------------------------
(* hart_start and hart_stop *)

\* A call that finds the lock free takes it; otherwise it returns 1.
TryLock(c, h, label, a) ==
    /\ pc[c] = "running" /\ calls < MaxCalls
    /\ calls' = calls + 1
    /\ \/ /\ sbi_hart_lock[h]
          /\ sbi_hart_lock' = [sbi_hart_lock EXCEPT ![h] = FALSE]
          /\ arg' = [arg EXCEPT ![c] = <<h, a>>]
          /\ Goto(c, label)
       \/ /\ ~sbi_hart_lock[h]
          /\ UNCHANGED <<sbi_hart_lock, arg, pc>>
    /\ UNCHANGED <<boot, status, entry, msip, csrs, ghosts>>

StartCall(c, h, a) == TryLock(c, h, "start", a)
StopCall(c, h) == TryLock(c, h, "stop", 0)

\* The wrong status: post the lock and return 2.
Refuse_NotPosted(c) ==
    LET h == arg[c][1] IN
    /\ \/ pc[c] = "start" /\ status[h] # "HS_STOPPED"
       \/ pc[c] = "stop" /\ status[h] # "HS_STARTED"
    /\ Goto(c, "running")
    /\ UNCHANGED <<boot, data, arg, csrs, ghosts, calls>>
Refuse(c) ==
    LET h == arg[c][1] IN
    /\ \/ pc[c] = "start" /\ status[h] # "HS_STOPPED"
       \/ pc[c] = "stop" /\ status[h] # "HS_STARTED"
    /\ sbi_hart_lock' = [sbi_hart_lock EXCEPT ![h] = TRUE]
    /\ Goto(c, "running")
    /\ UNCHANGED <<boot, status, entry, msip, arg, csrs, ghosts, calls>>

\* The right status is replaced by a transition; the rest is still to come.
StartCheck(c) ==
    LET h == arg[c][1] IN
    /\ pc[c] = "start" /\ status[h] = "HS_STOPPED"
    /\ status' = [status EXCEPT ![h] = "HS_STARTING"]
    /\ asked' = [asked EXCEPT ![h] = arg[c][2]]
    /\ raced' = IF pc[h] \in {"address", "frame"} THEN raced \union {h}
              ELSE raced \ {h}
    /\ Goto(c, "entry")
    /\ UNCHANGED <<boot, entry, sbi_hart_lock, msip, arg, csrs, calls>>

StopCheck_AtOnce(c) ==
    LET h == arg[c][1] IN
    /\ pc[c] = "stop" /\ status[h] = "HS_STARTED"
    /\ status' = [status EXCEPT ![h] = "HS_STOPPED"]
    /\ Goto(c, "entry")
    /\ UNCHANGED <<boot, entry, sbi_hart_lock, msip, arg, csrs, ghosts, calls>>
StopCheck(c) ==
    LET h == arg[c][1] IN
    /\ pc[c] = "stop" /\ status[h] = "HS_STARTED"
    /\ status' = [status EXCEPT ![h] = "HS_STOPPING"]
    /\ Goto(c, "entry")
    /\ UNCHANGED <<boot, entry, sbi_hart_lock, msip, arg, csrs, ghosts, calls>>

SetEntry_Forgotten(c) ==
    /\ pc[c] = "entry"
    /\ Goto(c, "context")
    /\ UNCHANGED <<boot, data, arg, csrs, ghosts, calls>>
SetEntry(c) ==
    LET h == arg[c][1] IN
    /\ pc[c] = "entry"
    /\ target_address' = [target_address EXCEPT ![h] = arg[c][2]]
    /\ Goto(c, "context")
    /\ UNCHANGED <<boot, status, process_frame, sbi_hart_lock, msip, arg, csrs,
                   ghosts, calls>>

SetFrame(c) ==
    LET h == arg[c][1] IN
    /\ pc[c] = "context"
    /\ process_frame' = [process_frame EXCEPT ![h] = arg[c][2]]
    /\ Goto(c, "signal")
    /\ UNCHANGED <<boot, status, target_address, sbi_hart_lock, msip, arg, csrs,
                   ghosts, calls>>

\* clint_set_msip, mutex_post, return 0
Signal_Forgotten(c) ==
    LET h == arg[c][1] IN
    /\ pc[c] = "signal"
    /\ sbi_hart_lock' = [sbi_hart_lock EXCEPT ![h] = TRUE]
    /\ Goto(c, "running")
    /\ UNCHANGED <<boot, status, entry, msip, arg, csrs, ghosts, calls>>
Signal(c) ==
    LET h == arg[c][1] IN
    /\ pc[c] = "signal"
    /\ msip' = [msip EXCEPT ![h] = TRUE]
    /\ sbi_hart_lock' = [sbi_hart_lock EXCEPT ![h] = TRUE]
    /\ Goto(c, "running")
    /\ UNCHANGED <<boot, status, entry, arg, csrs, ghosts, calls>>

----------------------------------------------------------------------------
(* hart_handle_msip *)

\* Its error branch, for a hart that is neither starting nor stopping, would
\* only post the lock; MsipOnlyInTransition shows that it is never taken.

\* The interrupt is taken in supervisor or user mode, or while hanging.
TakeMsip(h) ==
    /\ msip[h] /\ pc[h] \in {"hang", "running"}
    /\ Goto(h, "msip")
    /\ UNCHANGED <<boot, data, arg, csrs, ghosts, calls>>

HandleLock_NotCleared(h) ==
    /\ pc[h] = "msip" /\ sbi_hart_lock[h]
    /\ sbi_hart_lock' = [sbi_hart_lock EXCEPT ![h] = FALSE]
    /\ Goto(h, "handle")
    /\ UNCHANGED <<boot, status, entry, msip, arg, csrs, ghosts, calls>>
HandleLock(h) ==
    /\ pc[h] = "msip" /\ sbi_hart_lock[h]
    /\ sbi_hart_lock' = [sbi_hart_lock EXCEPT ![h] = FALSE]
    /\ msip' = [msip EXCEPT ![h] = FALSE]
    /\ Goto(h, "handle")
    /\ UNCHANGED <<boot, status, entry, arg, csrs, ghosts, calls>>

HandleStart(h) ==
    /\ pc[h] = "handle" /\ status[h] = "HS_STARTING"
    /\ mepc' = [mepc EXCEPT ![h] = target_address[h]]
    /\ sscratch' = [sscratch EXCEPT ![h] = process_frame[h]]
    /\ status' = [status EXCEPT ![h] = "HS_STARTED"]
    /\ sbi_hart_lock' = [sbi_hart_lock EXCEPT ![h] = TRUE]
    /\ Goto(h, "running")
    /\ UNCHANGED <<boot, entry, msip, arg, ghosts, calls>>

\* Everything the hart was doing is dropped.
HandleStop(h) ==
    /\ pc[h] = "handle" /\ status[h] = "HS_STOPPING"
    /\ status' = [status EXCEPT ![h] = "HS_STOPPED"]
    /\ sbi_hart_lock' = [sbi_hart_lock EXCEPT ![h] = TRUE]
    /\ Goto(h, "hang")
    /\ UNCHANGED <<boot, entry, msip, arg, csrs, ghosts, calls>>

HartStep(h) ==
    \/ BootLock(h) \/ BootPrint(h) \/ BootStatus(h)
    \/ BootAddress(h) \/ BootFrame(h) \/ BootHang(h)
    \/ Refuse(h) \/ StartCheck(h) \/ StopCheck(h)
    \/ SetEntry(h) \/ SetFrame(h) \/ Signal(h)
    \/ TakeMsip(h) \/ HandleLock(h) \/ HandleStart(h) \/ HandleStop(h)

Next ==
    \/ BootInit \/ BootZero \/ BootDone
    \/ \E h \in Harts : HartStep(h)
    \/ \E c, h \in Harts : StopCall(c, h) \/ \E a \in Targets : StartCall(c, h, a)

Spec == Init /\ [][Next]_vars

\* Harts execute; nobody has to start or stop anything.
Fairness ==
    /\ WF_vars(BootInit \/ BootZero \/ BootDone)
    /\ \A h \in Harts : WF_vars(HartStep(h))

FairSpec == Spec /\ Fairness
----------------------------------------------------------------------------
(* Properties *)

Labels == {"init", "boot0", "hello", "boot", "print", "status", "address", "frame",
           "csrs", "hang", "running", "start", "stop", "entry", "context", "signal",
           "msip", "handle"}

\* Type invariant of the SBI's hart data.
TypeOK ==
    /\ hart_lock \in BOOLEAN
    /\ status \in [Harts -> Statuses]
    /\ target_address \in [Harts -> Targets \union {0}]
    /\ process_frame \in [Harts -> Targets \union {0}]
    /\ sbi_hart_lock \in [Harts -> BOOLEAN]
    /\ msip \in [Harts -> BOOLEAN]
    /\ pc \in [Harts -> Labels]
    /\ arg \in [Harts -> Harts \X (Targets \union {0})]
    /\ mepc \in [Harts -> Targets \union {0}]
    /\ sscratch \in [Harts -> Targets \union {0}]
    /\ asked \in [Harts -> Targets \union {0}]
    /\ raced \subseteq Harts
    /\ calls \in 0 .. MaxCalls

Transition == {"HS_STARTING", "HS_STOPPING"}

\* Who is inside the critical section of hart h's lock.
Inside(c, h) ==
    \/ pc[c] \in {"start", "stop", "entry", "context", "signal"} /\ arg[c][1] = h
    \/ pc[c] = "handle" /\ c = h

\* Every hart's lock has at most one owner, and is free when it has none.
LockOwner ==
    \A h \in Harts :
       /\ \A c, d \in Harts : Inside(c, h) /\ Inside(d, h) => c = d
       /\ sbi_hart_lock[h] <=> \A c \in Harts : ~Inside(c, h)

\* "ERROR: spawning/exiting on a non-transitioning hart" is never printed: a
\* hart that handles the interrupt is starting or stopping, even though the
\* booting hart writes its status without the lock.
MsipOnlyInTransition ==
    \A h \in Harts : pc[h] = "handle" => status[h] \in Transition

\* The status is what the hart does: a stopped hart executes no kernel or user
\* code, a started one is not parked, and no interrupt is left over for it.
StatusIsReal ==
    \A h \in Harts :
       /\ status[h] = "HS_STOPPED" =>
             pc[h] \in {"address", "frame", "csrs", "hang"} /\ ~msip[h]
       /\ status[h] = "HS_STARTED" =>
             /\ pc[h] \in {"hello", "running", "start", "stop", "entry", "context",
                           "signal"}
             /\ ~msip[h]

EntryAsAsked(h) == target_address[h] = asked[h] /\ process_frame[h] = asked[h]

\* A hart that had booted when hart_start was called starts at the address and
\* with the frame of that call.
EntryUnlessRaced ==
    \A h \in Harts \ raced :
       pc[h] = "handle" /\ status[h] = "HS_STARTING" => EntryAsAsked(h)

\* The strengthening that makes these inductive: where a hart can be in each
\* status, that an interrupt means a transition, and what a caller that has
\* passed the status check has done so far.
Locations ==
    \A h \in Harts :
       /\ status[h] = "HS_INVALID" <=> pc[h] \in {"init", "boot0", "boot", "print", "status"}
       /\ status[h] = "HS_STARTING" =>
             pc[h] \in {"address", "frame", "csrs", "hang", "msip", "handle"}
       /\ status[h] = "HS_STOPPING" =>
             pc[h] \in {"hello", "running", "start", "stop", "entry", "context",
                        "signal", "msip", "handle"}
       /\ pc[h] = "msip" => msip[h]
       /\ pc[h] = "handle" => ~msip[h]
       /\ msip[h] => status[h] \in Transition

Callers ==
    \A c \in Harts : pc[c] \in {"entry", "context", "signal"} =>
       /\ status[arg[c][1]] \in Transition
       /\ status[arg[c][1]] = "HS_STARTING" => arg[c][2] = asked[arg[c][1]]

Entries ==
    \A h \in Harts : status[h] = "HS_STARTING" =>
       /\ pc[h] \in {"address", "frame"} => h \in raced
       /\ \/ h \in raced \/ target_address[h] = asked[h]
          \/ \E c \in Harts : pc[c] = "entry" /\ arg[c][1] = h
       /\ \/ h \in raced \/ process_frame[h] = asked[h]
          \/ \E c \in Harts : pc[c] \in {"entry", "context"} /\ arg[c][1] = h

IInv ==
    /\ TypeOK
    /\ LockOwner
    /\ MsipOnlyInTransition
    /\ StatusIsReal
    /\ Locations
    /\ Callers
    /\ Entries

\* A hart that is told to start or stop does so.
TransitionEnds ==
    \A h \in Harts :
       status[h] \in Transition
          ~> status[h] \in {"HS_STARTED", "HS_STOPPED"}
=============================================================================
