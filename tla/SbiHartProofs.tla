--------------------------- MODULE SbiHartProofs ---------------------------
(***************************************************************************)
(* Hart control is safe for any number of harts: the lock of a hart has    *)
(* one owner, a hart's status is what it does, and the interrupt handler   *)
(* never meets a hart that is not starting or stopping.                    *)
(***************************************************************************)
EXTENDS SbiHart, TLAPS

USE DEF Goto, boot, entry, data, csrs, ghosts

\* The reset state satisfies the invariant.
LEMMA InitInv == Init => IInv
<1> SUFFICES ASSUME Init PROVE IInv
  OBVIOUS
<1> USE HartsAssumption, TargetsAssumption, CallsAssumption DEF Init
<1>1. TypeOK
  <2>1. arg \in [Harts -> Harts \X (Targets \union {0})]
    BY DEF NoArg
  <2>2. pc \in [Harts -> Labels]
    BY DEF Labels
  <2>3. status \in [Harts -> Statuses]
    BY DEF Statuses
  <2>4. calls \in 0 .. MaxCalls
    OBVIOUS
  <2>5. /\ target_address \in [Harts -> Targets \union {0}]
        /\ process_frame \in [Harts -> Targets \union {0}]
        /\ mepc \in [Harts -> Targets \union {0}]
        /\ sscratch \in [Harts -> Targets \union {0}]
        /\ asked \in [Harts -> Targets \union {0}]
    OBVIOUS
  <2>6. /\ hart_lock \in BOOLEAN
        /\ sbi_hart_lock \in [Harts -> BOOLEAN]
        /\ msip \in [Harts -> BOOLEAN]
        /\ raced \subseteq Harts
    OBVIOUS
  <2> QED BY <2>1, <2>2, <2>3, <2>4, <2>5, <2>6 DEF TypeOK
<1>2. LockOwner
  BY DEF LockOwner, Inside
<1>3. MsipOnlyInTransition
  BY DEF MsipOnlyInTransition, Transition
<1>4. StatusIsReal
  BY DEF StatusIsReal, Transition
<1>5. Locations
  BY DEF Locations, Transition
<1>6. Callers
  BY DEF Callers, Transition
<1>7. Entries
  BY DEF Entries, Transition
<1> QED BY <1>1, <1>2, <1>3, <1>4, <1>5, <1>6, <1>7 DEF IInv

\* Letting the other harts boot concerns no hart's data.
LEMMA BootInitStep ==
    ASSUME IInv, BootInit
    PROVE  IInv'
<1> USE HartsAssumption DEF IInv, BootInit
<1>1. TypeOK'
  BY DEF TypeOK, Labels
<1>2. LockOwner'
  BY DEF TypeOK, LockOwner, Inside
<1>3. MsipOnlyInTransition'
  BY DEF TypeOK, MsipOnlyInTransition
<1>4. StatusIsReal'
  BY DEF TypeOK, StatusIsReal
<1>5. Locations'
  BY DEF TypeOK, Locations
<1>6. Callers'
  BY DEF TypeOK, Callers
<1>7. Entries'
  BY DEF TypeOK, Entries
<1> QED BY <1>1, <1>2, <1>3, <1>4, <1>5, <1>6, <1>7 DEF IInv

\* Hart 0 records itself as started.
LEMMA BootZeroStep ==
    ASSUME IInv, BootZero
    PROVE  IInv'
<1> USE HartsAssumption DEF IInv, BootZero
<1>1. TypeOK'
  BY DEF TypeOK, Statuses, Labels
<1>2. LockOwner'
  BY DEF TypeOK, LockOwner, Inside
<1>3. MsipOnlyInTransition'
  BY DEF TypeOK, MsipOnlyInTransition
<1>4. StatusIsReal'
  BY DEF TypeOK, StatusIsReal, Locations, Transition
<1>5. Locations'
  BY DEF TypeOK, Locations, Transition
<1>6. Callers'
  BY DEF TypeOK, Callers, Transition, Locations
<1>7. Entries'
  BY DEF TypeOK, Entries
<1> QED BY <1>1, <1>2, <1>3, <1>4, <1>5, <1>6, <1>7 DEF IInv

\* Hart 0 leaves the boot code.
LEMMA BootDoneStep ==
    ASSUME IInv, BootDone
    PROVE  IInv'
<1> USE HartsAssumption DEF IInv, BootDone
<1>1. TypeOK'
  BY DEF TypeOK, Labels
<1>2. LockOwner'
  BY DEF TypeOK, LockOwner, Inside
<1>3. MsipOnlyInTransition'
  BY DEF TypeOK, MsipOnlyInTransition
<1>4. StatusIsReal'
  BY DEF TypeOK, StatusIsReal
<1>5. Locations'
  BY DEF TypeOK, Locations
<1>6. Callers'
  BY DEF TypeOK, Callers
<1>7. Entries'
  BY DEF TypeOK, Entries
<1> QED BY <1>1, <1>2, <1>3, <1>4, <1>5, <1>6, <1>7 DEF IInv

\* A booting hart takes the lock of the messages.
LEMMA BootLockStep ==
    ASSUME IInv, NEW h \in Harts, BootLock(h)
    PROVE  IInv'
<1> USE HartsAssumption DEF IInv, BootLock
<1>1. TypeOK'
  BY DEF TypeOK, Labels
<1>2. LockOwner'
  BY DEF TypeOK, LockOwner, Inside
<1>3. MsipOnlyInTransition'
  BY DEF TypeOK, MsipOnlyInTransition
<1>4. StatusIsReal'
  BY DEF TypeOK, StatusIsReal
<1>5. Locations'
  BY DEF TypeOK, Locations
<1>6. Callers'
  BY DEF TypeOK, Callers
<1>7. Entries'
  BY DEF TypeOK, Entries
<1> QED BY <1>1, <1>2, <1>3, <1>4, <1>5, <1>6, <1>7 DEF IInv

\* A booting hart returns the lock of the messages.
LEMMA BootPrintStep ==
    ASSUME IInv, NEW h \in Harts, BootPrint(h)
    PROVE  IInv'
<1> USE HartsAssumption DEF IInv, BootPrint
<1>1. TypeOK'
  BY DEF TypeOK, Labels
<1>2. LockOwner'
  BY DEF TypeOK, LockOwner, Inside
<1>3. MsipOnlyInTransition'
  BY DEF TypeOK, MsipOnlyInTransition
<1>4. StatusIsReal'
  BY DEF TypeOK, StatusIsReal
<1>5. Locations'
  BY DEF TypeOK, Locations
<1>6. Callers'
  BY DEF TypeOK, Callers
<1>7. Entries'
  BY DEF TypeOK, Entries
<1> QED BY <1>1, <1>2, <1>3, <1>4, <1>5, <1>6, <1>7 DEF IInv

\* A booting hart becomes startable; nothing was sent to it before.
LEMMA BootStatusStep ==
    ASSUME IInv, NEW h \in Harts, BootStatus(h)
    PROVE  IInv'
<1> USE HartsAssumption DEF IInv, BootStatus
<1>1. TypeOK'
  BY DEF TypeOK, Statuses, Labels
<1>2. LockOwner'
  BY DEF TypeOK, LockOwner, Inside
<1>3. MsipOnlyInTransition'
  BY DEF TypeOK, MsipOnlyInTransition
<1>4. StatusIsReal'
  BY DEF TypeOK, StatusIsReal, Locations, Transition
<1>5. Locations'
  BY DEF TypeOK, Locations, Transition
<1>6. Callers'
  BY DEF TypeOK, Callers, Transition, Locations
<1>7. Entries'
  BY DEF TypeOK, Entries
<1> QED BY <1>1, <1>2, <1>3, <1>4, <1>5, <1>6, <1>7 DEF IInv

\* The late write of the address harms only a hart in raced.
LEMMA BootAddressStep ==
    ASSUME IInv, NEW h \in Harts, BootAddress(h)
    PROVE  IInv'
<1> USE HartsAssumption DEF IInv, BootAddress
<1>1. TypeOK'
  BY DEF TypeOK, Labels
<1>2. LockOwner'
  BY DEF TypeOK, LockOwner, Inside
<1>3. MsipOnlyInTransition'
  BY DEF TypeOK, MsipOnlyInTransition
<1>4. StatusIsReal'
  BY DEF TypeOK, StatusIsReal
<1>5. Locations'
  BY DEF TypeOK, Locations
<1>6. Callers'
  BY DEF TypeOK, Callers
<1>7. Entries'
  BY DEF TypeOK, Entries
<1> QED BY <1>1, <1>2, <1>3, <1>4, <1>5, <1>6, <1>7 DEF IInv

\* So does the late write of the frame.
LEMMA BootFrameStep ==
    ASSUME IInv, NEW h \in Harts, BootFrame(h)
    PROVE  IInv'
<1> USE HartsAssumption DEF IInv, BootFrame
<1>1. TypeOK'
  BY DEF TypeOK, Labels
<1>2. LockOwner'
  BY DEF TypeOK, LockOwner, Inside
<1>3. MsipOnlyInTransition'
  BY DEF TypeOK, MsipOnlyInTransition
<1>4. StatusIsReal'
  BY DEF TypeOK, StatusIsReal
<1>5. Locations'
  BY DEF TypeOK, Locations
<1>6. Callers'
  BY DEF TypeOK, Callers
<1>7. Entries'
  BY DEF TypeOK, Entries
<1> QED BY <1>1, <1>2, <1>3, <1>4, <1>5, <1>6, <1>7 DEF IInv

\* A booted hart waits for its interrupt.
LEMMA BootHangStep ==
    ASSUME IInv, NEW h \in Harts, BootHang(h)
    PROVE  IInv'
<1> USE HartsAssumption DEF IInv, BootHang
<1>1. TypeOK'
  BY DEF TypeOK, Labels
<1>2. LockOwner'
  BY DEF TypeOK, LockOwner, Inside
<1>3. MsipOnlyInTransition'
  BY DEF TypeOK, MsipOnlyInTransition
<1>4. StatusIsReal'
  BY DEF TypeOK, StatusIsReal
<1>5. Locations'
  BY DEF TypeOK, Locations
<1>6. Callers'
  BY DEF TypeOK, Callers
<1>7. Entries'
  BY DEF TypeOK, Entries
<1> QED BY <1>1, <1>2, <1>3, <1>4, <1>5, <1>6, <1>7 DEF IInv

\* A refused call only returns the lock.
LEMMA RefuseStep ==
    ASSUME IInv, NEW h \in Harts, Refuse(h)
    PROVE  IInv'
<1> USE HartsAssumption DEF IInv, Refuse
<1>1. TypeOK'
  BY DEF TypeOK, Labels
<1>2. LockOwner'
  BY DEF TypeOK, LockOwner, Inside
<1>3. MsipOnlyInTransition'
  BY DEF TypeOK, MsipOnlyInTransition
<1>4. StatusIsReal'
  BY DEF TypeOK, StatusIsReal
<1>5. Locations'
  BY DEF TypeOK, Locations
<1>6. Callers'
  BY DEF TypeOK, Callers
<1>7. Entries'
  BY DEF TypeOK, Entries
<1> QED BY <1>1, <1>2, <1>3, <1>4, <1>5, <1>6, <1>7 DEF IInv

\* hart_start moves a stopped hart into a transition.
LEMMA StartCheckStep ==
    ASSUME IInv, NEW h \in Harts, StartCheck(h)
    PROVE  IInv'
<1> USE HartsAssumption DEF IInv, StartCheck
<1>1. TypeOK'
  BY DEF TypeOK, Statuses, Labels
<1>2. LockOwner'
  <2>1. \A c, k \in Harts : Inside(c, k)' <=> Inside(c, k)
    BY DEF TypeOK, Goto, Inside
  <2> QED BY <2>1 DEF LockOwner
<1>3. MsipOnlyInTransition'
  BY DEF TypeOK, MsipOnlyInTransition, Transition
<1>4. StatusIsReal'
  BY DEF TypeOK, StatusIsReal
<1>5. Locations'
  BY DEF TypeOK, Locations, StatusIsReal
<1>6. Callers'
  BY DEF TypeOK, Callers, Transition
<1>7. Entries'
  BY DEF TypeOK, Entries
<1> QED BY <1>1, <1>2, <1>3, <1>4, <1>5, <1>6, <1>7 DEF IInv

\* hart_stop moves a started hart into a transition.
LEMMA StopCheckStep ==
    ASSUME IInv, NEW h \in Harts, StopCheck(h)
    PROVE  IInv'
<1> USE HartsAssumption DEF IInv, StopCheck
<1>1. TypeOK'
  BY DEF TypeOK, Statuses, Labels
<1>2. LockOwner'
  BY DEF TypeOK, LockOwner, Inside
<1>3. MsipOnlyInTransition'
  BY DEF TypeOK, MsipOnlyInTransition, Transition
<1>4. StatusIsReal'
  BY DEF TypeOK, StatusIsReal
<1>5. Locations'
  BY DEF TypeOK, Locations, StatusIsReal
<1>6. Callers'
  BY DEF TypeOK, Callers, Transition
<1>7. Entries'
  BY DEF TypeOK, Entries
<1> QED BY <1>1, <1>2, <1>3, <1>4, <1>5, <1>6, <1>7 DEF IInv

\* The address is written while the lock is held.
LEMMA SetEntryStep ==
    ASSUME IInv, NEW h \in Harts, SetEntry(h)
    PROVE  IInv'
<1> USE HartsAssumption DEF IInv, SetEntry
<1>1. TypeOK'
  BY DEF TypeOK, Labels
<1>2. LockOwner'
  BY DEF TypeOK, LockOwner, Inside
<1>3. MsipOnlyInTransition'
  BY DEF TypeOK, MsipOnlyInTransition
<1>4. StatusIsReal'
  BY DEF TypeOK, StatusIsReal
<1>5. Locations'
  BY DEF TypeOK, Locations
<1>6. Callers'
  BY DEF TypeOK, Callers
<1>7. Entries'
  BY DEF TypeOK, Entries, Callers
<1> QED BY <1>1, <1>2, <1>3, <1>4, <1>5, <1>6, <1>7 DEF IInv

\* So is the frame.
LEMMA SetFrameStep ==
    ASSUME IInv, NEW h \in Harts, SetFrame(h)
    PROVE  IInv'
<1> USE HartsAssumption DEF IInv, SetFrame
<1>1. TypeOK'
  BY DEF TypeOK, Labels
<1>2. LockOwner'
  BY DEF TypeOK, LockOwner, Inside
<1>3. MsipOnlyInTransition'
  BY DEF TypeOK, MsipOnlyInTransition
<1>4. StatusIsReal'
  BY DEF TypeOK, StatusIsReal
<1>5. Locations'
  BY DEF TypeOK, Locations
<1>6. Callers'
  BY DEF TypeOK, Callers
<1>7. Entries'
  BY DEF TypeOK, Entries, Callers
<1> QED BY <1>1, <1>2, <1>3, <1>4, <1>5, <1>6, <1>7 DEF IInv

\* The interrupt is sent to a hart that is in a transition.
LEMMA SignalStep ==
    ASSUME IInv, NEW h \in Harts, Signal(h)
    PROVE  IInv'
<1> USE HartsAssumption DEF IInv, Signal
<1>1. TypeOK'
  BY DEF TypeOK, Labels
<1>2. LockOwner'
  BY DEF TypeOK, LockOwner, Inside
<1>3. MsipOnlyInTransition'
  BY DEF TypeOK, MsipOnlyInTransition
<1>4. StatusIsReal'
  BY DEF TypeOK, StatusIsReal, Transition, Callers
<1>5. Locations'
  BY DEF TypeOK, Locations, LockOwner, Inside, Callers
<1>6. Callers'
  BY DEF TypeOK, Callers
<1>7. Entries'
  BY DEF TypeOK, Entries
<1> QED BY <1>1, <1>2, <1>3, <1>4, <1>5, <1>6, <1>7 DEF IInv

\* A hart that takes the interrupt is in a transition.
LEMMA TakeMsipStep ==
    ASSUME IInv, NEW h \in Harts, TakeMsip(h)
    PROVE  IInv'
<1> USE HartsAssumption DEF IInv, TakeMsip
<1>1. TypeOK'
  BY DEF TypeOK, Labels
<1>2. LockOwner'
  BY DEF TypeOK, LockOwner, Inside
<1>3. MsipOnlyInTransition'
  BY DEF TypeOK, MsipOnlyInTransition
<1>4. StatusIsReal'
  BY DEF TypeOK, StatusIsReal
<1>5. Locations'
  BY DEF TypeOK, Locations
<1>6. Callers'
  BY DEF TypeOK, Callers
<1>7. Entries'
  BY DEF TypeOK, Entries
<1> QED BY <1>1, <1>2, <1>3, <1>4, <1>5, <1>6, <1>7 DEF IInv

\* The handler excludes the callers.
LEMMA HandleLockStep ==
    ASSUME IInv, NEW h \in Harts, HandleLock(h)
    PROVE  IInv'
<1> USE HartsAssumption DEF IInv, HandleLock
<1>1. TypeOK'
  BY DEF TypeOK, Labels
<1>2. LockOwner'
  BY DEF TypeOK, LockOwner, Inside
<1>3. MsipOnlyInTransition'
  BY DEF TypeOK, MsipOnlyInTransition, Locations
<1>4. StatusIsReal'
  BY DEF TypeOK, StatusIsReal
<1>5. Locations'
  BY DEF TypeOK, Locations
<1>6. Callers'
  BY DEF TypeOK, Callers
<1>7. Entries'
  BY DEF TypeOK, Entries
<1> QED BY <1>1, <1>2, <1>3, <1>4, <1>5, <1>6, <1>7 DEF IInv

\* A starting hart becomes a started one.
LEMMA HandleStartStep ==
    ASSUME IInv, NEW h \in Harts, HandleStart(h)
    PROVE  IInv'
<1> USE HartsAssumption DEF IInv, HandleStart
<1>1. TypeOK'
  BY DEF TypeOK, Statuses, Labels
<1>2. LockOwner'
  BY DEF TypeOK, LockOwner, Inside
<1>3. MsipOnlyInTransition'
  BY DEF TypeOK, MsipOnlyInTransition
<1>4. StatusIsReal'
  BY DEF TypeOK, StatusIsReal, Locations
<1>5. Locations'
  BY DEF TypeOK, Locations
<1>6. Callers'
  BY DEF TypeOK, Callers, LockOwner, Inside
<1>7. Entries'
  BY DEF TypeOK, Entries
<1> QED BY <1>1, <1>2, <1>3, <1>4, <1>5, <1>6, <1>7 DEF IInv

\* A stopping hart becomes a stopped one.
LEMMA HandleStopStep ==
    ASSUME IInv, NEW h \in Harts, HandleStop(h)
    PROVE  IInv'
<1> USE HartsAssumption DEF IInv, HandleStop
<1>1. TypeOK'
  BY DEF TypeOK, Statuses, Labels
<1>2. LockOwner'
  BY DEF TypeOK, LockOwner, Inside
<1>3. MsipOnlyInTransition'
  BY DEF TypeOK, MsipOnlyInTransition
<1>4. StatusIsReal'
  BY DEF TypeOK, StatusIsReal, Locations
<1>5. Locations'
  BY DEF TypeOK, Locations
<1>6. Callers'
  BY DEF TypeOK, Callers, LockOwner, Inside
<1>7. Entries'
  BY DEF TypeOK, Entries
<1> QED BY <1>1, <1>2, <1>3, <1>4, <1>5, <1>6, <1>7 DEF IInv

\* A call takes the lock of a hart only when nobody is inside.
LEMMA TryLockStep ==
    ASSUME IInv, NEW c \in Harts, NEW h \in Harts, NEW a \in Targets \union {0},
           NEW label \in {"start", "stop"}, TryLock(c, h, label, a)
    PROVE  IInv'
<1> USE HartsAssumption DEF IInv, TryLock
<1>1. TypeOK'
  <2>1. calls' \in 0 .. MaxCalls
    BY CallsAssumption DEF TypeOK
  <2>2. arg' \in [Harts -> Harts \X (Targets \union {0})]
    BY DEF TypeOK
  <2>3. pc' \in [Harts -> Labels]
    BY DEF TypeOK, Labels
  <2>4. sbi_hart_lock' \in [Harts -> BOOLEAN]
    BY DEF TypeOK
  <2> QED BY <2>1, <2>2, <2>3, <2>4 DEF TypeOK
<1>2. LockOwner'
  BY DEF TypeOK, LockOwner, Inside
<1>3. MsipOnlyInTransition'
  BY DEF TypeOK, MsipOnlyInTransition
<1>4. StatusIsReal'
  BY DEF TypeOK, StatusIsReal
<1>5. Locations'
  BY DEF TypeOK, Locations
<1>6. Callers'
  BY DEF TypeOK, Callers
<1>7. Entries'
  BY DEF TypeOK, Entries
<1> QED BY <1>1, <1>2, <1>3, <1>4, <1>5, <1>6, <1>7 DEF IInv

\* Between steps nothing changes.
LEMMA StutterInv ==
    ASSUME IInv, UNCHANGED vars
    PROVE  IInv'
<1> USE DEF vars, IInv
<1>1. TypeOK' /\ LockOwner' /\ MsipOnlyInTransition' /\ StatusIsReal'
  BY DEF TypeOK, LockOwner, Inside, MsipOnlyInTransition, StatusIsReal
<1>2. Locations' /\ Callers' /\ Entries'
  BY DEF Locations, Callers, Entries
<1> QED BY <1>1, <1>2

\* Every step preserves the invariant.
LEMMA NextStep ==
    ASSUME IInv, [Next]_vars
    PROVE  IInv'
<1>1. CASE BootInit
  BY <1>1, BootInitStep
<1>2. CASE BootZero
  BY <1>2, BootZeroStep
<1>3. CASE BootDone
  BY <1>3, BootDoneStep
<1>4. ASSUME NEW h \in Harts, HartStep(h) PROVE IInv'
  BY <1>4, BootLockStep, BootPrintStep, BootStatusStep, BootAddressStep,
     BootFrameStep, BootHangStep, RefuseStep, StartCheckStep, StopCheckStep,
     SetEntryStep, SetFrameStep, SignalStep, TakeMsipStep, HandleLockStep, HandleStartStep, HandleStopStep
     DEF HartStep
<1>5. ASSUME NEW c \in Harts, NEW h \in Harts, StopCall(c, h) PROVE IInv'
  BY <1>5, TryLockStep DEF StopCall
<1>6. ASSUME NEW c \in Harts, NEW h \in Harts, NEW a \in Targets,
             StartCall(c, h, a)
      PROVE  IInv'
  BY <1>6, TryLockStep DEF StartCall
<1>7. CASE UNCHANGED vars
  BY <1>7, StutterInv
<1> QED BY <1>1, <1>2, <1>3, <1>4, <1>5, <1>6, <1>7 DEF Next

\* The invariant of hart_start, hart_stop and hart_handle_msip holds at all
\* times, for any number of harts, start addresses and calls.
THEOREM SbiInvariance == Spec => []IInv
<1>1. Init => IInv
  BY InitInv
<1>2. IInv /\ [Next]_vars => IInv'
  BY NextStep
<1> QED BY <1>1, <1>2, PTL DEF Spec

\* The SBI's variables keep their types.
THEOREM SbiTypes == Spec => []TypeOK
<1>1. IInv => TypeOK
  BY DEF IInv
<1> QED BY <1>1, SbiInvariance, PTL

\* mutex_try and mutex_wait on sbi_hart_lock exclude hart_start, hart_stop and
\* hart_handle_msip from each other, and every path posts the lock it took.
THEOREM LockHasOneOwner == Spec => []LockOwner
<1>1. IInv => LockOwner
  BY DEF IInv
<1> QED BY <1>1, SbiInvariance, PTL

\* The error branch of hart_handle_msip is never taken.
THEOREM HandlerSeesTransition == Spec => []MsipOnlyInTransition
<1>1. IInv => MsipOnlyInTransition
  BY DEF IInv
<1> QED BY <1>1, SbiInvariance, PTL

\* HS_STOPPED and HS_STARTED say what the hart does.
THEOREM StatusSound == Spec => []StatusIsReal
<1>1. IInv => StatusIsReal
  BY DEF IInv
<1> QED BY <1>1, SbiInvariance, PTL

\* A hart that had booted when hart_start was called starts at the address and
\* with the frame of that call: while it is in its handler nobody is between the status check
\* and the write of the two.
THEOREM StartsAtTarget == Spec => []EntryUnlessRaced
<1>1. IInv => EntryUnlessRaced
  <2> SUFFICES ASSUME IInv, NEW h \in Harts \ raced,
                      pc[h] = "handle", status[h] = "HS_STARTING"
               PROVE  EntryAsAsked(h)
    BY DEF EntryUnlessRaced
  <2>1. Inside(h, h)
    BY DEF Inside
  <2>2. ASSUME NEW c \in Harts, pc[c] \in {"entry", "context"},
                    arg[c][1] = h
             PROVE  FALSE
    <3>1. Inside(c, h)
      BY <2>2 DEF Inside
    <3>2. c = h
      BY <2>1, <3>1 DEF IInv, LockOwner
    <3> QED BY <2>2, <3>2
  <2> QED BY <2>2 DEF IInv, Entries, EntryAsAsked
<1> QED BY <1>1, SbiInvariance, PTL
=============================================================================
