-------------------------- MODULE EntryGateProofs --------------------------
(***************************************************************************)
(* Proofs about the lease and the arming of order placement (RuntimeLease) *)
(* and about the gate of entries (EntryGate), for any number of processes, *)
(* databases, limits and units.                                            *)
(***************************************************************************)
EXTENDS EntryGate, TLAPS

\* From the moment it is taken until it is released, the lock of the database
\* is its process's.
HoldsDatabase ==
    \A p \in Process :
        phase[p] \in {"leased", "gated", "checked", "scoped", "set", "serving",
                      "stopping"} => databaseLock[database[p]] = p

\* A process that is past the binding holds the lock of its account; a
\* simulation never binds.
HoldsAccount ==
    \A p \in Process :
        \/ phase[p] \in {"scoped", "set"}
        \/ phase[p] = "serving" /\ mode[p] # "simulation"
        => accountLock[AccountScope(mode[p])] = p

\* Only a serving process that may submit orders is armed.
ArmedServes ==
    \A p \in Process :
        armed[p] => phase[p] = "serving" /\ SubmitsOrders(mode[p])

LeaseInv == LeaseTypeOK /\ HoldsDatabase /\ HoldsAccount /\ ArmedServes

-----------------------------------------------------------------------------
\* Two armed processes would hold the same lock.
LEMMA LeaseInvExcludes == LeaseInv => ArmedIsExclusive
<1> SUFFICES ASSUME LeaseInv,
                    NEW p \in Process, NEW q \in Process,
                    p # q, armed[p], armed[q]
             PROVE  /\ database[p] # database[q]
                    /\ AccountScope(mode[p]) # AccountScope(mode[q])
  BY DEF ArmedIsExclusive
<1>1. /\ phase[p] = "serving" /\ SubmitsOrders(mode[p])
      /\ phase[q] = "serving" /\ SubmitsOrders(mode[q])
  BY DEF LeaseInv, ArmedServes
<1>2. databaseLock[database[p]] = p /\ databaseLock[database[q]] = q
  BY <1>1 DEF LeaseInv, HoldsDatabase
<1>3. mode[p] # "simulation" /\ mode[q] # "simulation"
  BY <1>1 DEF SubmitsOrders
<1>4. /\ accountLock[AccountScope(mode[p])] = p
      /\ accountLock[AccountScope(mode[q])] = q
  BY <1>1, <1>3 DEF LeaseInv, HoldsAccount
<1> QED
  BY <1>2, <1>4

LEMMA LeaseInvInit == Init => LeaseInv
  BY DEF Init, LeaseInit, LeaseInv, LeaseTypeOK, HoldsDatabase, HoldsAccount,
         ArmedServes, Phase, StartPhase, Mode

-----------------------------------------------------------------------------
(* What the process that takes a step may change, and what it leaves to    *)
(* every other one.                                                         *)

LEMMA StartKeepsLease ==
  ASSUME LeaseInv, NEW r \in Process, Start(r)
  PROVE  LeaseInv'
<1> USE DEF LeaseInv, LeaseTypeOK, Start, Advance, Disarm
<1>1. LeaseTypeOK'
  BY DEF Phase, StartPhase
<1>2. HoldsDatabase'
  BY DEF HoldsDatabase
<1>3. HoldsAccount'
  BY DEF HoldsAccount
<1>4. ArmedServes'
  BY DEF ArmedServes
<1> QED
  BY <1>1, <1>2, <1>3, <1>4

LEMMA AcquireKeepsLease ==
  ASSUME LeaseInv, NEW r \in Process, AcquireDatabase(r)
  PROVE  LeaseInv'
<1> USE DEF LeaseInv, LeaseTypeOK, AcquireDatabase, Advance
<1>1. LeaseTypeOK'
  BY DEF Phase, StartPhase
<1>2. HoldsDatabase'
  BY NobodyAssumption DEF HoldsDatabase
<1>3. HoldsAccount'
  BY DEF HoldsAccount
<1>4. ArmedServes'
  BY DEF ArmedServes
<1> QED
  BY <1>1, <1>2, <1>3, <1>4

LEMMA GateAndPreflightKeepLease ==
  ASSUME LeaseInv, NEW r \in Process, CloseGateAtStart(r) \/ Preflight(r)
  PROVE  LeaseInv'
<1> USE DEF LeaseInv, LeaseTypeOK, CloseGateAtStart, Preflight, Advance
<1>1. LeaseTypeOK'
  BY DEF Phase, StartPhase, SubmitsOrders
<1>2. HoldsDatabase'
  BY DEF HoldsDatabase
<1>3. HoldsAccount'
  BY DEF HoldsAccount
<1>4. ArmedServes'
  BY DEF ArmedServes
<1> QED
  BY <1>1, <1>2, <1>3, <1>4

LEMMA BindKeepsLease ==
  ASSUME LeaseInv, NEW r \in Process, BindAccountScope(r)
  PROVE  LeaseInv'
<1> USE DEF LeaseInv, LeaseTypeOK, BindAccountScope, Advance
<1>0. AccountScope(mode[r]) \in Scope
  BY DEF AccountScope, Scope
<1>1. LeaseTypeOK'
  BY DEF Phase, StartPhase
<1>2. HoldsDatabase'
  BY DEF HoldsDatabase
<1>3. HoldsAccount'
  <2> SUFFICES ASSUME NEW p \in Process,
                      \/ phase'[p] \in {"scoped", "set"}
                      \/ phase'[p] = "serving" /\ mode'[p] # "simulation"
               PROVE  accountLock'[AccountScope(mode'[p])] = p
    BY DEF HoldsAccount
  <2>1. CASE p = r
    BY <2>1, <1>0
  <2>2. CASE p # r
    <3>1. accountLock[AccountScope(mode[p])] = p
      BY <2>2 DEF HoldsAccount
    <3> QED
      BY <2>2, <3>1, NobodyAssumption
  <2> QED
    BY <2>1, <2>2
<1>4. ArmedServes'
  BY DEF ArmedServes
<1> QED
  BY <1>1, <1>2, <1>3, <1>4

LEMMA SetupKeepsLease ==
  ASSUME LeaseInv, NEW r \in Process, SetupServices(r)
  PROVE  LeaseInv'
<1> USE DEF LeaseInv, LeaseTypeOK, SetupServices, Advance
<1>1. LeaseTypeOK'
  BY DEF Phase, StartPhase
<1>2. HoldsDatabase'
  BY DEF HoldsDatabase
<1>3. HoldsAccount'
  BY DEF HoldsAccount
<1>4. ArmedServes'
  BY DEF ArmedServes
<1> QED
  BY <1>1, <1>2, <1>3, <1>4

LEMMA ArmKeepsLease ==
  ASSUME LeaseInv, NEW r \in Process, Arm(r)
  PROVE  LeaseInv'
<1> USE DEF LeaseInv, LeaseTypeOK, Arm, Advance, Disarm
<1>1. LeaseTypeOK'
  BY DEF Phase, StartPhase
<1>2. HoldsDatabase'
  BY DEF HoldsDatabase
<1>3. HoldsAccount'
  BY DEF HoldsAccount
<1>4. ArmedServes'
  BY DEF ArmedServes
<1> QED
  BY <1>1, <1>2, <1>3, <1>4

\* Teardown disarms before ReleaseLease frees the locks.
LEMMA TeardownKeepsLease ==
  ASSUME LeaseInv, NEW r \in Process, Teardown(r)
  PROVE  LeaseInv'
<1> USE DEF LeaseInv, LeaseTypeOK, Teardown, Advance, Disarm
<1>1. LeaseTypeOK'
  BY DEF Phase, StartPhase
<1>2. HoldsDatabase'
  BY DEF HoldsDatabase
<1>3. HoldsAccount'
  BY DEF HoldsAccount
<1>4. ArmedServes'
  BY DEF ArmedServes
<1> QED
  BY <1>1, <1>2, <1>3, <1>4

\* Whoever releases is down afterwards, and takes no lock of another process.
LEMMA ReleaseKeepsLease ==
  ASSUME LeaseInv, NEW r \in Process,
         StartFails(r) \/ ReleaseLease(r) \/ Die(r)
  PROVE  LeaseInv'
<1>1. /\ phase' = [phase EXCEPT ![r] = "down"]
      /\ mode' = [mode EXCEPT ![r] = "simulation"]
      /\ passed' = [passed EXCEPT ![r] = FALSE]
      /\ UNCHANGED <<database, entriesRow, limits>>
  BY DEF StartFails, ReleaseLease, Die, Advance, Forget
<1>2. Release(r)
  BY DEF StartFails, ReleaseLease, Die
<1>3. ~armed'[r] /\ (\A p \in Process \ {r} : armed'[p] = armed[p])
      /\ armed' \in [Process -> BOOLEAN] /\ entryFlag' \in [Process -> BOOLEAN]
  BY DEF LeaseInv, LeaseTypeOK, ArmedServes, StartFails, ReleaseLease, Die,
         Advance, Disarm
<1>4. LeaseTypeOK'
  BY <1>1, <1>2, <1>3 DEF LeaseInv, LeaseTypeOK, Release, Phase, StartPhase, Mode
<1>5. HoldsDatabase'
  BY <1>1, <1>2 DEF LeaseInv, LeaseTypeOK, HoldsDatabase, Release
<1>6. HoldsAccount'
  <2> SUFFICES ASSUME NEW p \in Process,
                      \/ phase'[p] \in {"scoped", "set"}
                      \/ phase'[p] = "serving" /\ mode'[p] # "simulation"
               PROVE  accountLock'[AccountScope(mode'[p])] = p
    BY DEF HoldsAccount
  <2>1. p # r
    BY <1>1 DEF LeaseInv, LeaseTypeOK
  <2>2. accountLock[AccountScope(mode[p])] = p /\ mode'[p] = mode[p]
    BY <1>1, <2>1 DEF LeaseInv, LeaseTypeOK, HoldsAccount
  <2>3. AccountScope(mode[p]) \in Scope
    BY DEF AccountScope, Scope
  <2> QED
    BY <1>2, <2>1, <2>2, <2>3 DEF Release
<1>7. ArmedServes'
  BY <1>1, <1>3 DEF LeaseInv, LeaseTypeOK, ArmedServes
<1> QED
  BY <1>4, <1>5, <1>6, <1>7 DEF LeaseInv

\* The threads of a process leave its lease alone and keep the types of the
\* switches they write.
LEMMA ThreadsKeepLease ==
  ASSUME LeaseInv, UNCHANGED lease, LeaseTypeOK'
  PROVE  LeaseInv'
  BY DEF LeaseInv, lease, HoldsDatabase, HoldsAccount, ArmedServes

LEMMA EnteringKeepsLease ==
  ASSUME LeaseInv, NEW r \in Process, Entering(r)
  PROVE  LeaseInv'
<1>1. UNCHANGED lease
  BY DEF Entering, OpenManually, Reconcile, MatchStrategy, EnterLock, Approve,
         Blocked, CheckFlags, Accept, NoAnswer, Verify, VerifyFails,
         CloseRowAfterFailure, CloseFlagAfterFailure, Record, lease, leaseVars
<1>2. limits' = limits
  BY DEF Entering, OpenManually, Reconcile, MatchStrategy, EnterLock, Approve,
         Blocked, CheckFlags, Accept, NoAnswer, Verify, VerifyFails,
         CloseRowAfterFailure, CloseFlagAfterFailure, Record, gate, leaseVars
<1>3. /\ entryFlag' \in {entryFlag, [entryFlag EXCEPT ![r] = FALSE]}
      /\ entriesRow' \in {entriesRow, [entriesRow EXCEPT ![database[r]] = FALSE]}
  BY DEF Entering, OpenManually, Reconcile, MatchStrategy, EnterLock, Approve,
         Blocked, CheckFlags, Accept, NoAnswer, Verify, VerifyFails,
         CloseRowAfterFailure, CloseFlagAfterFailure, Record, gate, leaseVars,
         SetFlag, SetRow
<1>4. LeaseTypeOK'
  BY <1>1, <1>2, <1>3 DEF LeaseInv, LeaseTypeOK, lease
<1> QED
  BY <1>1, <1>4, ThreadsKeepLease

LEMMA CommandingKeepsLease ==
  ASSUME LeaseInv, NEW r \in Process, Commanding(r)
  PROVE  LeaseInv'
<1>1. UNCHANGED lease
  BY DEF Commanding, BeginEnable, EnableFlag, EnableRow, EnableRowFails,
         UndoFlag, UndoRow, BeginKill, KillFlag, KillRow, KillCancel,
         KillReturns, PutLimits, lease
<1>2. limits' \in {limits} \cup {[limits EXCEPT ![database[r]] = l] :
                                    l \in {"disabled"} \cup Version}
  BY DEF Commanding, BeginEnable, EnableFlag, EnableRow, EnableRowFails,
         UndoFlag, UndoRow, BeginKill, KillFlag, KillRow, KillCancel,
         KillReturns, PutLimits, gate
<1>3. /\ entryFlag' \in {entryFlag} \cup
             {[entryFlag EXCEPT ![r] = b] : b \in BOOLEAN}
      /\ entriesRow' \in {entriesRow} \cup
             {[entriesRow EXCEPT ![database[r]] = b] : b \in BOOLEAN}
  BY DEF Commanding, BeginEnable, EnableFlag, EnableRow, EnableRowFails,
         UndoFlag, UndoRow, BeginKill, KillFlag, KillRow, KillCancel,
         KillReturns, PutLimits, gate, SetFlag, SetRow
<1>4. LeaseTypeOK'
  BY <1>1, <1>2, <1>3 DEF LeaseInv, LeaseTypeOK, lease
<1> QED
  BY <1>1, <1>4, ThreadsKeepLease

LEMMA ClosingKeepsLease ==
  ASSUME LeaseInv, NEW r \in Process, Closing(r)
  PROVE  LeaseInv'
<1>1. UNCHANGED <<lease, limits>>
  BY DEF Closing, BeginDisable, DisableRow, DisableFlag, BeginFailAmend,
         FailAmendFlag, FailAmendRow, lease, gate
<1>2. /\ entryFlag' \in {entryFlag, [entryFlag EXCEPT ![r] = FALSE]}
      /\ entriesRow' \in {entriesRow, [entriesRow EXCEPT ![database[r]] = FALSE]}
  BY DEF Closing, BeginDisable, DisableRow, DisableFlag, BeginFailAmend,
         FailAmendFlag, FailAmendRow, gate, SetFlag, SetRow
<1>3. LeaseTypeOK'
  BY <1>1, <1>2 DEF LeaseInv, LeaseTypeOK, lease
<1> QED
  BY <1>1, <1>3, ThreadsKeepLease

LEMMA StepKeepsLease == LeaseInv /\ [Next]_vars => LeaseInv'
<1> SUFFICES ASSUME LeaseInv, [Next]_vars
             PROVE  LeaseInv'
  OBVIOUS
<1>1. ASSUME NEW r \in Process, Starting(r)
      PROVE  LeaseInv'
  BY <1>1, StartKeepsLease, AcquireKeepsLease, GateAndPreflightKeepLease,
     BindKeepsLease, SetupKeepsLease, ArmKeepsLease, ReleaseKeepsLease
     DEF Starting, StartStep
<1>2. ASSUME NEW r \in Process, Stopping(r)
      PROVE  LeaseInv'
  BY <1>2, TeardownKeepsLease, ReleaseKeepsLease DEF Stopping
<1>3. ASSUME NEW r \in Active, Entering(r) \/ Commanding(r) \/ Closing(r)
      PROVE  LeaseInv'
  BY <1>3, ActiveAssumption, EnteringKeepsLease, CommandingKeepsLease,
     ClosingKeepsLease
<1>4. ASSUME NEW u \in Unit, FillOrKill(u)
      PROVE  LeaseInv'
  BY <1>4 DEF FillOrKill, leaseVars, LeaseInv, LeaseTypeOK, HoldsDatabase,
              HoldsAccount, ArmedServes
<1>5. CASE UNCHANGED vars
  BY <1>5 DEF vars, leaseVars, LeaseInv, LeaseTypeOK, HoldsDatabase,
              HoldsAccount, ArmedServes
<1> QED
  BY <1>1, <1>2, <1>3, <1>4, <1>5 DEF Next

(***************************************************************************)
(* At most one process is armed for an account, and at most one on a       *)
(* database (RuntimeLease.acquire and bind_account_scope, arming after     *)
(* them and disarming before release), however many processes start, fail, *)
(* stop and die, and whatever their threads do.                            *)
(***************************************************************************)
THEOREM ArmingIsExclusive == Spec => []ArmedIsExclusive
<1>1. Init => LeaseInv
  BY LeaseInvInit
<1>2. LeaseInv /\ [Next]_vars => LeaseInv'
  BY StepKeepsLease
<1>3. LeaseInv => ArmedIsExclusive
  BY LeaseInvExcludes
<1> QED
  BY <1>1, <1>2, <1>3, PTL DEF Spec

-----------------------------------------------------------------------------
(***************************************************************************)
(* The gate.  A thread at one of these labels holds ENTRY_EXECUTION_LOCK.  *)
(***************************************************************************)
LockedPc == {"approving", "sending", "placing", "verifying", "recording",
             "failRow", "failFlag", "enableFlag", "enableRow", "undoFlag",
             "undoRow", "killFlag", "killRow", "killCancel", "amendFlag",
             "amendRow"}

LockHeld ==
    \A p \in Process, t \in Thread : pc[p][t] \in LockedPc => holder[p] = t

\* Only the threads of a serving process are anywhere.
ThreadsServe ==
    \A p \in Process, t \in Thread : pc[p][t] # "idle" => phase[p] = "serving"

\* Between the flag's closing and the end of the command that closes it, and
\* from then on until an enabling, the flag is down.
FlagDown ==
    \A p \in Process :
        \/ shut[p]
        \/ pc[p]["operator"] \in {"undoRow", "killRow", "killCancel"}
        \/ pc[p]["daemon"] = "amendRow"
        => ~entryFlag[p]

\* A kill leaves no entry past its check of the flag.
KillShuts ==
    \A p \in Process :
        killed[p] => /\ shut[p]
                     /\ \A t \in EntryThread : pc[p][t] # "placing"

\* The limits of an approval in use are those of the database.
ApprovalCurrent ==
    \A p \in Process, t \in EntryThread :
        pc[p][t] \in {"sending", "placing"} => approved[p] = limits[database[p]]

\* A unit has one opener, who has saved it.
OneOpener ==
    \A p, q \in Process, t, s \in EntryThread :
        entering[p][t] \in Unit /\ entering[p][t] = entering[q][s]
            => p = q /\ t = s

OpenerSaves ==
    \A p \in Process, t \in EntryThread :
        entering[p][t] \in Unit => unit[entering[p][t]].status # "none"

GateInv ==
    /\ TypeOK /\ LeaseInv
    /\ LockHeld /\ ThreadsServe /\ FlagDown /\ KillShuts
    /\ ApprovalCurrent /\ OneOpener /\ OpenerSaves

-----------------------------------------------------------------------------
\* Thread t of r goes to label and takes, keeps or leaves the lock.
Moves(r, t, label) ==
    /\ phase[r] = "serving"
    /\ Goto(r, t, label)
    /\ \/ Lock(r, t)
       \/ UNCHANGED holder /\ (label \in LockedPc => pc[r][t] \in LockedPc)
       \/ Unlock(r) /\ pc[r][t] \in LockedPc /\ label \notin LockedPc

LEMMA MoveEffect ==
  ASSUME GateInv, UNCHANGED lease,
         NEW r \in Process, NEW t \in Thread, NEW label \in Pc,
         Moves(r, t, label)
  PROVE  /\ pc' \in [Process -> [Thread -> Pc]]
         /\ \A q \in Process, s \in Thread :
               pc'[q][s] = IF q = r /\ s = t THEN label ELSE pc[q][s]
         /\ holder' \in [Process -> Thread \cup {Nobody}]
         /\ LockHeld' /\ ThreadsServe'
<1>1. /\ pc' \in [Process -> [Thread -> Pc]]
      /\ \A q \in Process, s \in Thread :
            pc'[q][s] = IF q = r /\ s = t THEN label ELSE pc[q][s]
  BY DEF GateInv, TypeOK, Moves, Goto
<1>2. holder' \in [Process -> Thread \cup {Nobody}]
  BY DEF GateInv, TypeOK, Moves, Lock, Unlock
<1>3. LockHeld'
  <2>1. CASE Lock(r, t)
    BY <1>1, <2>1, UnitAssumption DEF GateInv, TypeOK, LockHeld, Lock, Thread
  <2>2. CASE UNCHANGED holder /\ (label \in LockedPc => pc[r][t] \in LockedPc)
    BY <1>1, <2>2 DEF GateInv, LockHeld
  <2>3. CASE Unlock(r) /\ pc[r][t] \in LockedPc /\ label \notin LockedPc
    BY <1>1, <2>3 DEF GateInv, TypeOK, LockHeld, Unlock
  <2> QED
    BY <2>1, <2>2, <2>3 DEF Moves
<1>4. ThreadsServe'
  BY <1>1 DEF GateInv, ThreadsServe, lease, Moves
<1> QED
  BY <1>1, <1>2, <1>3, <1>4

\* A step that at most closes the gate: most of the operator's and the
\* services' steps, and the ones of an entry that leave its unit alone.
LEMMA ClosingStep ==
  ASSUME GateInv,
         NEW r \in Process, NEW t \in Thread, NEW label \in Pc,
         Moves(r, t, label), label \notin {"sending", "placing"},
         UNCHANGED <<lease, limits, entering, approved, unit, killed>>,
         order' \in [Unit -> OrderState],
         entryFlag' \in {entryFlag, [entryFlag EXCEPT ![r] = FALSE]},
         entriesRow' \in {entriesRow, [entriesRow EXCEPT ![database[r]] = FALSE],
                         [entriesRow EXCEPT ![database[r]] = TRUE]},
         shut' \in {shut, [shut EXCEPT ![r] = TRUE]},
         toCancel' \in [Process -> SUBSET Unit],
         unresolved' \in [Process -> BOOLEAN],
         shut' = shut \/ ~entryFlag'[r],
         label \in {"undoRow", "killRow", "killCancel", "amendRow"}
             => ~entryFlag'[r]
  PROVE  GateInv'
<1>1. /\ pc' \in [Process -> [Thread -> Pc]]
      /\ \A q \in Process, s \in Thread :
            pc'[q][s] = IF q = r /\ s = t THEN label ELSE pc[q][s]
      /\ holder' \in [Process -> Thread \cup {Nobody}]
      /\ LockHeld' /\ ThreadsServe'
  BY MoveEffect
<1>2. TypeOK'
  <2>1. entryFlag' \in [Process -> BOOLEAN] /\ shut' \in [Process -> BOOLEAN]
    BY DEF GateInv, TypeOK, LeaseTypeOK
  <2>2. entriesRow' \in [Database -> BOOLEAN]
    BY DEF GateInv, TypeOK, LeaseTypeOK
  <2>3. LeaseTypeOK'
    BY <2>1, <2>2 DEF GateInv, TypeOK, LeaseTypeOK, lease
  <2> QED
    BY <1>1, <2>1, <2>3 DEF GateInv, TypeOK
<1>3. LeaseInv'
  BY <1>2, ThreadsKeepLease DEF GateInv, TypeOK
<1>4. FlagDown'
  <2> SUFFICES ASSUME NEW p \in Process,
                      \/ shut'[p]
                      \/ pc'[p]["operator"] \in {"undoRow", "killRow", "killCancel"}
                      \/ pc'[p]["daemon"] = "amendRow"
               PROVE  ~entryFlag'[p]
    BY DEF FlagDown
  <2>1. CASE p # r
    BY <1>1, <2>1 DEF GateInv, TypeOK, LeaseTypeOK, FlagDown, Thread
  <2>2. CASE p = r
    BY <1>1, <2>2 DEF GateInv, TypeOK, LeaseTypeOK, FlagDown, Thread
  <2> QED
    BY <2>1, <2>2
<1>5. KillShuts'
  BY <1>1 DEF GateInv, TypeOK, KillShuts, Thread, EntryThread
<1>6. ApprovalCurrent'
  BY <1>1 DEF GateInv, ApprovalCurrent, lease, Thread, EntryThread
<1>7. OneOpener' /\ OpenerSaves'
  BY DEF GateInv, OneOpener, OpenerSaves
<1> QED
  BY <1>1, <1>2, <1>3, <1>4, <1>5, <1>6, <1>7 DEF GateInv

-----------------------------------------------------------------------------
(***************************************************************************)
(* The daemon's services.                                                  *)
(***************************************************************************)
LEMMA ClosingKeepsGate ==
  ASSUME GateInv, NEW r \in Process, Closing(r)
  PROVE  GateInv'
<1> USE DEF At, Moves, gate, entries, killing, Pc, EntryPc, GatePc, LockedPc, Thread
<1>0. /\ "daemon" \in Thread
      /\ \A l \in {"disableRow", "disableFlag", "idle", "amendFlag", "amendRow"} :
            l \in Pc
  OBVIOUS
<1>T. /\ toCancel \in [Process -> SUBSET Unit] /\ unresolved \in [Process -> BOOLEAN]
      /\ entryFlag \in [Process -> BOOLEAN] /\ order \in [Unit -> OrderState]
  BY DEF GateInv, TypeOK, LeaseTypeOK
<1>1. CASE BeginDisable(r)
  BY <1>0, <1>T, <1>1, ClosingStep DEF BeginDisable
<1>2. CASE DisableRow(r)
  BY <1>0, <1>T, <1>2, ClosingStep DEF DisableRow, SetRow
<1>3. CASE DisableFlag(r)
  BY <1>0, <1>T, <1>3, ClosingStep DEF DisableFlag, SetFlag, Shut
<1>4. CASE BeginFailAmend(r)
  BY <1>0, <1>T, <1>4, ClosingStep DEF BeginFailAmend
<1>5. CASE FailAmendFlag(r)
  BY <1>0, <1>T, <1>5, ClosingStep DEF FailAmendFlag, SetFlag
<1>6. CASE FailAmendRow(r)
  <2>1. ~entryFlag[r]
    BY <1>6 DEF FailAmendRow, GateInv, FlagDown
  <2> QED
    BY <1>0, <1>T, <1>6, <2>1, ClosingStep DEF FailAmendRow, SetRow, Shut
<1> QED
  BY <1>1, <1>2, <1>3, <1>4, <1>5, <1>6 DEF Closing

-----------------------------------------------------------------------------
(***************************************************************************)
(* The operator's commands.                                                *)
(***************************************************************************)

\* The lock keeps the daemon's amendRow away while the flag is raised.
LEMMA EnableFlagKeepsGate ==
  ASSUME GateInv, NEW r \in Process, EnableFlag(r), armed[r]
  PROVE  GateInv'
<1>1. /\ pc[r]["operator"] = "enableFlag" /\ Moves(r, "operator", "enableRow")
      /\ entryFlag' = [entryFlag EXCEPT ![r] = TRUE]
      /\ shut' = [shut EXCEPT ![r] = FALSE]
      /\ killed' = [killed EXCEPT ![r] = FALSE]
      /\ UNCHANGED <<lease, entriesRow, limits, entries, toCancel, unresolved>>
  BY DEF EnableFlag, At, Moves, SetFlag, Opening, LockedPc
<1>2. /\ pc' \in [Process -> [Thread -> Pc]]
      /\ \A q \in Process, s \in Thread :
            pc'[q][s] = IF q = r /\ s = "operator" THEN "enableRow" ELSE pc[q][s]
      /\ holder' \in [Process -> Thread \cup {Nobody}]
      /\ LockHeld' /\ ThreadsServe'
  BY <1>1, MoveEffect DEF Thread, Pc, GatePc
<1>3. TypeOK'
  <2>1. LeaseTypeOK'
    BY <1>1 DEF GateInv, TypeOK, LeaseTypeOK, lease
  <2> QED
    BY <1>1, <1>2, <2>1 DEF GateInv, TypeOK, entries
<1>4. LeaseInv'
  BY <1>1, <1>3, ThreadsKeepLease DEF GateInv, TypeOK
<1>5. FlagDown'
  <2>1. pc[r]["daemon"] # "amendRow"
    BY <1>1 DEF GateInv, LockHeld, LockedPc, Thread
  <2> QED
    BY <1>1, <1>2, <2>1 DEF GateInv, TypeOK, LeaseTypeOK, FlagDown, Thread
<1>6. KillShuts'
  BY <1>1, <1>2 DEF GateInv, TypeOK, KillShuts, Thread, EntryThread
<1>7. ApprovalCurrent'
  BY <1>1, <1>2 DEF GateInv, ApprovalCurrent, entries, lease, Thread, EntryThread
<1>8. OneOpener' /\ OpenerSaves'
  BY <1>1 DEF GateInv, OneOpener, OpenerSaves, entries
<1> QED
  BY <1>2, <1>3, <1>4, <1>5, <1>6, <1>7, <1>8 DEF GateInv

\* The kill has waited for the lock, so no entry is past its check.
LEMMA KillReturnsKeepsGate ==
  ASSUME GateInv, NEW r \in Process, KillReturns(r)
  PROVE  GateInv'
<1>1. /\ pc[r]["operator"] = "killCancel" /\ Moves(r, "operator", "idle")
      /\ shut' = [shut EXCEPT ![r] = TRUE]
      /\ killed' = [killed EXCEPT ![r] = TRUE]
      /\ unresolved' = [unresolved EXCEPT ![r] = FALSE]
      /\ UNCHANGED <<lease, entryFlag, entriesRow, limits, entries, toCancel>>
  BY DEF KillReturns, At, Moves, Shut, LockedPc, gate
<1>2. /\ pc' \in [Process -> [Thread -> Pc]]
      /\ \A q \in Process, s \in Thread :
            pc'[q][s] = IF q = r /\ s = "operator" THEN "idle" ELSE pc[q][s]
      /\ holder' \in [Process -> Thread \cup {Nobody}]
      /\ LockHeld' /\ ThreadsServe'
  BY <1>1, MoveEffect DEF Thread, Pc
<1>3. TypeOK'
  <2>1. LeaseTypeOK'
    BY <1>1 DEF GateInv, TypeOK, LeaseTypeOK, lease
  <2> QED
    BY <1>1, <1>2, <2>1 DEF GateInv, TypeOK, entries
<1>4. LeaseInv'
  BY <1>1, <1>3, ThreadsKeepLease DEF GateInv, TypeOK
<1>5. FlagDown'
  BY <1>1, <1>2 DEF GateInv, TypeOK, LeaseTypeOK, FlagDown, Thread
<1>6. KillShuts'
  <2>1. \A t \in EntryThread : pc[r][t] # "placing"
    BY <1>1 DEF GateInv, LockHeld, LockedPc, Thread, EntryThread
  <2> QED
    BY <1>1, <1>2, <2>1 DEF GateInv, TypeOK, KillShuts, Thread, EntryThread
<1>7. ApprovalCurrent'
  BY <1>1, <1>2 DEF GateInv, ApprovalCurrent, entries, lease, Thread, EntryThread
<1>8. OneOpener' /\ OpenerSaves'
  BY <1>1 DEF GateInv, OneOpener, OpenerSaves, entries
<1> QED
  BY <1>2, <1>3, <1>4, <1>5, <1>6, <1>7, <1>8 DEF GateInv

\* The kill marks a row; its status stays.
LEMMA KillCancelKeepsGate ==
  ASSUME GateInv, NEW r \in Process, KillCancel(r)
  PROVE  GateInv'
<1>1. UNCHANGED <<leaseVars, pc, holder, entering, approved, order, killed, shut>>
  BY DEF KillCancel, lease, gate, leaseVars
<1>2. toCancel' \in [Process -> SUBSET Unit]
  BY DEF KillCancel, GateInv, TypeOK
<1>3. PICK u \in Unit : CancelsEntry(r, u)
  BY DEF KillCancel, GateInv, TypeOK
<1>4. unresolved' \in [Process -> BOOLEAN]
  BY <1>3 DEF CancelsEntry, GateInv, TypeOK
<1>5. /\ unit' \in [Unit -> UnitRow]
      /\ \A v \in Unit : unit'[v].status = unit[v].status
  <2>1. unit \in [Unit -> UnitRow]
    BY DEF GateInv, TypeOK
  <2>2. CASE unit' = unit
    BY <2>1, <2>2
  <2>3. CASE unit' = [unit EXCEPT ![u].linked = TRUE, ![u].cancelRequested = TRUE]
    BY <2>1, <2>3 DEF UnitRow
  <2>4. CASE unit' = [unit EXCEPT ![u].linked = unit[u].linked \/ order[u] = "live"]
    <3> DEFINE b == unit[u].linked \/ order[u] = "live"
    <3>1. b \in BOOLEAN /\ unit' = [unit EXCEPT ![u].linked = b]
      BY <2>1, <2>4
    <3> HIDE DEF b
    <3> QED
      BY <2>1, <3>1 DEF UnitRow
  <2> QED
    BY <1>3, <2>2, <2>3, <2>4 DEF CancelsEntry
<1>6. TypeOK'
  BY <1>1, <1>2, <1>4, <1>5 DEF GateInv, TypeOK, LeaseTypeOK, leaseVars
<1>7. LeaseInv'
  BY <1>1, <1>6, ThreadsKeepLease DEF GateInv, TypeOK, leaseVars, lease
<1>8. LockHeld' /\ ThreadsServe' /\ FlagDown' /\ KillShuts' /\ ApprovalCurrent'
  BY <1>1 DEF GateInv, LockHeld, ThreadsServe, FlagDown, KillShuts,
              ApprovalCurrent, leaseVars
<1>9. OneOpener' /\ OpenerSaves'
  BY <1>1, <1>5 DEF GateInv, OneOpener, OpenerSaves
<1> QED
  BY <1>6, <1>7, <1>8, <1>9 DEF GateInv

\* Nobody of this process holds the lock, and no other process has this
\* database: no approval is in use.
LEMMA PutLimitsKeepsGate ==
  ASSUME GateInv, NEW r \in Process, PutLimits(r)
  PROVE  GateInv'
<1>1. /\ phase[r] = "serving" /\ holder[r] = Nobody
      /\ UNCHANGED <<lease, entryFlag, entriesRow, threadVars>>
  BY DEF PutLimits, At
<1>2. PICK l \in {"disabled"} \cup Version :
          limits' = [limits EXCEPT ![database[r]] = l]
  BY DEF PutLimits
<1>3. LeaseTypeOK'
  BY <1>1, <1>2 DEF GateInv, TypeOK, LeaseTypeOK, lease
<1>4. TypeOK'
  BY <1>1, <1>3 DEF GateInv, TypeOK, threadVars
<1>5. LeaseInv'
  BY <1>1, <1>3, ThreadsKeepLease DEF GateInv
<1>6. ApprovalCurrent'
  <2> SUFFICES ASSUME NEW p \in Process, NEW t \in EntryThread,
                      pc[p][t] \in {"sending", "placing"}
               PROVE  approved[p] = limits'[database[p]]
    BY <1>1 DEF ApprovalCurrent, lease, threadVars
  <2>1. t \in Thread /\ phase[p] = "serving" /\ holder[p] = t
    BY DEF GateInv, ThreadsServe, LockHeld, LockedPc, Thread, EntryThread
  <2>2. p # r
    BY <1>1, <2>1, UnitAssumption DEF Thread
  <2>3. database[p] # database[r]
    BY <1>1, <2>1, <2>2 DEF GateInv, LeaseInv, HoldsDatabase
  <2>4. limits'[database[p]] = limits[database[p]]
    BY <1>2, <2>3 DEF GateInv, TypeOK, LeaseTypeOK
  <2> QED
    BY <2>4 DEF GateInv, ApprovalCurrent
<1>7. /\ LockHeld' /\ ThreadsServe' /\ FlagDown' /\ KillShuts'
      /\ OneOpener' /\ OpenerSaves'
  BY <1>1 DEF GateInv, LockHeld, ThreadsServe, FlagDown, KillShuts, OneOpener,
              OpenerSaves, lease, threadVars
<1> QED
  BY <1>4, <1>5, <1>6, <1>7 DEF GateInv

LEMMA CommandingKeepsGate ==
  ASSUME GateInv, NEW r \in Process, Commanding(r)
  PROVE  GateInv'
<1> USE DEF At, Moves, gate, entries, killing, Pc, EntryPc, GatePc, LockedPc, Thread
<1>0. /\ "operator" \in Thread
      /\ \A l \in GatePc \cup {"idle"} : l \in Pc
  OBVIOUS
<1>T. /\ toCancel \in [Process -> SUBSET Unit] /\ unresolved \in [Process -> BOOLEAN]
      /\ entryFlag \in [Process -> BOOLEAN] /\ order \in [Unit -> OrderState]
  BY DEF GateInv, TypeOK, LeaseTypeOK
<1>1. CASE BeginEnable(r)
  BY <1>0, <1>T, <1>1, ClosingStep DEF BeginEnable
<1>2. CASE EnableFlag(r)
  <2>1. CASE armed[r]
    BY <1>2, <2>1, EnableFlagKeepsGate
  <2>2. CASE ~armed[r]
    BY <1>0, <1>T, <1>2, <2>2, ClosingStep DEF EnableFlag
  <2> QED
    BY <2>1, <2>2
<1>3. CASE EnableRow(r)
  BY <1>0, <1>T, <1>3, ClosingStep DEF EnableRow, SetRow
<1>4. CASE EnableRowFails(r)
  BY <1>0, <1>T, <1>4, ClosingStep DEF EnableRowFails, SetRow
<1>5. CASE UndoFlag(r)
  BY <1>0, <1>T, <1>5, ClosingStep DEF UndoFlag, SetFlag
<1>6. CASE UndoRow(r)
  <2>1. ~entryFlag[r]
    BY <1>6 DEF UndoRow, GateInv, FlagDown
  <2> QED
    BY <1>0, <1>T, <1>6, <2>1, ClosingStep DEF UndoRow, SetRow, Shut
<1>7. CASE BeginKill(r)
  BY <1>0, <1>T, <1>7, ClosingStep DEF BeginKill
<1>8. CASE KillFlag(r)
  BY <1>0, <1>T, <1>8, ClosingStep DEF KillFlag, SetFlag
<1>9. CASE KillRow(r)
  <2>1. ~entryFlag[r]
    BY <1>9 DEF KillRow, GateInv, FlagDown
  <2>2. /\ toCancel' \in [Process -> SUBSET Unit]
        /\ unresolved' \in [Process -> BOOLEAN]
    BY <1>9, <1>T DEF KillRow
  <2> QED
    BY <1>0, <1>T, <1>9, <2>1, <2>2, ClosingStep DEF KillRow, SetRow
<1>10. CASE KillCancel(r)
  BY <1>10, KillCancelKeepsGate
<1>11. CASE KillReturns(r)
  BY <1>11, KillReturnsKeepsGate
<1>12. CASE PutLimits(r)
  BY <1>12, PutLimitsKeepsGate
<1> QED
  BY <1>1, <1>2, <1>3, <1>4, <1>5, <1>6, <1>7, <1>8, <1>9, <1>10, <1>11, <1>12
     DEF Commanding

-----------------------------------------------------------------------------
(***************************************************************************)
(* Entries.                                                                *)
(***************************************************************************)

\* A fresh unit is nobody's, so the one who saves it is its only opener.
LEMMA SaveOpens ==
  ASSUME GateInv, NEW r \in Process, NEW t \in EntryThread, NEW u \in Unit,
         Fresh(u), Save(r, u), entering' = [entering EXCEPT ![r][t] = u]
  PROVE  /\ unit' \in [Unit -> UnitRow]
         /\ entering' \in [Process -> [EntryThread -> Unit \cup {NoUnit}]]
         /\ OneOpener' /\ OpenerSaves'
<1>1. /\ unit \in [Unit -> UnitRow]
      /\ entering \in [Process -> [EntryThread -> Unit \cup {NoUnit}]]
      /\ database[r] \in Database
  BY DEF GateInv, TypeOK, LeaseTypeOK
<1>2. /\ unit' \in [Unit -> UnitRow]
      /\ unit'[u].status = "pending_open"
      /\ \A v \in Unit \ {u} : unit'[v] = unit[v]
  BY <1>1 DEF Save, UnitRow
<1>3. /\ entering' \in [Process -> [EntryThread -> Unit \cup {NoUnit}]]
      /\ \A q \in Process, s \in EntryThread :
            entering'[q][s] = IF q = r /\ s = t THEN u ELSE entering[q][s]
  BY <1>1
<1>4. \A q \in Process, s \in EntryThread : entering[q][s] # u
  BY DEF GateInv, OpenerSaves, Fresh
<1>5. OneOpener'
  BY <1>3, <1>4 DEF GateInv, OneOpener
<1>6. OpenerSaves'
  BY <1>2, <1>3, <1>4 DEF GateInv, OpenerSaves
<1> QED
  BY <1>2, <1>3, <1>5, <1>6

LEMMA OpenManuallyKeepsGate ==
  ASSUME GateInv, NEW r \in Process, NEW u \in Unit, OpenManually(r, u)
  PROVE  GateInv'
<1>1. /\ Moves(r, "manual", "waiting") /\ Fresh(u) /\ Save(r, u)
      /\ entering' = [entering EXCEPT ![r]["manual"] = u]
      /\ UNCHANGED <<lease, gate, approved, order, killing, shut>>
  BY DEF OpenManually, At, Moves, LockedPc
<1>2. /\ pc' \in [Process -> [Thread -> Pc]]
      /\ \A q \in Process, s \in Thread :
            pc'[q][s] = IF q = r /\ s = "manual" THEN "waiting" ELSE pc[q][s]
      /\ holder' \in [Process -> Thread \cup {Nobody}]
      /\ LockHeld' /\ ThreadsServe'
  BY <1>1, MoveEffect DEF Thread, Pc, EntryPc
<1>3. /\ unit' \in [Unit -> UnitRow]
      /\ entering' \in [Process -> [EntryThread -> Unit \cup {NoUnit}]]
      /\ OneOpener' /\ OpenerSaves'
  BY <1>1, SaveOpens DEF EntryThread
<1>4. TypeOK'
  <2>1. LeaseTypeOK'
    BY <1>1 DEF GateInv, TypeOK, LeaseTypeOK, lease, gate
  <2> QED
    BY <1>1, <1>2, <1>3, <2>1 DEF GateInv, TypeOK, killing
<1>5. LeaseInv'
  BY <1>1, <1>4, ThreadsKeepLease DEF GateInv, TypeOK
<1>6. FlagDown' /\ KillShuts'
  BY <1>1, <1>2 DEF GateInv, FlagDown, KillShuts, gate, killing, Thread, EntryThread
<1>7. ApprovalCurrent'
  BY <1>1, <1>2 DEF GateInv, ApprovalCurrent, gate, lease, Thread, EntryThread
<1> QED
  BY <1>2, <1>3, <1>4, <1>5, <1>6, <1>7 DEF GateInv

\* The approval is read from the limits in force, under the lock.
LEMMA ApproveKeepsGate ==
  ASSUME GateInv, NEW r \in Process, NEW t \in EntryThread, Approve(r, t)
  PROVE  GateInv'
<1>1. /\ pc[r][t] = "approving" /\ Moves(r, t, "sending")
      /\ limits[database[r]] \in Version
      /\ approved' = [approved EXCEPT ![r] = limits[database[r]]]
      /\ UNCHANGED <<lease, gate, order, killing, shut>>
  BY DEF Approve, MayApprove, At, Moves, LockedPc
<1>2. /\ pc' \in [Process -> [Thread -> Pc]]
      /\ \A q \in Process, s \in Thread :
            pc'[q][s] = IF q = r /\ s = t THEN "sending" ELSE pc[q][s]
      /\ holder' \in [Process -> Thread \cup {Nobody}]
      /\ LockHeld' /\ ThreadsServe'
  BY <1>1, MoveEffect DEF Thread, EntryThread, Pc, EntryPc
<1>3. /\ unit' \in [Unit -> UnitRow]
      /\ entering' \in [Process -> [EntryThread -> Unit \cup {NoUnit}]]
      /\ OneOpener' /\ OpenerSaves'
  <2>1. CASE t = "daemon"
    BY <2>1, SaveOpens DEF Approve
  <2>2. CASE t # "daemon"
    BY <2>2 DEF Approve, GateInv, TypeOK, OneOpener, OpenerSaves
  <2> QED
    BY <2>1, <2>2
<1>4. TypeOK'
  <2>1. LeaseTypeOK'
    BY <1>1 DEF GateInv, TypeOK, LeaseTypeOK, lease, gate
  <2> QED
    BY <1>1, <1>2, <1>3, <2>1 DEF GateInv, TypeOK, killing
<1>5. LeaseInv'
  BY <1>1, <1>4, ThreadsKeepLease DEF GateInv, TypeOK
<1>6. FlagDown' /\ KillShuts'
  BY <1>1, <1>2 DEF GateInv, FlagDown, KillShuts, gate, killing, Thread, EntryThread
<1>7. ApprovalCurrent'
  <2>1. \A s \in EntryThread : pc[r][s] \in {"sending", "placing"} => s = t
    BY <1>1 DEF GateInv, LockHeld, LockedPc, Thread, EntryThread
  <2> QED
    BY <1>1, <1>2, <2>1
    DEF GateInv, TypeOK, ApprovalCurrent, gate, lease, Thread, EntryThread
<1> QED
  BY <1>2, <1>3, <1>4, <1>5, <1>6, <1>7 DEF GateInv

\* An entry given up: its unit is nobody's again.
LEMMA AbandonKeepsGate ==
  ASSUME GateInv, NEW r \in Process, NEW t \in EntryThread,
         phase[r] = "serving", pc[r][t] \in LockedPc, Abandon(r, t),
         order' \in [Unit -> OrderState],
         UNCHANGED <<lease, gate, approved, killing, shut>>
  PROVE  GateInv'
<1>1. Moves(r, t, "idle")
  BY DEF Abandon, Moves, LockedPc
<1>2. /\ pc' \in [Process -> [Thread -> Pc]]
      /\ \A q \in Process, s \in Thread :
            pc'[q][s] = IF q = r /\ s = t THEN "idle" ELSE pc[q][s]
      /\ holder' \in [Process -> Thread \cup {Nobody}]
      /\ LockHeld' /\ ThreadsServe'
  BY <1>1, MoveEffect DEF Thread, EntryThread, Pc
<1>3. /\ entering' \in [Process -> [EntryThread -> Unit \cup {NoUnit}]]
      /\ \A q \in Process, s \in EntryThread :
            entering'[q][s] = IF q = r /\ s = t THEN NoUnit ELSE entering[q][s]
  BY DEF GateInv, TypeOK, Abandon
<1>4. /\ unit' \in [Unit -> UnitRow]
      /\ \A u \in Unit : unit[u].status # "none" => unit'[u].status # "none"
  BY DEF GateInv, TypeOK, Abandon, UnitRow
<1>5. TypeOK'
  <2>1. LeaseTypeOK'
    BY DEF GateInv, TypeOK, LeaseTypeOK, lease, gate
  <2> QED
    BY <1>2, <1>3, <1>4, <2>1 DEF GateInv, TypeOK, killing
<1>6. LeaseInv'
  BY <1>5, ThreadsKeepLease DEF GateInv, TypeOK
<1>7. FlagDown' /\ KillShuts'
  BY <1>2 DEF GateInv, FlagDown, KillShuts, gate, killing, Thread, EntryThread
<1>8. ApprovalCurrent'
  BY <1>2 DEF GateInv, ApprovalCurrent, gate, lease, Thread, EntryThread
<1>9. OneOpener' /\ OpenerSaves'
  BY <1>3, <1>4, UnitAssumption DEF GateInv, OneOpener, OpenerSaves, NoUnit
<1> QED
  BY <1>2, <1>5, <1>6, <1>7, <1>8, <1>9 DEF GateInv

\* Past the check of the flags there was no kill.
LEMMA CheckFlagsKeepsGate ==
  ASSUME GateInv, NEW r \in Process, NEW t \in EntryThread, CheckFlags(r, t)
  PROVE  GateInv'
<1>1. CASE Abandon(r, t)
  BY <1>1, AbandonKeepsGate DEF CheckFlags, At, LockedPc, GateInv, TypeOK
<1>2. CASE FlagsOpen(r) /\ Goto(r, t, "placing") /\ UNCHANGED <<holder, unit, entering>>
  <2>1. /\ pc[r][t] = "sending" /\ Moves(r, t, "placing")
        /\ UNCHANGED <<lease, gate, approved, unit, entering, order, killing, shut>>
    BY <1>2 DEF CheckFlags, At, Moves, LockedPc
  <2>2. /\ pc' \in [Process -> [Thread -> Pc]]
        /\ \A q \in Process, s \in Thread :
              pc'[q][s] = IF q = r /\ s = t THEN "placing" ELSE pc[q][s]
        /\ holder' \in [Process -> Thread \cup {Nobody}]
        /\ LockHeld' /\ ThreadsServe'
    BY <2>1, MoveEffect DEF Thread, EntryThread, Pc, EntryPc
  <2>3. TypeOK'
    BY <2>1, <2>2 DEF GateInv, TypeOK, LeaseTypeOK, lease, gate, killing
  <2>4. LeaseInv'
    BY <2>1, <2>3, ThreadsKeepLease DEF GateInv, TypeOK
  <2>5. FlagDown'
    BY <2>1, <2>2 DEF GateInv, FlagDown, gate, Thread, EntryThread
  <2>6. KillShuts'
    <3>1. ~killed[r]
      BY <1>2 DEF GateInv, FlagsOpen, FlagDown, KillShuts
    <3> QED
      BY <2>1, <2>2, <3>1 DEF GateInv, KillShuts, killing, Thread, EntryThread
  <2>7. ApprovalCurrent'
    BY <2>1, <2>2 DEF GateInv, ApprovalCurrent, gate, lease, Thread, EntryThread
  <2>8. OneOpener' /\ OpenerSaves'
    BY <2>1 DEF GateInv, OneOpener, OpenerSaves
  <2> QED
    BY <2>2, <2>3, <2>4, <2>5, <2>6, <2>7, <2>8 DEF GateInv
<1> QED
  BY <1>1, <1>2 DEF CheckFlags

LEMMA RecordKeepsGate ==
  ASSUME GateInv, NEW r \in Process, NEW t \in EntryThread, Record(r, t)
  PROVE  GateInv'
<1>1. /\ Moves(r, t, "idle")
      /\ UNCHANGED <<lease, gate, approved, order, killing, shut>>
  BY DEF Record, At, Moves, LockedPc
<1>2. /\ pc' \in [Process -> [Thread -> Pc]]
      /\ \A q \in Process, s \in Thread :
            pc'[q][s] = IF q = r /\ s = t THEN "idle" ELSE pc[q][s]
      /\ holder' \in [Process -> Thread \cup {Nobody}]
      /\ LockHeld' /\ ThreadsServe'
  BY <1>1, MoveEffect DEF Thread, EntryThread, Pc
<1>3. /\ entering' \in [Process -> [EntryThread -> Unit \cup {NoUnit}]]
      /\ \A q \in Process, s \in EntryThread :
            entering'[q][s] = IF q = r /\ s = t THEN NoUnit ELSE entering[q][s]
  BY DEF GateInv, TypeOK, Record
<1>4. /\ unit' \in [Unit -> UnitRow]
      /\ \A u \in Unit : unit'[u].status = unit[u].status
  <2> DEFINE e == entering[r][t]
  <2>1. /\ unit \in [Unit -> UnitRow]
        /\ unit' \in {unit, [unit EXCEPT ![e].linked = TRUE]}
    BY DEF GateInv, TypeOK, Record
  <2> HIDE DEF e
  <2>2. CASE unit' = unit
    BY <2>1, <2>2
  <2>3. CASE unit' = [unit EXCEPT ![e].linked = TRUE] /\ e \in Unit
    BY <2>1, <2>3 DEF UnitRow
  <2>4. CASE unit' = [unit EXCEPT ![e].linked = TRUE] /\ e \notin Unit
    BY <2>1, <2>4
  <2> QED
    BY <2>1, <2>2, <2>3, <2>4
<1>5. TypeOK'
  <2>1. LeaseTypeOK'
    BY <1>1 DEF GateInv, TypeOK, LeaseTypeOK, lease, gate
  <2> QED
    BY <1>1, <1>2, <1>3, <1>4, <2>1 DEF GateInv, TypeOK, killing
<1>6. LeaseInv'
  BY <1>1, <1>5, ThreadsKeepLease DEF GateInv, TypeOK
<1>7. FlagDown' /\ KillShuts'
  BY <1>1, <1>2 DEF GateInv, FlagDown, KillShuts, gate, killing, Thread, EntryThread
<1>8. ApprovalCurrent'
  BY <1>1, <1>2 DEF GateInv, ApprovalCurrent, gate, lease, Thread, EntryThread
<1>9. OneOpener'
  BY <1>3, UnitAssumption DEF GateInv, OneOpener, NoUnit
<1>10. OpenerSaves'
  BY <1>3, <1>4, UnitAssumption DEF GateInv, OpenerSaves, NoUnit
<1> QED
  BY <1>2, <1>5, <1>6, <1>7, <1>8, <1>9, <1>10 DEF GateInv

\* The exchange's and the fill service's steps change no thread.
LEMMA OrderAndRowKeepGate ==
  ASSUME GateInv,
         UNCHANGED <<leaseVars, pc, holder, entering, approved, killing, shut>>,
         order' \in [Unit -> OrderState], unit' \in [Unit -> UnitRow],
         \A u \in Unit : unit[u].status # "none" => unit'[u].status # "none"
  PROVE  GateInv'
<1>1. TypeOK'
  BY DEF GateInv, TypeOK, LeaseTypeOK, leaseVars, killing
<1>2. LeaseInv'
  BY <1>1, ThreadsKeepLease DEF GateInv, TypeOK, leaseVars, lease
<1>3. LockHeld' /\ ThreadsServe' /\ FlagDown' /\ KillShuts' /\ ApprovalCurrent'
  BY DEF GateInv, LockHeld, ThreadsServe, FlagDown, KillShuts, ApprovalCurrent,
         leaseVars, killing
<1>4. OneOpener' /\ OpenerSaves'
  BY DEF GateInv, OneOpener, OpenerSaves
<1> QED
  BY <1>1, <1>2, <1>3, <1>4 DEF GateInv

LEMMA ReconcileKeepsGate ==
  ASSUME GateInv, NEW r \in Process, NEW u \in Unit, Reconcile(r, u)
  PROVE  GateInv'
<1> DEFINE status == IF order[u] = "filled" THEN "open" ELSE "failed"
<1>1. /\ status \in {"open", "failed"}
      /\ unit' = [unit EXCEPT ![u].status = status]
      /\ UNCHANGED <<leaseVars, pc, holder, entering, approved, order, killing, shut>>
  BY DEF Reconcile
<1> HIDE DEF status
<1>2. unit \in [Unit -> UnitRow] /\ order \in [Unit -> OrderState]
  BY DEF GateInv, TypeOK
<1>3. /\ unit' \in [Unit -> UnitRow]
      /\ \A v \in Unit : unit[v].status # "none" => unit'[v].status # "none"
  BY <1>1, <1>2 DEF UnitRow
<1> QED
  BY <1>1, <1>2, <1>3, OrderAndRowKeepGate

LEMMA EnteringKeepsGate ==
  ASSUME GateInv, NEW r \in Process, Entering(r)
  PROVE  GateInv'
<1> USE DEF At, Moves, gate, entries, killing, Pc, EntryPc, LockedPc, Thread, EntryThread
<1>0. /\ EntryThread \subseteq Thread /\ "daemon" \in Thread /\ "manual" \in Thread
      /\ \A l \in EntryPc \cup {"idle"} : l \in Pc
  OBVIOUS
<1>T. /\ toCancel \in [Process -> SUBSET Unit] /\ unresolved \in [Process -> BOOLEAN]
      /\ entryFlag \in [Process -> BOOLEAN] /\ order \in [Unit -> OrderState]
  BY DEF GateInv, TypeOK, LeaseTypeOK
<1>1. ASSUME NEW u \in Unit, OpenManually(r, u) \/ Reconcile(r, u)
      PROVE  GateInv'
  BY <1>1, OpenManuallyKeepsGate, ReconcileKeepsGate
<1>2. CASE MatchStrategy(r)
  BY <1>0, <1>T, <1>2, ClosingStep DEF MatchStrategy
<1>3. CASE EnterLock(r)
  BY <1>0, <1>T, <1>3, ClosingStep DEF EnterLock
<1>4. ASSUME NEW t \in EntryThread, Approve(r, t)
      PROVE  GateInv'
  BY <1>4, ApproveKeepsGate
<1>5. ASSUME NEW t \in EntryThread, Blocked(r, t)
      PROVE  GateInv'
  BY <1>5, <1>T, AbandonKeepsGate DEF Blocked
<1>6. ASSUME NEW t \in EntryThread, CheckFlags(r, t)
      PROVE  GateInv'
  BY <1>6, CheckFlagsKeepsGate
<1>7. ASSUME NEW t \in EntryThread, Accept(r, t)
      PROVE  GateInv'
  <2>1. order' \in [Unit -> OrderState]
    BY <1>7, <1>T DEF Accept, OrderState
  <2> QED
    BY <1>0, <1>T, <1>7, <2>1, ClosingStep DEF Accept
<1>8. ASSUME NEW t \in EntryThread, NoAnswer(r, t)
      PROVE  GateInv'
  <2>1. order' \in [Unit -> OrderState]
    BY <1>8, <1>T DEF NoAnswer, OrderState
  <2> QED
    BY <1>8, <2>1, AbandonKeepsGate DEF NoAnswer
<1>9. ASSUME NEW t \in EntryThread, Verify(r, t)
      PROVE  GateInv'
  BY <1>0, <1>T, <1>9, ClosingStep DEF Verify
<1>10. ASSUME NEW t \in EntryThread, VerifyFails(r, t)
       PROVE  GateInv'
  <2>1. PICK label \in {"failRow", "recording"} : Goto(r, t, label)
    BY <1>10 DEF VerifyFails
  <2> QED
    BY <1>0, <1>T, <1>10, <2>1, ClosingStep DEF VerifyFails
<1>11. ASSUME NEW t \in EntryThread, CloseRowAfterFailure(r, t)
       PROVE  GateInv'
  <2>1. CASE Abandon(r, t) /\ UNCHANGED entriesRow
    BY <1>11, <1>T, <2>1, AbandonKeepsGate DEF CloseRowAfterFailure
  <2>2. CASE SetRow(r, FALSE) /\ Goto(r, t, "failFlag")
             /\ UNCHANGED <<holder, unit, entering>>
    BY <1>0, <1>T, <1>11, <2>2, ClosingStep DEF CloseRowAfterFailure, SetRow
  <2> QED
    BY <1>11, <2>1, <2>2 DEF CloseRowAfterFailure
<1>12. ASSUME NEW t \in EntryThread, CloseFlagAfterFailure(r, t)
       PROVE  GateInv'
  BY <1>0, <1>T, <1>12, ClosingStep DEF CloseFlagAfterFailure, SetFlag, Shut
<1>13. ASSUME NEW t \in EntryThread, Record(r, t)
       PROVE  GateInv'
  BY <1>13, RecordKeepsGate
<1> QED
  BY <1>1, <1>2, <1>3, <1>4, <1>5, <1>6, <1>7, <1>8, <1>9, <1>10, <1>11, <1>12,
     <1>13 DEF Entering

-----------------------------------------------------------------------------
(***************************************************************************)
(* Start and end of a process.                                             *)
(***************************************************************************)
LEMMA StartingKeepsGate ==
  ASSUME GateInv, NEW r \in Process, Starting(r), LeaseInv'
  PROVE  GateInv'
<1>1. /\ phase[r] # "serving" /\ UNCHANGED <<threadVars, database, limits>>
      /\ \A p \in Process \ {r} : phase'[p] = phase[p]
      /\ \A p \in Process : entryFlag'[p] => entryFlag[p]
  BY DEF GateInv, TypeOK, LeaseTypeOK, Starting, Start, StartStep,
         AcquireDatabase, CloseGateAtStart, Preflight, BindAccountScope,
         SetupServices, Arm, StartFails, ReleaseLease, Advance, Disarm
<1>2. TypeOK'
  BY <1>1 DEF GateInv, TypeOK, LeaseInv, threadVars
<1>3. ThreadsServe'
  BY <1>1 DEF GateInv, ThreadsServe, threadVars
<1>4. FlagDown'
  BY <1>1 DEF GateInv, FlagDown, threadVars
<1>5. LockHeld' /\ KillShuts' /\ ApprovalCurrent' /\ OneOpener' /\ OpenerSaves'
  BY <1>1 DEF GateInv, LockHeld, KillShuts, ApprovalCurrent, OneOpener,
              OpenerSaves, threadVars
<1> QED
  BY <1>2, <1>3, <1>4, <1>5 DEF GateInv

LEMMA StoppingKeepsGate ==
  ASSUME GateInv, NEW r \in Process, Stopping(r), LeaseInv'
  PROVE  GateInv'
<1>1. /\ Ends(r)
      /\ \A p \in Process \ {r} : phase'[p] = phase[p]
      /\ entryFlag' = [entryFlag EXCEPT ![r] = FALSE]
      /\ UNCHANGED <<database, limits>>
  BY DEF GateInv, TypeOK, LeaseTypeOK, Stopping, Teardown, Die, Advance, Disarm
<1>2. /\ pc' \in [Process -> [Thread -> Pc]]
      /\ \A q \in Process, s \in Thread :
            pc'[q][s] = IF q = r THEN "idle" ELSE pc[q][s]
  BY <1>1 DEF GateInv, TypeOK, Ends, Idle, Pc
<1>3. /\ entering' \in [Process -> [EntryThread -> Unit \cup {NoUnit}]]
      /\ \A q \in Process, s \in EntryThread :
            entering'[q][s] = IF q = r THEN NoUnit ELSE entering[q][s]
  BY <1>1 DEF GateInv, TypeOK, Ends
<1>4. order' \in [Unit -> OrderState]
  BY <1>1 DEF GateInv, TypeOK, Ends, OrderState
<1>5. /\ holder' = [holder EXCEPT ![r] = Nobody]
      /\ toCancel' = [toCancel EXCEPT ![r] = {}]
      /\ shut' = [shut EXCEPT ![r] = TRUE]
      /\ killed' = [killed EXCEPT ![r] = FALSE]
      /\ unresolved' = [unresolved EXCEPT ![r] = FALSE]
      /\ UNCHANGED <<approved, unit>>
  BY <1>1 DEF Ends
<1>6. TypeOK'
  BY <1>2, <1>3, <1>4, <1>5 DEF GateInv, TypeOK, LeaseInv
<1>7. LockHeld'
  BY <1>2, <1>5 DEF GateInv, TypeOK, LockHeld, LockedPc
<1>8. ThreadsServe'
  BY <1>1, <1>2 DEF GateInv, ThreadsServe
<1>9. FlagDown'
  BY <1>1, <1>2, <1>5 DEF GateInv, TypeOK, LeaseTypeOK, FlagDown, Thread
<1>10. KillShuts'
  BY <1>2, <1>5 DEF GateInv, TypeOK, KillShuts, Thread, EntryThread
<1>11. ApprovalCurrent'
  BY <1>1, <1>2, <1>5 DEF GateInv, ApprovalCurrent, Thread, EntryThread
<1>12. OneOpener'
  BY <1>3, UnitAssumption DEF GateInv, OneOpener, NoUnit
<1>13. OpenerSaves'
  BY <1>3, <1>5, UnitAssumption DEF GateInv, OpenerSaves, NoUnit
<1> QED
  BY <1>6, <1>7, <1>8, <1>9, <1>10, <1>11, <1>12, <1>13 DEF GateInv

LEMMA GateInvInit == Init => GateInv
<1> SUFFICES ASSUME Init PROVE GateInv
  OBVIOUS
<1>1. LeaseInv
  BY LeaseInvInit
<1>2. TypeOK
  <2>1. approved \in [Process -> Version]
    BY VersionAssumption DEF Init
  <2>2. unit \in [Unit -> UnitRow]
    BY DEF Init, UnitRow
  <2> QED
    BY <1>1, <2>1, <2>2 DEF Init, TypeOK, LeaseInv, Idle, Pc, OrderState
<1>3. LockHeld /\ ThreadsServe /\ FlagDown /\ KillShuts /\ ApprovalCurrent
  BY DEF Init, LeaseInit, Idle, LockHeld, LockedPc, ThreadsServe, FlagDown,
         KillShuts, ApprovalCurrent, Thread, EntryThread
<1>4. OneOpener /\ OpenerSaves
  BY UnitAssumption DEF Init, OneOpener, OpenerSaves, NoUnit
<1> QED
  BY <1>1, <1>2, <1>3, <1>4 DEF GateInv

LEMMA StepKeepsGate == GateInv /\ [Next]_vars => GateInv'
<1> SUFFICES ASSUME GateInv, [Next]_vars
             PROVE  GateInv'
  OBVIOUS
<1>0. LeaseInv'
  BY StepKeepsLease DEF GateInv
<1>1. ASSUME NEW r \in Process, Starting(r)
      PROVE  GateInv'
  BY <1>0, <1>1, StartingKeepsGate
<1>2. ASSUME NEW r \in Process, Stopping(r)
      PROVE  GateInv'
  BY <1>0, <1>2, StoppingKeepsGate
<1>3. ASSUME NEW r \in Active, Entering(r) \/ Commanding(r) \/ Closing(r)
      PROVE  GateInv'
  BY <1>3, ActiveAssumption, EnteringKeepsGate, CommandingKeepsGate,
     ClosingKeepsGate
<1>4. ASSUME NEW u \in Unit, FillOrKill(u)
      PROVE  GateInv'
  <2>1. order' \in [Unit -> OrderState] /\ unit' \in [Unit -> UnitRow]
    BY <1>4 DEF FillOrKill, GateInv, TypeOK, OrderState
  <2> QED
    BY <1>4, <2>1, OrderAndRowKeepGate DEF FillOrKill
<1>5. CASE UNCHANGED vars
  BY <1>5, OrderAndRowKeepGate DEF vars, threadVars, killing, GateInv, TypeOK
<1> QED
  BY <1>1, <1>2, <1>3, <1>4, <1>5 DEF Next

-----------------------------------------------------------------------------
\* What a step makes of an order: nothing, the end of a live one, or the
\* request of the thread that is placing it.
LEMMA OrderStep ==
  ASSUME GateInv, Next, NEW u \in Unit
  PROVE  \/ order'[u] = order[u]
         \/ order[u] = "live" /\ order'[u] # "live"
         \/ \E q \in Process, s \in EntryThread :
               pc[q][s] = "placing" /\ entering[q][s] = u
<1>0. order \in [Unit -> OrderState]
  BY DEF GateInv, TypeOK
<1>1. ASSUME NEW q \in Process, Starting(q) \/ Commanding(q) \/ Closing(q)
      PROVE  order' = order
  BY <1>1
     DEF Starting, threadVars, Commanding, BeginEnable, EnableFlag, EnableRow,
         EnableRowFails, UndoFlag, UndoRow, BeginKill, KillFlag, KillRow,
         KillCancel, KillReturns, PutLimits, Closing, BeginDisable, DisableRow,
         DisableFlag, BeginFailAmend, FailAmendFlag, FailAmendRow, entries
<1>2. ASSUME NEW v \in Unit, FillOrKill(v)
      PROVE  order'[u] = order[u] \/ (order[u] = "live" /\ order'[u] # "live")
  <2>1. PICK s \in {"filled", "canceled"} : order' = [order EXCEPT ![v] = s]
    BY <1>2 DEF FillOrKill
  <2>2. order[v] = "live"
    BY <1>2 DEF FillOrKill
  <2> QED
    BY <1>0, <2>1, <2>2
<1>3. ASSUME NEW q \in Process, Stopping(q)
      PROVE  \/ order'[u] = order[u]
             \/ \E s \in EntryThread : pc[q][s] = "placing" /\ entering[q][s] = u
  BY <1>3 DEF Stopping, Ends
<1>4. ASSUME NEW q \in Process, Entering(q), order'[u] # order[u]
      PROVE  \E s \in EntryThread : pc[q][s] = "placing" /\ entering[q][s] = u
  <2>1. PICK s \in EntryThread : Accept(q, s) \/ NoAnswer(q, s)
    BY <1>4
       DEF Entering, OpenManually, Reconcile, MatchStrategy, EnterLock, Approve,
           Blocked, CheckFlags, Verify, VerifyFails, CloseRowAfterFailure,
           CloseFlagAfterFailure, Record, entries
  <2>2. /\ pc[q][s] = "placing"
        /\ order' \in {order, [order EXCEPT ![entering[q][s]] = "live"]}
    BY <2>1 DEF Accept, NoAnswer, At
  <2>3. entering[q][s] = u
    BY <1>0, <1>4, <2>2
  <2> QED
    BY <2>2, <2>3
<1> QED
  BY <1>1, <1>2, <1>3, <1>4, ActiveAssumption DEF Next

\* An order reaches the exchange only from the thread that is placing it.
LEMMA TakesPlaces ==
  ASSUME GateInv, Next, NEW p \in Process, NEW t \in EntryThread, Takes(p, t)
  PROVE  pc[p][t] = "placing"
<1> DEFINE u == entering[p][t]
<1>1. u \in Unit /\ order[u] = "none" /\ order'[u] = "live"
  BY DEF Takes
<1>2. PICK q \in Process, s \in EntryThread :
          pc[q][s] = "placing" /\ entering[q][s] = u
  BY <1>1, OrderStep
<1> QED
  BY <1>1, <1>2 DEF GateInv, OneOpener

-----------------------------------------------------------------------------
(***************************************************************************)
(* The theorems about the gate.                                            *)
(***************************************************************************)
LEMMA GateInvariant == Spec => []GateInv
<1>1. Init => GateInv
  BY GateInvInit
<1>2. GateInv /\ [Next]_vars => GateInv'
  BY StepKeepsGate
<1> QED
  BY <1>1, <1>2, PTL DEF Spec

(***************************************************************************)
(* Every variable of the gate and of its processes keeps its type, with    *)
(* any number of processes running threads at once.                        *)
(***************************************************************************)
THEOREM GateTypes == Spec => []TypeOK
<1>1. GateInv => TypeOK
  BY DEF GateInv
<1> QED
  BY <1>1, GateInvariant, PTL

(***************************************************************************)
(* A gate that was closed opens only after a later enabling                *)
(* (enable_entries against the unlocked writes of the fill service and the *)
(* position manager): a shut gate has its flag down, and only the enabling *)
(* that clears the mark raises the flag.                                   *)
(***************************************************************************)
THEOREM ShutGateStaysShut == Spec => []GateStaysShut
<1>1. GateInv => GateStaysShut
  BY DEF GateInv, FlagDown, GateStaysShut, GateOpen, FlagsOpen
<1> QED
  BY <1>1, GateInvariant, PTL

(***************************************************************************)
(* After kill_entries has returned no entry order of the process reaches   *)
(* the exchange until entries are enabled again: the kill waits for the    *)
(* lock, which an entry holds from before its check of the flag.           *)
(***************************************************************************)
THEOREM KillIsFinal == Spec => KillHolds
<1> DEFINE Step == \A p \in Process, t \in EntryThread : Takes(p, t) => ~killed[p]
<1>1. GateInv /\ [Next]_vars => [Step]_vars
  <2> SUFFICES ASSUME GateInv, Next, NEW p \in Process, NEW t \in EntryThread,
                      Takes(p, t)
               PROVE  ~killed[p]
    OBVIOUS
  <2>1. pc[p][t] = "placing"
    BY TakesPlaces
  <2> QED
    BY <2>1 DEF GateInv, KillShuts
<1> QED
  BY <1>1, GateInvariant, PTL DEF Spec, KillHolds

(***************************************************************************)
(* An order is placed under the limits it was approved against             *)
(* (AccountRiskGuard.approve_entry, PUT /risk/limits): within the process  *)
(* because both hold the lock, between processes because only one of them  *)
(* has the database.                                                       *)
(***************************************************************************)
THEOREM ApprovalsAreCurrent == Spec => LimitsInForce
<1> DEFINE Step == \A p \in Process, t \in EntryThread :
                       Takes(p, t) => approved[p] = limits[database[p]]
<1>1. GateInv /\ [Next]_vars => [Step]_vars
  <2> SUFFICES ASSUME GateInv, Next, NEW p \in Process, NEW t \in EntryThread,
                      Takes(p, t)
               PROVE  approved[p] = limits[database[p]]
    OBVIOUS
  <2>1. pc[p][t] = "placing"
    BY TakesPlaces
  <2> QED
    BY <2>1 DEF GateInv, ApprovalCurrent
<1> QED
  BY <1>1, GateInvariant, PTL DEF Spec, LimitsInForce

-----------------------------------------------------------------------------
(***************************************************************************)
(* What a kill reports.                                                    *)
(***************************************************************************)

\* The row of a unit being opened is in the file of its opener.
OpenerFile ==
    \A p \in Process, t \in EntryThread :
        entering[p][t] \in Unit => unit[entering[p][t]].file = database[p]

FreshUnordered == \A u \in Unit : unit[u].status = "none" => order[u] = "none"

LivePending(p, u) ==
    unit[u].status = "pending_open" /\ unit[u].file = database[p] /\ order[u] = "live"

\* A live pending entry is still to be looked at, canceled or reported.
KillAccounts ==
    \A p \in Process, u \in Unit :
        pc[p]["operator"] = "killCancel" /\ LivePending(p, u)
            => u \in toCancel[p] \/ unit[u].cancelRequested \/ unresolved[p]

KillInv == GateInv /\ OpenerFile /\ FreshUnordered /\ KillAccounts

\* What a step makes of the row of u: it is saved for the first time by a
\* serving process, or it keeps its file and its mark.
RowKept(u) ==
    /\ unit'[u].file = unit[u].file
    /\ unit'[u].status \in {unit[u].status, "failed", "open"}
    /\ unit[u].status = "none" => unit'[u].status = "none"
    /\ unit[u].cancelRequested => unit'[u].cancelRequested

RowSaved(q, u) ==
    /\ phase[q] = "serving" /\ unit[u].status = "none"
    /\ unit'[u].file = database[q] /\ order' = order

LEMMA SaveEffect ==
  ASSUME GateInv, NEW q \in Process, NEW v \in Unit, Fresh(v), Save(q, v),
         phase[q] = "serving", order' = order, NEW u \in Unit
  PROVE  RowKept(u) \/ RowSaved(q, u)
<1>1. unit \in [Unit -> UnitRow]
  BY DEF GateInv, TypeOK
<1>2. CASE u = v
  BY <1>1, <1>2 DEF Fresh, Save, RowSaved, UnitRow
<1>3. CASE u # v
  BY <1>1, <1>3 DEF Save, RowKept
<1> QED
  BY <1>2, <1>3

\* Only a unit that its thread has saved is given up.
LEMMA AbandonEffect ==
  ASSUME GateInv, NEW q \in Process, NEW t \in EntryThread, Abandon(q, t),
         NEW u \in Unit
  PROVE  RowKept(u)
<1>1. unit \in [Unit -> UnitRow]
  BY DEF GateInv, TypeOK
<1>2. CASE u = entering[q][t]
  <2>1. unit[u].status # "none"
    BY <1>2 DEF GateInv, OpenerSaves
  <2>2. unit'[u] = [unit[u] EXCEPT !.status = "failed"]
    BY <1>2 DEF Abandon
  <2> QED
    BY <1>1, <2>1, <2>2 DEF RowKept, UnitRow
<1>3. CASE u # entering[q][t]
  BY <1>1, <1>3 DEF Abandon, RowKept
<1> QED
  BY <1>2, <1>3

LEMMA RowStep ==
  ASSUME GateInv, Next, NEW u \in Unit
  PROVE  RowKept(u) \/ \E q \in Process : RowSaved(q, u)
<1>0. unit \in [Unit -> UnitRow]
  BY DEF GateInv, TypeOK
<1>1. ASSUME unit' = unit
      PROVE  RowKept(u)
  BY <1>1 DEF RowKept
<1>2. ASSUME NEW q \in Process, Starting(q) \/ Stopping(q) \/ Closing(q)
      PROVE  unit' = unit
  BY <1>2
     DEF Starting, Stopping, Ends, threadVars, Closing, BeginDisable, DisableRow,
         DisableFlag, BeginFailAmend, FailAmendFlag, FailAmendRow, entries
<1>3. ASSUME NEW v \in Unit, FillOrKill(v)
      PROVE  unit' = unit
  BY <1>3 DEF FillOrKill
<1>4. ASSUME NEW q \in Process, Commanding(q)
      PROVE  RowKept(u)
  <2>1. CASE KillCancel(q)
    <3>1. PICK v \in Unit : CancelsEntry(q, v)
      BY <2>1 DEF KillCancel, GateInv, TypeOK
    <3>2. \/ unit' = unit
          \/ unit' = [unit EXCEPT ![v].linked = TRUE, ![v].cancelRequested = TRUE]
          \/ unit' = [unit EXCEPT ![v].linked = unit[v].linked \/ order[v] = "live"]
      BY <3>1 DEF CancelsEntry
    <3>3. CASE unit' = [unit EXCEPT ![v].linked = TRUE, ![v].cancelRequested = TRUE]
      BY <1>0, <3>3 DEF RowKept, UnitRow
    <3>4. CASE unit' = [unit EXCEPT ![v].linked = unit[v].linked \/ order[v] = "live"]
      <4> DEFINE b == unit[v].linked \/ order[v] = "live"
      <4>1. unit' = [unit EXCEPT ![v].linked = b]
        BY <3>4
      <4> HIDE DEF b
      <4> QED
        BY <1>0, <4>1 DEF RowKept, UnitRow
    <3> QED
      BY <1>1, <3>2, <3>3, <3>4 DEF RowKept
  <2>2. CASE ~KillCancel(q)
    <3>1. unit' = unit
      BY <1>4, <2>2
         DEF Commanding, BeginEnable, EnableFlag, EnableRow, EnableRowFails,
             UndoFlag, UndoRow, BeginKill, KillFlag, KillRow, KillReturns,
             PutLimits, entries, threadVars
    <3> QED
      BY <3>1 DEF RowKept
  <2> QED
    BY <2>1, <2>2
<1>5. ASSUME NEW q \in Process, Entering(q)
      PROVE  RowKept(u) \/ RowSaved(q, u)
  <2>1. ASSUME NEW v \in Unit, OpenManually(q, v)
        PROVE  RowKept(u) \/ RowSaved(q, u)
    BY <2>1, SaveEffect DEF OpenManually, At
  <2>2. ASSUME NEW v \in Unit, Reconcile(q, v)
        PROVE  RowKept(u)
    <3> DEFINE status == IF order[v] = "filled" THEN "open" ELSE "failed"
    <3>1. /\ status \in {"open", "failed"} /\ unit[v].status = "pending_open"
          /\ unit' = [unit EXCEPT ![v].status = status]
      BY <2>2 DEF Reconcile
    <3> HIDE DEF status
    <3> QED
      BY <1>0, <3>1 DEF RowKept, UnitRow
  <2>3. ASSUME NEW t \in EntryThread, Approve(q, t)
        PROVE  RowKept(u) \/ RowSaved(q, u)
    <3>1. CASE t = "daemon"
      BY <2>3, <3>1, SaveEffect DEF Approve, At
    <3>2. CASE t # "daemon"
      BY <2>3, <3>2 DEF Approve, RowKept
    <3> QED
      BY <3>1, <3>2
  <2>4. ASSUME NEW t \in EntryThread, Abandon(q, t)
        PROVE  RowKept(u)
    BY <2>4, AbandonEffect
  <2>5. ASSUME NEW t \in EntryThread, Record(q, t)
        PROVE  RowKept(u)
    <3> DEFINE e == entering[q][t]
    <3>1. unit' \in {unit, [unit EXCEPT ![e].linked = TRUE]}
      BY <2>5 DEF Record
    <3> HIDE DEF e
    <3>2. CASE unit' = [unit EXCEPT ![e].linked = TRUE]
      BY <1>0, <3>2 DEF RowKept, UnitRow
    <3> QED
      BY <3>1, <3>2 DEF RowKept
  <2>6. \/ unit' = unit
        \/ \E v \in Unit : OpenManually(q, v) \/ Reconcile(q, v)
        \/ \E t \in EntryThread : Approve(q, t) \/ Abandon(q, t) \/ Record(q, t)
    BY <1>5
       DEF Entering, MatchStrategy, EnterLock, Blocked, CheckFlags, Accept,
           NoAnswer, Verify, VerifyFails, CloseRowAfterFailure,
           CloseFlagAfterFailure, entries
  <2> QED
    BY <1>1, <2>1, <2>2, <2>3, <2>4, <2>5, <2>6
<1> QED
  BY <1>1, <1>2, <1>3, <1>4, <1>5, ActiveAssumption DEF Next

\* Who becomes the opener of a unit has just saved it in its own file.
LEMMA OpenerStep ==
  ASSUME GateInv, Next, NEW p \in Process, NEW t \in EntryThread,
         entering'[p][t] \in Unit
  PROVE  \/ entering'[p][t] = entering[p][t]
         \/ unit'[entering'[p][t]].file = database[p]
<1>0. /\ entering \in [Process -> [EntryThread -> Unit \cup {NoUnit}]]
      /\ unit \in [Unit -> UnitRow]
      /\ NoUnit \notin Unit
  BY UnitAssumption DEF GateInv, TypeOK, NoUnit
<1>1. ASSUME NEW q \in Process, Starting(q) \/ Commanding(q) \/ Closing(q)
      PROVE  entering' = entering
  BY <1>1
     DEF Starting, threadVars, Commanding, BeginEnable, EnableFlag, EnableRow,
         EnableRowFails, UndoFlag, UndoRow, BeginKill, KillFlag, KillRow,
         KillCancel, KillReturns, PutLimits, Closing, BeginDisable, DisableRow,
         DisableFlag, BeginFailAmend, FailAmendFlag, FailAmendRow, entries
<1>2. ASSUME NEW v \in Unit, FillOrKill(v)
      PROVE  entering' = entering
  BY <1>2 DEF FillOrKill
<1>3. ASSUME NEW q \in Process, Stopping(q)
      PROVE  entering'[p][t] = entering[p][t]
  BY <1>0, <1>3 DEF Stopping, Ends
<1>4. ASSUME NEW q \in Process, NEW s \in EntryThread, NEW v \in Unit,
             Save(q, v), entering' = [entering EXCEPT ![q][s] = v]
      PROVE  \/ entering'[p][t] = entering[p][t]
             \/ unit'[entering'[p][t]].file = database[p]
  BY <1>0, <1>4 DEF Save, UnitRow
<1>5. ASSUME NEW q \in Process, NEW s \in EntryThread,
             entering' = [entering EXCEPT ![q][s] = NoUnit]
      PROVE  entering'[p][t] = entering[p][t]
  BY <1>0, <1>5
<1>6. ASSUME NEW q \in Process, Entering(q)
      PROVE  \/ entering' = entering
             \/ \E s \in EntryThread, v \in Unit :
                   Save(q, v) /\ entering' = [entering EXCEPT ![q][s] = v]
             \/ \E s \in EntryThread : entering' = [entering EXCEPT ![q][s] = NoUnit]
  <2>1. ASSUME NEW v \in Unit, OpenManually(q, v)
        PROVE  /\ "manual" \in EntryThread /\ Save(q, v)
               /\ entering' = [entering EXCEPT ![q]["manual"] = v]
    BY <2>1 DEF OpenManually, EntryThread
  <2>2. ASSUME NEW s \in EntryThread, Approve(q, s)
        PROVE  \/ entering' = entering
               \/ \E v \in Unit :
                     Save(q, v) /\ entering' = [entering EXCEPT ![q][s] = v]
    BY <2>2 DEF Approve
  <2>3. ASSUME NEW s \in EntryThread, Abandon(q, s) \/ Record(q, s)
        PROVE  entering' = [entering EXCEPT ![q][s] = NoUnit]
    BY <2>3 DEF Abandon, Record
  <2>4. \/ entering' = entering
        \/ \E v \in Unit : OpenManually(q, v)
        \/ \E s \in EntryThread : Approve(q, s) \/ Abandon(q, s) \/ Record(q, s)
    BY <1>6
       DEF Entering, Reconcile, MatchStrategy, EnterLock, Blocked, CheckFlags,
           Accept, NoAnswer, Verify, VerifyFails, CloseRowAfterFailure,
           CloseFlagAfterFailure, entries
  <2> QED
    BY <2>1, <2>2, <2>3, <2>4
<1> QED
  BY <1>1, <1>2, <1>3, <1>4, <1>5, <1>6, ActiveAssumption DEF Next

\* The databases of the processes stay.
LEMMA DatabaseStays ==
  ASSUME Next
  PROVE  database' = database
<1>1. ASSUME NEW q \in Process, Starting(q) \/ Stopping(q)
      PROVE  database' = database
  BY <1>1
     DEF Starting, Start, StartStep, AcquireDatabase, CloseGateAtStart, Preflight,
         BindAccountScope, SetupServices, Arm, StartFails, ReleaseLease, Stopping,
         Teardown, Die
<1>2. ASSUME NEW q \in Process, Entering(q)
      PROVE  database' = database
  BY <1>2
     DEF Entering, OpenManually, Reconcile, MatchStrategy, EnterLock, Approve,
         Blocked, CheckFlags, Accept, NoAnswer, Verify, VerifyFails,
         CloseRowAfterFailure, CloseFlagAfterFailure, Record, lease, leaseVars
<1>3. ASSUME NEW q \in Process, Commanding(q)
      PROVE  database' = database
  BY <1>3
     DEF Commanding, BeginEnable, EnableFlag, EnableRow, EnableRowFails,
         UndoFlag, UndoRow, BeginKill, KillFlag, KillRow, KillCancel,
         KillReturns, PutLimits, lease
<1>4. ASSUME NEW q \in Process, Closing(q)
      PROVE  database' = database
  BY <1>4
     DEF Closing, BeginDisable, DisableRow, DisableFlag, BeginFailAmend,
         FailAmendFlag, FailAmendRow, lease
<1>5. ASSUME NEW v \in Unit, FillOrKill(v)
      PROVE  database' = database
  BY <1>5 DEF FillOrKill, leaseVars
<1> QED
  BY <1>1, <1>2, <1>3, <1>4, <1>5, ActiveAssumption DEF Next

\* Where a process is canceling after a step, it was before, or has just
\* listed what it has to cancel.
LEMMA CancelingStep ==
  ASSUME GateInv, Next, NEW p \in Process,
         pc'[p]["operator"] = "killCancel"
  PROVE  \/ KillRow(p)
         \/ pc[p]["operator"] = "killCancel" /\ KillCancel(p)
         \/ /\ pc[p]["operator"] = "killCancel"
            /\ toCancel'[p] = toCancel[p] /\ unresolved'[p] = unresolved[p]
<1>0. /\ pc \in [Process -> [Thread -> Pc]]
      /\ toCancel \in [Process -> SUBSET Unit]
      /\ unresolved \in [Process -> BOOLEAN]
  BY DEF GateInv, TypeOK
<1>1. ASSUME NEW q \in Process, Starting(q)
      PROVE  UNCHANGED <<pc, toCancel, unresolved>>
  BY <1>1 DEF Starting, threadVars
<1>2. ASSUME NEW q \in Process, Stopping(q)
      PROVE  /\ q # p /\ pc[p]["operator"] = "killCancel"
             /\ toCancel'[p] = toCancel[p] /\ unresolved'[p] = unresolved[p]
  <2>1. /\ pc' = [pc EXCEPT ![q] = Idle]
        /\ toCancel' = [toCancel EXCEPT ![q] = {}]
        /\ unresolved' = [unresolved EXCEPT ![q] = FALSE]
    BY <1>2 DEF Stopping, Ends
  <2>2. q # p
    BY <1>0, <2>1 DEF Idle, Thread
  <2> QED
    BY <1>0, <2>1, <2>2
<1>3. ASSUME NEW v \in Unit, FillOrKill(v)
      PROVE  UNCHANGED <<pc, toCancel, unresolved>>
  BY <1>3 DEF FillOrKill, killing
<1>4. ASSUME NEW q \in Process, NEW s \in Thread, NEW label \in Pc,
             label # "killCancel", Goto(q, s, label)
      PROVE  pc[p]["operator"] = "killCancel"
  BY <1>0, <1>4 DEF Goto, Thread
<1>5. ASSUME NEW q \in Process, Entering(q)
      PROVE  /\ pc[p]["operator"] = "killCancel"
             /\ UNCHANGED <<toCancel, unresolved>>
  <2>1. UNCHANGED <<toCancel, unresolved>>
    BY <1>5
       DEF Entering, OpenManually, Reconcile, MatchStrategy, EnterLock, Approve,
           Blocked, CheckFlags, Accept, NoAnswer, Verify, VerifyFails,
           CloseRowAfterFailure, CloseFlagAfterFailure, Record, killing
  <2>2. \/ UNCHANGED pc
        \/ \E s \in Thread : \E label \in {"idle"} \cup EntryPc : Goto(q, s, label)
    BY <1>5
       DEF Entering, OpenManually, Reconcile, MatchStrategy, EnterLock, Approve,
           Blocked, CheckFlags, Accept, NoAnswer, Verify, VerifyFails,
           CloseRowAfterFailure, CloseFlagAfterFailure, Record, Abandon,
           EntryPc, Thread, EntryThread
  <2> QED
    BY <1>4, <2>1, <2>2 DEF Pc, EntryPc
<1>6. ASSUME NEW q \in Process, Closing(q)
      PROVE  /\ pc[p]["operator"] = "killCancel"
             /\ UNCHANGED <<toCancel, unresolved>>
  <2>1. UNCHANGED <<toCancel, unresolved>>
    BY <1>6
       DEF Closing, BeginDisable, DisableRow, DisableFlag, BeginFailAmend,
           FailAmendFlag, FailAmendRow, killing
  <2>2. \E label \in {"idle", "disableRow", "disableFlag", "amendFlag", "amendRow"} :
            Goto(q, "daemon", label)
    BY <1>6
       DEF Closing, BeginDisable, DisableRow, DisableFlag, BeginFailAmend,
           FailAmendFlag, FailAmendRow
  <2> QED
    BY <1>4, <2>1, <2>2 DEF Pc, GatePc, Thread
<1>7. ASSUME NEW q \in Process, Commanding(q), ~KillRow(q), ~KillCancel(q)
      PROVE  /\ pc[p]["operator"] = "killCancel"
             /\ toCancel'[p] = toCancel[p] /\ unresolved'[p] = unresolved[p]
  <2>1. CASE KillReturns(q)
    <3>1. /\ Goto(q, "operator", "idle") /\ UNCHANGED toCancel
          /\ unresolved' = [unresolved EXCEPT ![q] = FALSE]
      BY <2>1 DEF KillReturns
    <3>2. q # p
      BY <1>0, <3>1 DEF Goto, Thread
    <3> QED
      BY <1>0, <1>4, <3>1, <3>2 DEF Pc, Thread
  <2>2. CASE PutLimits(q)
    BY <2>2 DEF PutLimits, threadVars
  <2>3. CASE ~KillReturns(q) /\ ~PutLimits(q)
    <3>1. UNCHANGED <<toCancel, unresolved>>
      BY <1>7, <2>3
         DEF Commanding, BeginEnable, EnableFlag, EnableRow, EnableRowFails,
             UndoFlag, UndoRow, BeginKill, KillFlag, killing
    <3>2. \E label \in {"idle", "enableFlag", "enableRow", "undoFlag", "undoRow",
                        "killFlag", "killRow"} : Goto(q, "operator", label)
      BY <1>7, <2>3
         DEF Commanding, BeginEnable, EnableFlag, EnableRow, EnableRowFails,
             UndoFlag, UndoRow, BeginKill, KillFlag
    <3> QED
      BY <1>4, <3>1, <3>2 DEF Pc, GatePc, Thread
  <2> QED
    BY <2>1, <2>2, <2>3
<1>8. ASSUME NEW q \in Process, q # p, KillRow(q) \/ KillCancel(q)
      PROVE  /\ pc[p]["operator"] = "killCancel"
             /\ toCancel'[p] = toCancel[p] /\ unresolved'[p] = unresolved[p]
  <2>1. CASE KillRow(q)
    BY <1>0, <1>8, <2>1 DEF KillRow, Goto
  <2>2. CASE KillCancel(q)
    <3>1. PICK u \in Unit : toCancel' = [toCancel EXCEPT ![q] = @ \ {u}]
                            /\ CancelsEntry(q, u)
      BY <1>0, <2>2 DEF KillCancel
    <3>2. unresolved' \in {unresolved, [unresolved EXCEPT ![q] = TRUE]}
      BY <3>1 DEF CancelsEntry
    <3>3. pc' = pc
      BY <2>2 DEF KillCancel
    <3> QED
      BY <1>0, <1>8, <3>1, <3>2, <3>3
  <2> QED
    BY <1>8, <2>1, <2>2
<1>9. KillCancel(p) => pc[p]["operator"] = "killCancel"
  BY DEF KillCancel, At
<1> QED
  BY <1>1, <1>2, <1>3, <1>5, <1>6, <1>7, <1>8, <1>9, ActiveAssumption DEF Next

LEMMA StepKeepsKill == KillInv /\ [Next]_vars => KillInv'
<1> SUFFICES ASSUME KillInv, [Next]_vars
             PROVE  KillInv'
  OBVIOUS
<1>1. CASE UNCHANGED vars
  <2>1. GateInv'
    BY StepKeepsGate DEF KillInv
  <2>2. OpenerFile' /\ FreshUnordered' /\ KillAccounts'
    BY <1>1 DEF vars, leaseVars, threadVars, KillInv, OpenerFile, FreshUnordered,
                KillAccounts, LivePending
  <2> QED
    BY <2>1, <2>2 DEF KillInv
<1>2. CASE Next
  <2>1. GateInv /\ GateInv'
    BY StepKeepsGate DEF KillInv
  <2>2. database' = database
    BY <1>2, DatabaseStays
  <2>3. OpenerFile'
    <3> SUFFICES ASSUME NEW p \in Process, NEW t \in EntryThread,
                        entering'[p][t] \in Unit
                 PROVE  unit'[entering'[p][t]].file = database[p]
      BY <2>2 DEF OpenerFile
    <3>1. CASE entering'[p][t] = entering[p][t]
      <4> DEFINE u == entering[p][t]
      <4>1. u \in Unit /\ unit[u].status # "none" /\ unit[u].file = database[p]
        BY <3>1 DEF KillInv, OpenerFile, GateInv, OpenerSaves
      <4>2. RowKept(u)
        BY <1>2, <2>1, <4>1, RowStep DEF RowSaved
      <4> QED
        BY <3>1, <4>1, <4>2 DEF RowKept
    <3> QED
      BY <1>2, <2>1, <3>1, OpenerStep
  <2>4. FreshUnordered'
    <3> SUFFICES ASSUME NEW u \in Unit, unit'[u].status = "none"
                 PROVE  order'[u] = "none"
      BY DEF FreshUnordered
    <3>1. unit[u].status = "none"
      BY <1>2, <2>1, RowStep DEF RowKept, RowSaved
    <3>2. order[u] = "none"
      BY <3>1 DEF KillInv, FreshUnordered
    <3>3. \A q \in Process, s \in EntryThread : entering[q][s] # u
      BY <3>1 DEF KillInv, GateInv, OpenerSaves
    <3> QED
      BY <1>2, <2>1, <3>2, <3>3, OrderStep
  <2>5. KillAccounts'
    <3> SUFFICES ASSUME NEW p \in Process, NEW u \in Unit,
                        pc'[p]["operator"] = "killCancel",
                        unit'[u].status = "pending_open",
                        unit'[u].file = database[p], order'[u] = "live"
                 PROVE  \/ u \in toCancel'[p]
                        \/ unit'[u].cancelRequested
                        \/ unresolved'[p]
      BY <2>2 DEF KillAccounts, LivePending
    <3>1. CASE KillRow(p)
      BY <2>1, <3>1 DEF KillRow, GateInv, TypeOK, entries
    <3>2. CASE pc[p]["operator"] = "killCancel"
      \* An order that is being placed belongs to another process and file.
      <4>1. phase[p] = "serving" /\ holder[p] = "operator"
        BY <2>1, <3>2 DEF GateInv, ThreadsServe, LockHeld, LockedPc, Thread
      <4>2. \A q \in Process : q # p /\ phase[q] = "serving"
                                  => database[q] # database[p]
        BY <2>1, <4>1 DEF GateInv, LeaseInv, HoldsDatabase
      <4>3. RowKept(u) \/ \E q \in Process : RowSaved(q, u)
        BY <1>2, <2>1, RowStep
      <4>4. ASSUME NEW q \in Process, RowSaved(q, u)
            PROVE  FALSE
        BY <4>4 DEF RowSaved, KillInv, FreshUnordered
      <4>5. RowKept(u)
        BY <4>3, <4>4
      <4>6. unit[u].status = "pending_open" /\ unit[u].file = database[p]
        BY <2>1, <4>5 DEF RowKept, GateInv, TypeOK
      <4>7. order[u] = "live"
        <5>1. ASSUME NEW q \in Process, NEW s \in EntryThread,
                     pc[q][s] = "placing", entering[q][s] = u
              PROVE  FALSE
          <6>1. s \in Thread /\ s # "operator"
            BY DEF Thread, EntryThread
          <6>2. phase[q] = "serving" /\ holder[q] = s
            BY <2>1, <5>1, <6>1 DEF GateInv, ThreadsServe, LockHeld, LockedPc
          <6>3. q # p
            BY <4>1, <6>1, <6>2
          <6>4. unit[u].file = database[q]
            BY <5>1 DEF KillInv, OpenerFile
          <6> QED
            BY <4>2, <4>6, <6>2, <6>3, <6>4
        <5> QED
          BY <1>2, <2>1, <5>1, OrderStep
      <4>8. u \in toCancel[p] \/ unit[u].cancelRequested \/ unresolved[p]
        BY <3>2, <4>6, <4>7 DEF KillInv, KillAccounts, LivePending
      <4>9. CASE toCancel'[p] = toCancel[p] /\ unresolved'[p] = unresolved[p]
        BY <4>5, <4>8, <4>9 DEF RowKept
      <4>10. CASE KillCancel(p)
        <5>1. PICK v \in Unit : /\ toCancel' = [toCancel EXCEPT ![p] = @ \ {v}]
                                /\ CancelsEntry(p, v)
          BY <2>1, <4>10 DEF KillCancel, GateInv, TypeOK
        <5>2. unresolved[p] => unresolved'[p]
          BY <2>1, <5>1 DEF CancelsEntry, GateInv, TypeOK
        <5>3. CASE v # u
          BY <2>1, <4>5, <4>8, <5>1, <5>2, <5>3 DEF RowKept, GateInv, TypeOK
        <5>4. CASE v = u
          <6>1. CASE unit[u].cancelRequested
            BY <4>5, <6>1 DEF RowKept
          <6>2. CASE unit' = [unit EXCEPT ![u].linked = TRUE,
                                          ![u].cancelRequested = TRUE]
            BY <2>1, <6>2 DEF GateInv, TypeOK, UnitRow
          <6>3. CASE unresolved' = [unresolved EXCEPT ![p] = TRUE]
            BY <2>1, <6>3 DEF GateInv, TypeOK
          <6> QED
            BY <4>7, <5>1, <5>4, <6>1, <6>2, <6>3 DEF CancelsEntry
        <5> QED
          BY <5>3, <5>4
      <4>11. CASE KillRow(p)
        BY <3>1, <4>11
      <4> QED
        BY <1>2, <2>1, <4>9, <4>10, <4>11, CancelingStep
    <3> QED
      BY <1>2, <2>1, <3>1, <3>2, CancelingStep
  <2> QED
    BY <2>1, <2>3, <2>4, <2>5 DEF KillInv
<1> QED
  BY <1>1, <1>2

(***************************************************************************)
(* kill_entries does not report success over a live entry: what it has to  *)
(* look at is listed under the lock, the row of a unit is in the file of   *)
(* its opener, and nobody else opens in that file.                         *)
(***************************************************************************)
THEOREM KillIsComplete == Spec => KillMissesNothing
<1> DEFINE Step ==
        \A p \in Process :
            KillReturns(p) /\ ~unresolved[p] =>
                \A u \in Unit :
                    /\ unit[u].status = "pending_open"
                    /\ unit[u].file = database[p]
                    /\ order[u] = "live"
                    => unit[u].cancelRequested
<1>1. Init => KillInv
  <2>1. Init => GateInv
    BY GateInvInit
  <2>2. Init => OpenerFile /\ FreshUnordered /\ KillAccounts
    BY UnitAssumption
       DEF Init, Idle, OpenerFile, FreshUnordered, KillAccounts, NoUnit, Thread,
           EntryThread
  <2> QED
    BY <2>1, <2>2 DEF KillInv
<1>2. KillInv /\ [Next]_vars => KillInv'
  BY StepKeepsKill
<1>3. KillInv /\ [Next]_vars => [Step]_vars
  BY DEF KillInv, KillAccounts, LivePending, KillReturns, At
<1> QED
  BY <1>1, <1>2, <1>3, PTL DEF Spec, KillMissesNothing
=============================================================================
