---------------------------- MODULE RuntimeLease ----------------------------
(***************************************************************************)
(* Start-up and shutdown of a runtime process                              *)
(* (src/src/daemon/runtime.py, service.py): the two operating-system locks *)
(* of src/src/runtime/lease.py, the live preflight, the set-up of the      *)
(* services, and the process-local flags of src/src/exchange/client.py     *)
(* that arm order placement.  A process may fail at any of these steps,    *)
(* stop in order, or die, in which case the system frees its locks.        *)
(***************************************************************************)
EXTENDS Naturals, FiniteSets

CONSTANTS
    Process,    \* slots for runtime processes on one machine
    Database,   \* SQLite files
    Version,    \* values of the account risk limits
    Nobody      \* the owner of a free lock

ASSUME NobodyAssumption == Nobody \notin Process

VARIABLES
    phase,        \* how far create_default_runner has come
    mode,         \* RuntimeMode of the process
    database,     \* the file it opens, which stays the same
    passed,       \* LivePreflightReport.passed
    databaseLock, \* owner of the lock of each database
    accountLock,  \* owner of the lock of each account scope
    armed,        \* _ORDER_PLACEMENT_ARMED
    entryFlag,    \* _ENTRY_ORDER_PLACEMENT_ENABLED
    entriesRow,   \* entry_control.entries_enabled of each database
    limits        \* account_risk_limits: "none", "disabled" or a version

leaseVars == <<phase, mode, database, passed, databaseLock, accountLock, armed,
               entryFlag, entriesRow, limits>>

Mode == {"simulation", "demo", "live_safe", "live_armed"}
SubmitsOrders(m) == m \in {"demo", "live_armed"}

\* account_scope: the flag of the environment and the account's uid.
Scope == {"demo", "real"}
AccountScope(m) == IF m = "demo" THEN "demo" ELSE "real"

\* The steps between which another process can act.
StartPhase == {"starting", "leased", "gated", "checked", "scoped", "set"}
Phase == StartPhase \cup {"down", "stopping", "serving"}

LeaseTypeOK ==
    /\ phase \in [Process -> Phase]
    /\ mode \in [Process -> Mode]
    /\ database \in [Process -> Database]
    /\ passed \in [Process -> BOOLEAN]
    /\ databaseLock \in [Database -> Process \cup {Nobody}]
    /\ accountLock \in [Scope -> Process \cup {Nobody}]
    /\ armed \in [Process -> BOOLEAN]
    /\ entryFlag \in [Process -> BOOLEAN]
    /\ entriesRow \in [Database -> BOOLEAN]
    /\ limits \in [Database -> {"none", "disabled"} \cup Version]

LeaseInit ==
    /\ phase = [p \in Process |-> "down"]
    /\ mode = [p \in Process |-> "simulation"]
    /\ database \in [Process -> Database]
    /\ passed = [p \in Process |-> FALSE]
    /\ databaseLock = [d \in Database |-> Nobody]
    /\ accountLock = [s \in Scope |-> Nobody]
    /\ armed = [p \in Process |-> FALSE]
    /\ entryFlag = [p \in Process |-> FALSE]
    /\ entriesRow = [d \in Database |-> FALSE]
    /\ limits \in [Database -> {"none"} \cup Version]

-----------------------------------------------------------------------------
Advance(p, from, to) == phase[p] = from /\ phase' = [phase EXCEPT ![p] = to]

\* disarm_order_placement.
Disarm(p) ==
    /\ armed' = [armed EXCEPT ![p] = FALSE]
    /\ entryFlag' = [entryFlag EXCEPT ![p] = FALSE]

\* RuntimeLease.release, which is also what the system does for a dead process.
Release(p) ==
    /\ databaseLock' = [d \in Database |->
           IF databaseLock[d] = p THEN Nobody ELSE databaseLock[d]]
    /\ accountLock' = [s \in Scope |->
           IF accountLock[s] = p THEN Nobody ELSE accountLock[s]]

\* Nothing is left of what the process knew.
Forget(p) ==
    /\ mode' = [mode EXCEPT ![p] = "simulation"]
    /\ passed' = [passed EXCEPT ![p] = FALSE]

\* The mode, the path of the database and its health are settled first.
Start(p) ==
    /\ Advance(p, "down", "starting")
    /\ \E m \in Mode : mode' = [mode EXCEPT ![p] = m]
    /\ Disarm(p)
    /\ UNCHANGED <<database, passed, databaseLock, accountLock, entriesRow, limits>>

\* RuntimeLease.acquire before the account is known.
AcquireDatabase(p) ==
    /\ databaseLock[database[p]] = Nobody
    /\ Advance(p, "starting", "leased")
    /\ databaseLock' = [databaseLock EXCEPT ![database[p]] = p]
    /\ UNCHANGED <<mode, database, passed, accountLock, armed, entryFlag,
                   entriesRow, limits>>

\* Entries start disabled, unless the process only simulates.
CloseGateAtStart(p) ==
    /\ mode[p] # "simulation"
    /\ Advance(p, "leased", "gated")
    /\ entriesRow' = [entriesRow EXCEPT ![database[p]] = FALSE]
    /\ UNCHANGED <<mode, database, passed, databaseLock, accountLock, armed,
                   entryFlag, limits>>

\* run_live_preflight: without limits only Demo starts, and does not pass.
Preflight(p) ==
    LET configured == limits[database[p]] IN
    /\ Advance(p, "gated", "checked")
    /\ SubmitsOrders(mode[p]) =>
           configured \in Version \/ (configured = "none" /\ mode[p] = "demo")
    /\ passed' = [passed EXCEPT ![p] =
           SubmitsOrders(mode[p]) => configured \in Version]
    /\ UNCHANGED <<mode, database, databaseLock, accountLock, armed, entryFlag,
                   entriesRow, limits>>

\* Mutant: a busy account lock is not noticed.
BindWithoutConflict(p) ==
    /\ Advance(p, "checked", "scoped")
    /\ accountLock' = [accountLock EXCEPT ![AccountScope(mode[p])] = p]
    /\ UNCHANGED <<mode, database, passed, databaseLock, armed, entryFlag,
                   entriesRow, limits>>

BindAccountScope(p) ==
    /\ accountLock[AccountScope(mode[p])] = Nobody
    /\ Advance(p, "checked", "scoped")
    /\ accountLock' = [accountLock EXCEPT ![AccountScope(mode[p])] = p]
    /\ UNCHANGED <<mode, database, passed, databaseLock, armed, entryFlag,
                   entriesRow, limits>>

\* Registration and setup_services; a simulation has nothing to wait for.
SetupServices(p) ==
    /\ \/ Advance(p, "scoped", "set")
       \/ mode[p] = "simulation" /\ Advance(p, "leased", "serving")
    /\ UNCHANGED <<mode, database, passed, databaseLock, accountLock, armed,
                   entryFlag, entriesRow, limits>>

\* Orders are armed last.
Arm(p) ==
    /\ Advance(p, "set", "serving")
    /\ IF SubmitsOrders(mode[p]) /\ passed[p]
       THEN armed' = [armed EXCEPT ![p] = TRUE] /\ UNCHANGED entryFlag
       ELSE Disarm(p)
    /\ UNCHANGED <<mode, database, passed, databaseLock, accountLock, entriesRow,
                   limits>>

\* A lock is busy, the row is not written, the preflight raises: what is held
\* is released before the error leaves create_default_runner.
StartFails(p) ==
    /\ \E from \in {"starting", "leased", "gated", "checked"} :
          Advance(p, from, "down")
    /\ Release(p) /\ Forget(p)
    /\ UNCHANGED <<database, armed, entryFlag, entriesRow, limits>>

\* A required service fails its setup, or a serving runner is interrupted:
\* teardown_services reaches the lease service last, which disarms, ...
Teardown(p) ==
    /\ \E from \in {"scoped", "set", "serving"} : Advance(p, from, "stopping")
    /\ Disarm(p)
    /\ UNCHANGED <<mode, database, passed, databaseLock, accountLock, entriesRow,
                   limits>>

\* ... and then releases.
ReleaseLease(p) ==
    /\ Advance(p, "stopping", "down")
    /\ Release(p) /\ Forget(p)
    /\ UNCHANGED <<database, armed, entryFlag, entriesRow, limits>>

\* The process dies: its flags go with it and the system frees its locks.
Die(p) ==
    /\ phase[p] # "down"
    /\ phase' = [phase EXCEPT ![p] = "down"]
    /\ Disarm(p) /\ Release(p) /\ Forget(p)
    /\ UNCHANGED <<database, entriesRow, limits>>

StartStep(p) ==
    \/ AcquireDatabase(p) \/ CloseGateAtStart(p) \/ Preflight(p)
    \/ BindAccountScope(p) \/ SetupServices(p) \/ Arm(p) \/ StartFails(p)
    \/ ReleaseLease(p)

-----------------------------------------------------------------------------
\* A process that is armed holds both its locks.
ArmedHoldsLease(p) ==
    armed[p] => /\ phase[p] = "serving"
                /\ databaseLock[database[p]] = p
                /\ accountLock[AccountScope(mode[p])] = p

(***************************************************************************)
(* Two processes never have order placement armed at once for the same     *)
(* account or on the same database, whatever fails or dies during their    *)
(* start-up and shutdown (lease.py's two locks, and runtime.py's order of  *)
(* binding, arming and disarming).                                         *)
(***************************************************************************)
ArmedIsExclusive ==
    \A p, q \in Process :
        p # q /\ armed[p] /\ armed[q] =>
            /\ database[p] # database[q]
            /\ AccountScope(mode[p]) # AccountScope(mode[q])
=============================================================================
