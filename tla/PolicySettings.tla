---------------------------- MODULE PolicySettings ----------------------------
(***************************************************************************)
(* agent/settings_store.py under concurrent admin requests: the two policy *)
(* settings in SQLite, min_retry_amount (a scalar) and max_retries (one    *)
(* JSON object with a cap per cause), and the log of their changes.        *)
(*                                                                         *)
(* max_retries is read, changed and written back under a file lock;        *)
(* min_retry_amount is read for the log and overwritten without one; the   *)
(* change is logged after the lock is gone.  Each database transaction is  *)
(* one step, and so is each append to the log, which has its own lock.     *)
(***************************************************************************)
EXTENDS Naturals, FiniteSets

CONSTANTS
    Admins,         \* concurrent requests to the admin panel
    RetryCauses,    \* admin_panel.RETRY_CAUSES: the causes whose cap it offers
    MinAmounts,     \* values of min_retry_amount
    DefaultMin,     \* DEFAULT_MIN_RETRY_AMOUNT
    DefaultCaps,    \* DEFAULT_MAX_RETRIES
    MaxCap,         \* bound on the caps an admin enters
    MaxUpdates,     \* bound on the updates of a behaviour
    SettingsFaults, \* the faults a behaviour may show
    MaxFaults,      \* bound on their number
    None            \* Python's None

MinKey == "min_retry_amount"

Causes == DOMAIN DefaultCaps

Caps == 0..MaxCap

ASSUME SettingsAssumption ==
    /\ IsFiniteSet(Admins)
    /\ MinAmounts \subseteq Nat /\ DefaultMin \in MinAmounts
    /\ MaxCap \in Nat /\ DefaultCaps \in [Causes -> Caps]
    /\ MaxUpdates \in Nat /\ MaxFaults \in Nat
    /\ SettingsFaults \subseteq {"crash", "lock_timeout", "torn_write",
                              "db_read", "db_write"}
    /\ RetryCauses \subseteq Causes
    /\ \A c \in Causes \ RetryCauses : DefaultCaps[c] = 0
    /\ None \notin Admins /\ MinKey \notin Causes

VARIABLES
    minAmount,      \* the row min_retry_amount
    caps,           \* the row max_retries
    dbLock,         \* the holder of settings.db.lock
    admin,          \* each request: its place and its locals
    settingsLog,    \* settings_audit_log.json: the changes in it
    changes,        \* what each update really changed, since the log was torn
    updates,        \* the number of updates begun
    faults          \* the number of faults so far

settings == <<minAmount, caps>>
settingsVars == <<minAmount, caps, dbLock, admin, settingsLog, changes, updates, faults>>

-----------------------------------------------------------------------------
(* Data *)

\* A change: the number of the update, its key, the old and the new value.
Change(n, key, old, new) == [n |-> n, key |-> key, old |-> old, new |-> new]

\* A request: its place, its update, the old value it read, and the whole
\* max_retries object it read.
Request(pc, n, key, new, old, read) ==
    [pc |-> pc, n |-> n, key |-> key, new |-> new, old |-> old, read |-> read]

NoRequest == Request("idle", 0, None, 0, 0, DefaultCaps)

SettingsInit ==
    /\ minAmount = DefaultMin
    /\ caps = DefaultCaps
    /\ dbLock = None
    /\ admin = [a \in Admins |-> NoRequest]
    /\ settingsLog = {}
    /\ changes = {}
    /\ updates = 0
    /\ faults = 0

SettingsFault(kind) ==
    /\ kind \in SettingsFaults
    /\ faults < MaxFaults
    /\ faults' = faults + 1

\* A read of a setting returns its value, or its default when SQLite fails.
ReadMin(value) ==
    \/ value = minAmount /\ UNCHANGED faults
    \/ value = DefaultMin /\ SettingsFault("db_read")

ReadCaps(value) ==
    \/ value = caps /\ UNCHANGED faults
    \/ value = DefaultCaps /\ SettingsFault("db_read")

-----------------------------------------------------------------------------
(* update_min_retry_amount *)

BeginMin(a, new) ==
    /\ admin[a].pc = "idle"
    /\ updates < MaxUpdates
    /\ updates' = updates + 1
    /\ \E old \in MinAmounts :
         /\ ReadMin(old)
         /\ admin' = [admin EXCEPT ![a] =
                        Request("write", updates + 1, MinKey, new, old, DefaultCaps)]
    /\ UNCHANGED <<minAmount, caps, dbLock, settingsLog, changes>>

\* Mutant: only a loosened setting is logged.
LogsAfter_Raised(new, old) == new > old

\* The change is logged when the new value is not the old one that was read.
LogsAfter(new, old) == new # old

\* What follows the write of a's update.
Written(a) ==
    LET r == admin[a] IN
    admin' = [admin EXCEPT ![a] =
                IF LogsAfter(r.new, r.old)
                THEN Request("log", r.n, r.key, r.new, r.old, DefaultCaps)
                ELSE NoRequest]

\* The write of update n changes the value of key from `from' to `to'.
Changed(n, key, from, to) ==
    changes' = IF from = to THEN changes
               ELSE changes \cup {Change(n, key, from, to)}

WriteMin(a) ==
    LET r == admin[a] IN
    /\ r.pc = "write" /\ r.key = MinKey
    /\ minAmount' = r.new
    /\ Changed(r.n, MinKey, minAmount, r.new)
    /\ Written(a)
    /\ UNCHANGED <<caps, dbLock, settingsLog, updates, faults>>

-----------------------------------------------------------------------------
(* update_max_retries *)

\* Mutant: no lock.
LockFree_Always == TRUE

LockFree == dbLock = None

\* The lock is taken and the whole object is read.
BeginCaps(a, cause, new) ==
    /\ admin[a].pc = "idle"
    /\ updates < MaxUpdates
    /\ updates' = updates + 1
    /\ LockFree
    /\ dbLock' = a
    /\ \E read \in {caps, DefaultCaps} :
         /\ ReadCaps(read)
         /\ admin' = [admin EXCEPT ![a] =
                        Request("write", updates + 1, cause, new, read[cause], read)]
    /\ UNCHANGED <<minAmount, caps, settingsLog, changes>>

\* The whole object is written back with one cap changed; the lock is released.
WriteCaps(a) ==
    LET r == admin[a] IN
    /\ r.pc = "write" /\ r.key \in RetryCauses
    /\ caps' = [r.read EXCEPT ![r.key] = r.new]
    /\ Changed(r.n, r.key, caps[r.key], r.new)
    /\ dbLock' = None
    /\ Written(a)
    /\ UNCHANGED <<minAmount, settingsLog, updates, faults>>

-----------------------------------------------------------------------------
(* Both *)

\* _log_change.
LogChange(a) ==
    LET r == admin[a] IN
    /\ r.pc = "log"
    /\ settingsLog' = settingsLog \cup {Change(r.n, r.key, r.old, r.new)}
    /\ admin' = [admin EXCEPT ![a] = NoRequest]
    /\ UNCHANGED <<minAmount, caps, dbLock, changes, updates, faults>>

\* Requests end early; a file lock goes with its process or its with statement.
End(requests) ==
    /\ admin' = [a \in Admins |-> IF a \in requests THEN NoRequest ELSE admin[a]]
    /\ dbLock' = IF dbLock \in requests THEN None ELSE dbLock

\* SQLite refuses the write (a ValueError, the update is rejected), or the log's
\* lock times out (an error page, the update stands).
RequestFails(a) ==
    /\ \/ admin[a].pc = "write" /\ SettingsFault("db_write")
       \/ admin[a].pc = "log" /\ SettingsFault("lock_timeout")
    /\ End({a})
    /\ UNCHANGED <<minAmount, caps, settingsLog, changes, updates>>

\* A process of the panel is killed, with the requests its threads serve.
PanelKilled(requests) ==
    /\ \E a \in requests : admin[a].pc # "idle"
    /\ SettingsFault("crash")
    /\ End(requests)
    /\ UNCHANGED <<minAmount, caps, settingsLog, changes, updates>>

\* It is killed inside a write of the log, after open(.., "w"): the next reader
\* meets a JSONDecodeError and starts from an empty log.
LogTorn(requests) ==
    /\ \E a \in requests : admin[a].pc = "log"
    /\ SettingsFault("torn_write")
    /\ End(requests)
    /\ settingsLog' = {}
    /\ changes' = {e \in changes :
                     \E b \in Admins \ requests : admin[b].pc = "log" /\ admin[b].n = e.n}
    /\ UNCHANGED <<minAmount, caps, updates>>

AdminNext ==
    \/ \E a \in Admins :
        \/ \E new \in MinAmounts : BeginMin(a, new)
        \/ \E cause \in RetryCauses, new \in Caps : BeginCaps(a, cause, new)
        \/ WriteMin(a) \/ WriteCaps(a) \/ LogChange(a) \/ RequestFails(a)
    \/ \E requests \in SUBSET Admins : PanelKilled(requests) \/ LogTorn(requests)

SettingsSpec == SettingsInit /\ [][AdminNext]_settingsVars

-----------------------------------------------------------------------------
(* Properties *)

RequestType ==
    [pc : {"idle", "write", "log"}, n : 0..MaxUpdates,
     key : RetryCauses \cup {MinKey, None}, new : Nat, old : Nat,
     read : [Causes -> Caps]]

SettingsTypeOK ==
    /\ minAmount \in MinAmounts
    /\ caps \in [Causes -> Caps]
    /\ dbLock \in Admins \cup {None}
    /\ admin \in [Admins -> RequestType]
    /\ updates \in 0..MaxUpdates
    /\ faults \in 0..MaxFaults

\* Two admins who change the caps of two causes do not revert each other: a
\* step changes the cap of a cause only to what a request for that very cause
\* asked for (what the lock of update_max_retries is for).  The one exception is
\* a request whose read failed: it takes the defaults for the stored caps.
OtherCausesKept ==
    [][\A c \in Causes : caps'[c] # caps[c] =>
         \E a \in Admins :
           \/ admin[a].key = c /\ caps'[c] = admin[a].new
           \/ faults > 0 /\ admin[a].read = DefaultCaps /\ caps'[c] = DefaultCaps[c]]_settingsVars

InFlight == {admin[a].n : a \in {b \in Admins : admin[b].pc = "log"}}
Logged == {e.n : e \in settingsLog}

\* The log tells of the caps what really happened, old value included, unless a
\* read failed; and only a fault makes it miss a change, the killed process's
\* requests at most.
CapChangesLogged ==
    LET real == {e \in changes : e.key # MinKey} IN
    /\ \A e \in settingsLog : e.key # MinKey /\ faults = 0 => e \in real
    /\ Cardinality({e.n : e \in real} \ (Logged \cup InFlight))
         <= faults * Cardinality(Admins)

\* README: "Every change is appended to logs/settings_audit_log.json".
EveryChangeLogged ==
    \A e \in changes : e.n \in Logged \cup InFlight

=============================================================================
