------------------------------- MODULE JsonLog -------------------------------
(***************************************************************************)
(* A log of the agent as a file: one JSON list that every append reads     *)
(* whole, extends by an entry and writes back whole.                       *)
(*                                                                         *)
(* Five functions do this, in the same words.  The audit logs of payments, *)
(* receivables and checkouts and the log of the settings are rewritten     *)
(* under a file lock; the webhook event log is rewritten without one       *)
(* (`locked' says which).  Nobody who reads a log takes its lock.          *)
(***************************************************************************)
EXTENDS Naturals, Sequences

CONSTANTS
    Writers,    \* the processes that append
    Entries,    \* what they append
    MaxAppends, \* bound on the appends of a behaviour
    MaxKills,   \* bound on the processes killed in a behaviour
    None        \* nobody holds the lock

ASSUME LogAssumption ==
    /\ None \notin Writers
    /\ MaxAppends \in Nat /\ MaxKills \in Nat

VARIABLES
    locked,     \* whether the writers of this log use its lock
    holder,     \* who holds the lock
    file,       \* the content of the log
    writer,     \* each writer: its place, its entry and the list it has loaded
    returned,   \* the entries of all appends that returned, since the last tear
    overlapped, \* whether two appends ever overlapped
    appends,    \* the number of appends begun
    kills       \* the number of processes killed

logVars == <<locked, holder, file, writer, returned, overlapped, appends, kills>>

-----------------------------------------------------------------------------
(* Data *)

\* A file holds a list; or nothing, after open(.., "w") or before the first
\* append; or what a killed writer, or two at a time, left of their documents.
Json(log) == [form |-> "json", log |-> log]
Empty == [form |-> "empty", log |-> <<>>]
Garbled == [form |-> "garbled", log |-> <<>>]

\* json.load, which takes an absent, empty or garbled file for an empty list.
Parsed == file.log

Writer(pc, entry, loaded) == [pc |-> pc, entry |-> entry, loaded |-> loaded]
IdleWriter == Writer("idle", None, <<>>)

\* Between loading the list and writing it back; with the file open for it.
InFlight == {w \in Writers : writer[w].pc \in {"open", "write"}}
Writing == {w \in Writers : writer[w].pc = "write"}

LogInit ==
    /\ locked \in BOOLEAN
    /\ holder = None
    /\ file = Empty
    /\ writer = [w \in Writers |-> IdleWriter]
    /\ returned = <<>>
    /\ overlapped = FALSE
    /\ appends = 0
    /\ kills = 0

-----------------------------------------------------------------------------
(* An append *)

BeginAppend(w, e) ==
    /\ writer[w].pc = "idle"
    /\ appends < MaxAppends
    /\ writer' = [writer EXCEPT ![w] = Writer("wait", e, <<>>)]
    /\ appends' = appends + 1
    /\ UNCHANGED <<locked, holder, file, returned, overlapped, kills>>

\* Mutant: the lock is never waited for.
LockFree_Always == TRUE

LockFree == locked => holder = None

\* The lock is taken, if there is one, and the list is read.
Load(w) ==
    /\ writer[w].pc = "wait"
    /\ LockFree
    /\ holder' = IF locked THEN w ELSE None
    /\ writer' = [writer EXCEPT ![w] = Writer("open", writer[w].entry, Parsed)]
    /\ overlapped' = IF InFlight = {} THEN overlapped ELSE TRUE
    /\ UNCHANGED <<locked, file, returned, appends, kills>>

\* Mutant: the lock covers the read only.
HeldWhileWriting_No(w) == None

\* The with statement ends after the write.
HeldWhileWriting(w) == holder

\* open(.., "w") truncates the file.
Truncate(w) ==
    /\ writer[w].pc = "open"
    /\ file' = Empty
    /\ holder' = HeldWhileWriting(w)
    /\ writer' = [writer EXCEPT ![w] = Writer("write", writer[w].entry, writer[w].loaded)]
    /\ UNCHANGED <<locked, returned, overlapped, appends, kills>>

Document(w) == Json(Append(writer[w].loaded, writer[w].entry))

\* What json.dump leaves in the file: over or between the writes of another
\* writer, possibly a mixture.
Dumped(w) ==
    IF file = Empty /\ Writing = {w} THEN {Document(w)} ELSE {Document(w), Garbled}

\* The lock of a process goes with its with statement, or with the process.
Release(w) == holder' = IF holder = w THEN None ELSE holder

\* The write, the close and the release: the append returns.
Write(w) ==
    /\ writer[w].pc = "write"
    /\ file' \in Dumped(w)
    /\ writer' = [writer EXCEPT ![w] = IdleWriter]
    /\ Release(w)
    /\ returned' = Append(returned, writer[w].entry)
    /\ UNCHANGED <<locked, overlapped, appends, kills>>

\* FileLock(.., timeout=10) gives up: filelock.Timeout, the entry is not logged.
TimeOut(w) ==
    /\ writer[w].pc = "wait"
    /\ ~ LockFree
    /\ writer' = [writer EXCEPT ![w] = IdleWriter]
    /\ UNCHANGED <<locked, holder, file, returned, overlapped, appends, kills>>

\* The process is killed, maybe inside its write: the log is torn, the next
\* append starts a new list.
Kill(w) ==
    /\ kills < MaxKills
    /\ kills' = kills + 1
    /\ IF writer[w].pc = "write"
       THEN file' \in {file, Garbled} /\ returned' = <<>>
       ELSE UNCHANGED <<file, returned>>
    /\ writer' = [writer EXCEPT ![w] = IdleWriter]
    /\ Release(w)
    /\ UNCHANGED <<locked, overlapped, appends>>

LogStep(w) == Load(w) \/ Truncate(w) \/ Write(w) \/ TimeOut(w) \/ Kill(w)

LogNext == \E w \in Writers : LogStep(w) \/ \E e \in Entries : BeginAppend(w, e)

LogSpec == LogInit /\ [][LogNext]_logVars

-----------------------------------------------------------------------------
(* Properties *)

\* The list that the log stands for: what the holder of the lock has loaded,
\* while it has the file open, and what is in the file otherwise.
Committed ==
    IF holder # None /\ holder \in Writing THEN writer[holder].loaded ELSE Parsed

\* execute.append_to_audit_log: concurrent callers "cannot race on the
\* read-modify-write and silently drop each other's writes".  Whatever appends,
\* waits and timeouts interleave, a log with a lock holds every entry whose
\* append returned, in that order; so does one without, until two of its
\* appends overlap.  Who reads meanwhile gets that list or, during a write, an
\* empty one; never a part of it.
NothingLost ==
    locked \/ ~ overlapped =>
        \/ Parsed = returned
        \/ Parsed = <<>> /\ Writing # {}

\* Under the lock an append is one step of the list, which happens when the
\* append returns; a killed process leaves the list alone or empties it.
LockedAppend ==
    locked => \/ Committed' = Committed
              \/ \E w \in Writing : /\ w \notin Writing'
                                    /\ Committed' = Append(Committed, writer[w].entry)
              \/ kills' > kills /\ Committed' = <<>>

LockedAppendIsAtomic == [][LockedAppend]_logVars

-----------------------------------------------------------------------------
(* The inductive invariant behind both *)

\* The log is written by one at a time.
Exclusive == locked \/ ~ overlapped

LockHeld == locked => \A w \in InFlight : holder = w

OneInFlight == Exclusive => \A v, w \in InFlight : v = w

\* Nothing was appended since the list was loaded; the file is empty until the
\* list is written back.
LoadedIsCurrent ==
    Exclusive => /\ \A w \in InFlight : writer[w].loaded = returned
                 /\ Writing # {} => file = Empty

WritersOK ==
    writer = [w \in Writers |-> Writer(writer[w].pc, writer[w].entry, writer[w].loaded)]

LogTypeOK ==
    /\ locked \in BOOLEAN /\ overlapped \in BOOLEAN
    /\ holder \in Writers \cup {None}
    /\ WritersOK
    /\ appends \in 0..MaxAppends /\ kills \in 0..MaxKills

LogInv == LogTypeOK /\ LockHeld /\ OneInFlight /\ LoadedIsCurrent /\ NothingLost

=============================================================================
