----------------------------- MODULE PendingStore -----------------------------
(***************************************************************************)
(* agent/pending_store.py on a file system: what add_pending, pop_pending  *)
(* and remove_pending of several processes do to logs/pending_retries.json *)
(* and to the one temporary path they all write through.                   *)
(*                                                                         *)
(* RetryLifecycle takes each of these calls for one step.  This module     *)
(* says when that is so: when no other call is under way.  The store has   *)
(* no lock; webhook workers, the reconcile loop and a pipeline overlap.    *)
(***************************************************************************)
EXTENDS Naturals, FiniteSets

CONSTANTS
    Procs,      \* the processes that use the store
    Orders,     \* order ids; each is added at most once
    Files,      \* files on disk, whatever name they have
    MaxCrashes, \* bound on the crashes of a behaviour
    None        \* Python's None, a name without a file

ASSUME StoreAssumption ==
    /\ None \notin Files \cup Orders \cup Procs
    /\ IsFiniteSet(Procs) /\ IsFiniteSet(Files)
    /\ Cardinality(Files) > Cardinality(Procs)
    /\ MaxCrashes \in Nat

VARIABLES
    store,      \* the file named pending_retries.json
    tmp,        \* the file named pending_retries.json.tmp
    disk,       \* the content of each file
    call,       \* the call each process is in
    added,      \* the orders that were ever added
    popped,     \* how often pop_pending has returned each order, up to 2
    alone,      \* the calls under way that no other call has overlapped
    before,     \* what the store held when the call of a process began
    crashes     \* the number of crashes so far

vars == <<store, tmp, disk, call, added, popped, alone, before, crashes>>

-----------------------------------------------------------------------------
(* Data *)

\* What a file can hold: a list of entries; nothing, after open(.., "w"); or
\* what two writers, or one that was killed, left of their documents.
Json(records) == [form |-> "json", records |-> records]
Truncated == [form |-> "truncated", records |-> {}]
Garbled == [form |-> "garbled", records |-> {}]

\* _load: an absent, empty or garbled file counts as no entries.
Entries == IF store = None THEN {} ELSE disk[store].records

\* A call: its operation, its order, its place, the records it is to save and
\* the file it has open.
Call(op, o, pc, records, fd) ==
    [op |-> op, order |-> o, pc |-> pc, records |-> records, fd |-> fd]

NoCall == Call("none", None, "idle", {}, None)

Busy == {p \in Procs : call[p].pc # "idle"}

\* What an operation makes of the records it has loaded.
Updated(op, o, records) ==
    IF op = "add" THEN records \cup {o} ELSE records \ {o}

\* json.dump from offset 0 of a file that holds `old': over another writer's
\* document, the longer of the two leaves its tail.
Written(old, records) ==
    IF old = Truncated THEN {Json(records)}
    ELSE IF records = {} THEN {Garbled}
    ELSE {Json(records), Garbled}

Init ==
    /\ store = None
    /\ tmp = None
    /\ disk = [f \in Files |-> Truncated]
    /\ call = [p \in Procs |-> NoCall]
    /\ added = {}
    /\ popped = [o \in Orders |-> 0]
    /\ alone = {}
    /\ before = [p \in Procs |-> {}]
    /\ crashes = 0

-----------------------------------------------------------------------------
(* The calls *)

\* A process calls add_pending, pop_pending or remove_pending.
Begin(p, op, o) ==
    /\ p \notin Busy
    /\ op = "add" => o \notin added
    /\ call' = [call EXCEPT ![p] = Call(op, o, "load", {}, None)]
    /\ added' = IF op = "add" THEN added \cup {o} ELSE added
    /\ alone' = IF Busy = {} THEN {p} ELSE {}
    /\ before' = [before EXCEPT ![p] = Entries]
    /\ UNCHANGED <<store, tmp, disk, popped, crashes>>

\* The call is over, and it has returned the entries of `returned'.
Return(p, returned) ==
    /\ call' = [call EXCEPT ![p] = NoCall]
    /\ popped' = [o \in Orders |-> IF o \in returned /\ popped[o] < 2
                                   THEN popped[o] + 1 ELSE popped[o]]
    /\ alone' = alone \ {p}
    /\ before' = [before EXCEPT ![p] = {}]

\* pop_pending saves only when it has found its order.
SavesAfterLoad(op, o) == op = "pop" => o \in Entries

Load(p) ==
    LET c == call[p] IN
    /\ c.pc = "load"
    /\ SavesAfterLoad(c.op, c.order)
    /\ call' = [call EXCEPT ![p] = Call(c.op, c.order, "open",
                                        Updated(c.op, c.order, Entries), None)]
    /\ UNCHANGED <<store, tmp, disk, added, popped, alone, before, crashes>>

\* pop_pending has not found its order: somebody else has claimed it.
PopNothing(p) ==
    LET c == call[p] IN
    /\ c.pc = "load"
    /\ ~ SavesAfterLoad(c.op, c.order)
    /\ Return(p, {})
    /\ UNCHANGED <<store, tmp, disk, added, crashes>>

\* Mutant: the document is written under its own name.
Target_InPlace == store

\* The name that _save writes under.
Target == tmp

\* Files that no name and no process refers to.
Unused == Files \ ({store, tmp} \cup {call[p].fd : p \in Procs})

\* Mutant: the file is opened without truncating it.
Opened_Kept(f) == disk

\* open(.., "w").
Opened(f) == [disk EXCEPT ![f] = Truncated]

\* The file of that name, or a new one.
OpenTmp(p) ==
    LET c == call[p] IN
    /\ c.pc = "open"
    /\ \E f \in IF Target = None THEN Unused ELSE {Target} :
       /\ tmp' = IF Target = None THEN f ELSE tmp
       /\ disk' = Opened(f)
       /\ call' = [call EXCEPT ![p] = Call(c.op, c.order, "write", c.records, f)]
    /\ UNCHANGED <<store, added, popped, alone, before, crashes>>

\* json.dump and close, into whatever name the open file has by now.
Write(p) ==
    LET c == call[p] IN
    /\ c.pc = "write"
    /\ \E content \in Written(disk[c.fd], c.records) :
         disk' = [disk EXCEPT ![c.fd] = content]
    /\ call' = [call EXCEPT ![p] = Call(c.op, c.order, "replace", c.records, None)]
    /\ UNCHANGED <<store, tmp, added, popped, alone, before, crashes>>

\* os.replace(tmp_path, path); pop_pending then returns its entry.
Replace(p) ==
    LET c == call[p] IN
    /\ c.pc = "replace"
    /\ tmp # None
    /\ store' = tmp
    /\ tmp' = None
    /\ Return(p, IF c.op = "pop" THEN {c.order} ELSE {})
    /\ UNCHANGED <<disk, added, crashes>>

\* Another call has replaced the file: FileNotFoundError, the caller gets
\* neither its entry nor None.
ReplaceFails(p) ==
    /\ call[p].pc = "replace"
    /\ tmp = None
    /\ Return(p, {})
    /\ UNCHANGED <<store, tmp, disk, added, crashes>>

\* The process dies, possibly half-way through its write.
Crash(p) ==
    /\ p \in Busy
    /\ crashes < MaxCrashes
    /\ crashes' = crashes + 1
    /\ \/ UNCHANGED disk
       \/ /\ call[p].pc = "write"
          /\ disk' = [disk EXCEPT ![call[p].fd] = Garbled]
    /\ Return(p, {})
    /\ UNCHANGED <<store, tmp, added>>

Step(p) ==
    \/ \E op \in {"add", "pop", "remove"}, o \in Orders : Begin(p, op, o)
    \/ Load(p) \/ PopNothing(p) \/ OpenTmp(p) \/ Write(p)
    \/ Replace(p) \/ ReplaceFails(p) \/ Crash(p)

Next == \E p \in Procs : Step(p)

Spec == Init /\ [][Next]_vars

-----------------------------------------------------------------------------
(* Properties *)

CallType == [op : {"none", "add", "pop", "remove"}, order : Orders \cup {None},
             pc : {"idle", "load", "open", "write", "replace"},
             records : SUBSET Orders, fd : Files \cup {None}]

TypeOK ==
    /\ store \in Files \cup {None}
    /\ tmp \in Files \cup {None}
    /\ disk \in [Files -> [form : {"json", "truncated", "garbled"},
                          records : SUBSET Orders]]
    /\ call \in [Procs -> CallType]
    /\ added \subseteq Orders
    /\ popped \in [Orders -> 0..2]
    /\ alone \subseteq Busy
    /\ before \in [Procs -> SUBSET Orders]
    /\ crashes \in 0..MaxCrashes

\* A call that no other call overlaps is invisible until it returns: whatever
\* earlier calls, overlaps and crashes left behind on disk, readers see what the
\* store held when the call began, half-way through its save as well.
AloneIsInvisible == \A p \in alone : Entries = before[p]

\* Such a call takes effect as a whole when it returns, or not at all when its
\* process dies: a crash mid-write leaves the original file untouched.
AloneIsAtomic ==
    [][\A p \in alone :
         call'[p].pc = "idle" =>
           \/ crashes' > crashes /\ Entries' = before[p]
           \/ Entries' = Updated(call[p].op, call[p].order, before[p])]_vars

\* README: pop_pending "is an atomic check-and-remove", so that a webhook and a
\* poll cannot both get the entry of the same order.
PoppedOnce == \A o \in Orders : popped[o] <= 1

=============================================================================
