-------------------------- MODULE PendingStoreProofs --------------------------
(***************************************************************************)
(* A call of the pending store that no other call overlaps is atomic, for  *)
(* any processes, orders, files and crashes, and whatever earlier calls    *)
(* that did overlap have left on disk; and as long as no two calls overlap *)
(* at all, an entry is popped once.                                        *)
(***************************************************************************)
EXTENDS PendingStore, TLAPS

-----------------------------------------------------------------------------
(* The inductive invariant *)

\* Who has not been overlapped is the only one under way.
OneAlone == \A p \in alone : Busy = {p}

\* Who is in a call has an order in hand.
Ordered == \A p \in Busy : call[p].order \in Orders

\* The store and the temporary file are two files.
Separate == store = None \/ store # tmp

\* What the only call under way has done so far: readers see what it found; it
\* is to save what its operation makes of that; the file it writes is the
\* temporary one, which is empty until it has written it.
Undisturbed(p) ==
    /\ Entries = before[p]
    /\ call[p].pc \in {"open", "write", "replace"} =>
         call[p].records = Updated(call[p].op, call[p].order, before[p])
    /\ call[p].pc = "write" =>
         call[p].fd = tmp /\ tmp # None /\ disk[tmp] = Truncated
    /\ call[p].pc = "replace" =>
         tmp # None /\ disk[tmp] = Json(call[p].records)

StoreInv ==
    /\ TypeOK
    /\ OneAlone
    /\ Ordered
    /\ Separate
    /\ \A p \in alone : Undisturbed(p)

-----------------------------------------------------------------------------
(* Calls *)

\* The fields of a call.
LEMMA CallFields ==
    ASSUME NEW op, NEW o, NEW pc, NEW records, NEW fd
    PROVE  /\ Call(op, o, pc, records, fd).op = op
           /\ Call(op, o, pc, records, fd).order = o
           /\ Call(op, o, pc, records, fd).pc = pc
           /\ Call(op, o, pc, records, fd).records = records
           /\ Call(op, o, pc, records, fd).fd = fd
BY DEF Call

\* A call of well-typed fields is well typed, as are its fields.
LEMMA CallTypes ==
    /\ NoCall \in CallType /\ NoCall.pc = "idle"
    /\ \A c \in CallType : /\ c.op \in {"none", "add", "pop", "remove"}
                           /\ c.order \in Orders \cup {None}
                           /\ c.pc \in {"idle", "load", "open", "write", "replace"}
                           /\ c.records \in SUBSET Orders
                           /\ c.fd \in Files \cup {None}
    /\ \A op \in {"none", "add", "pop", "remove"}, o \in Orders \cup {None},
          pc \in {"idle", "load", "open", "write", "replace"},
          records \in SUBSET Orders, fd \in Files \cup {None} :
         Call(op, o, pc, records, fd) \in CallType
BY DEF NoCall, Call, CallType

\* What a process is in changes, and nobody else's call.
LEMMA CallSet ==
    ASSUME TypeOK, NEW p \in Procs, NEW c, call' = [call EXCEPT ![p] = c]
    PROVE  /\ call'[p] = c
           /\ \A q \in Procs \ {p} : call'[q] = call[q]
           /\ Busy' = IF c.pc = "idle" THEN Busy \ {p} ELSE Busy \cup {p}
           /\ c \in CallType => call' \in [Procs -> CallType]
<1>1. call \in [Procs -> CallType]
  BY DEF TypeOK
<1>2. call'[p] = c /\ \A q \in Procs \ {p} : call'[q] = call[q]
  BY <1>1
<1>3. c \in CallType => call' \in [Procs -> CallType]
  BY <1>1
<1>4. Busy' = IF c.pc = "idle" THEN Busy \ {p} ELSE Busy \cup {p}
  BY <1>2 DEF Busy
<1> QED BY <1>2, <1>3, <1>4

\* Readers see some orders, if what is on disk is well typed.
LEMMA EntriesType == ASSUME TypeOK PROVE Entries \in SUBSET Orders
BY DEF TypeOK, Entries

\* Under way is who is in a call of some kind.
LEMMA InCall ==
    ASSUME NEW p \in Procs, call[p].pc \in {"load", "open", "write", "replace"}
    PROVE  p \in Busy
BY DEF Busy

\* What a return leaves: nobody alone that was not.
LEMMA ReturnKeeps ==
    ASSUME StoreInv, NEW p \in Busy, NEW returned, Return(p, returned)
    PROVE  /\ call' \in [Procs -> CallType]
           /\ popped' \in [Orders -> 0..2]
           /\ before' \in [Procs -> SUBSET Orders]
           /\ Busy' = Busy \ {p}
           /\ alone' = {}
           /\ call'[p].pc = "idle"
           /\ \A q \in Procs \ {p} : call'[q] = call[q]
<1>1. p \in Procs
  BY DEF Busy
<1>2. /\ call' = [call EXCEPT ![p] = NoCall]
      /\ popped' = [o \in Orders |-> IF o \in returned /\ popped[o] < 2
                                     THEN popped[o] + 1 ELSE popped[o]]
      /\ alone' = alone \ {p}
      /\ before' = [before EXCEPT ![p] = {}]
  BY DEF Return
<1>3. /\ call' \in [Procs -> CallType] /\ Busy' = Busy \ {p} /\ call'[p].pc = "idle"
      /\ \A q \in Procs \ {p} : call'[q] = call[q]
  BY <1>1, <1>2, CallSet, CallTypes DEF StoreInv
<1>4. popped' \in [Orders -> 0..2]
  BY <1>2 DEF StoreInv, TypeOK
<1>5. before' \in [Procs -> SUBSET Orders]
  BY <1>2 DEF StoreInv, TypeOK
<1>6. alone' = {}
  BY <1>2 DEF StoreInv, OneAlone, TypeOK
<1> QED BY <1>3, <1>4, <1>5, <1>6

-----------------------------------------------------------------------------
(* The invariant is inductive *)

LEMMA StoreInitially == Init => StoreInv
<1> SUFFICES ASSUME Init PROVE StoreInv
  OBVIOUS
<1>1. TypeOK
  BY StoreAssumption, CallTypes DEF Init, TypeOK, Truncated
<1>2. Busy = {}
  BY CallTypes DEF Init, Busy
<1> QED BY <1>1, <1>2 DEF Init, StoreInv, OneAlone, Ordered, Separate

\* A call begins.
LEMMA BeginKeeps ==
    ASSUME StoreInv, NEW p \in Procs, NEW op \in {"add", "pop", "remove"},
           NEW o \in Orders, Begin(p, op, o)
    PROVE  StoreInv'
<1> PICK c : c = Call(op, o, "load", {}, None)
  OBVIOUS
<1>1. /\ p \notin Busy
      /\ call' = [call EXCEPT ![p] = c]
      /\ added' = IF op = "add" THEN added \cup {o} ELSE added
      /\ alone' = IF Busy = {} THEN {p} ELSE {}
      /\ before' = [before EXCEPT ![p] = Entries]
      /\ UNCHANGED <<store, tmp, disk, popped, crashes>>
  BY DEF Begin
<1>2. c \in CallType /\ c.pc = "load" /\ c.order = o
  BY CallTypes, CallFields
<1>3. /\ call' \in [Procs -> CallType] /\ Busy' = Busy \cup {p} /\ call'[p] = c
      /\ \A q \in Procs \ {p} : call'[q] = call[q]
  BY <1>1, <1>2, CallSet DEF StoreInv
<1>9. Ordered'
  BY <1>2, <1>3 DEF StoreInv, Ordered, Busy
<1>4. TypeOK'
  BY <1>1, <1>3, EntriesType DEF StoreInv, TypeOK
<1>5. Entries' = Entries
  BY <1>1 DEF Entries
<1>6. before'[p] = Entries
  BY <1>1 DEF StoreInv, TypeOK
<1>7. \A q \in alone' : q = p /\ Busy' = {p}
  BY <1>1, <1>3
<1>8. Separate'
  BY <1>1 DEF StoreInv, Separate
<1> QED BY <1>2, <1>3, <1>4, <1>5, <1>6, <1>7, <1>8, <1>9 DEF StoreInv, OneAlone, Undisturbed

\* A step within a call that leaves the store alone, and whose own file no other
\* call has.
LEMMA WithinKeeps ==
    ASSUME StoreInv, NEW p \in Busy, NEW c \in CallType, c.pc # "idle", c.order \in Orders,
           call' = [call EXCEPT ![p] = c],
           TypeOK',
           Separate',
           p \in alone => Undisturbed(p)',
           alone' = alone
    PROVE  StoreInv'
<1>1. p \in Procs
  BY DEF Busy
<1>2. /\ call'[p] = c
      /\ \A q \in Procs \ {p} : call'[q] = call[q]
      /\ Busy' = Busy
  <2>1. /\ call'[p] = c
        /\ \A q \in Procs \ {p} : call'[q] = call[q]
        /\ Busy' = Busy \cup {p}
    BY <1>1, CallSet DEF StoreInv
  <2> QED BY <2>1
<1>3. Ordered'
  BY <1>1, <1>2 DEF StoreInv, Ordered, Busy
<1>4. \A q \in alone : q = p
  BY DEF StoreInv, OneAlone
<1> QED BY <1>2, <1>3, <1>4 DEF StoreInv, OneAlone

\* A return leaves nobody alone.
LEMMA ReturnedKeeps ==
    ASSUME StoreInv, NEW p \in Busy, NEW returned, Return(p, returned),
           TypeOK', Separate'
    PROVE  StoreInv'
<1>1. /\ Busy' = Busy \ {p} /\ alone' = {}
      /\ \A q \in Procs \ {p} : call'[q] = call[q]
  BY ReturnKeeps
<1>2. Ordered'
  BY <1>1 DEF StoreInv, Ordered, Busy
<1> QED BY <1>1, <1>2 DEF StoreInv, OneAlone

LEMMA LoadKeeps ==
    ASSUME StoreInv, NEW p \in Procs, Load(p)
    PROVE  StoreInv'
<1> PICK c : c = call[p]
  OBVIOUS
<1> PICK n : n = Call(c.op, c.order, "open", Updated(c.op, c.order, Entries), None)
  OBVIOUS
<1>1. /\ c.pc = "load"
      /\ call' = [call EXCEPT ![p] = n]
      /\ UNCHANGED <<store, tmp, disk, added, popped, alone, before, crashes>>
  BY DEF Load
<1>2. p \in Busy /\ c \in CallType /\ c.order \in Orders
  BY <1>1, InCall DEF StoreInv, TypeOK, Ordered
<1>3. Updated(c.op, c.order, Entries) \in SUBSET Orders
  BY <1>2, EntriesType DEF Updated, StoreInv
<1>4. n \in CallType
  BY <1>2, <1>3, CallTypes
<1>5. /\ n.op = c.op /\ n.order = c.order /\ n.pc = "open"
      /\ n.records = Updated(c.op, c.order, Entries)
  BY CallFields
<1>6. call' \in [Procs -> CallType] /\ call'[p] = n /\ Busy' = Busy \cup {p}
  BY <1>1, <1>2, <1>4, <1>5, CallSet DEF StoreInv
<1>7. TypeOK' /\ Separate'
  BY <1>1, <1>6 DEF StoreInv, TypeOK, Separate
<1>8. Entries' = Entries /\ before' = before
  BY <1>1 DEF Entries
<1>9. p \in alone => Undisturbed(p)'
  <2> SUFFICES ASSUME p \in alone PROVE Undisturbed(p)'
    OBVIOUS
  <2>1. Entries = before[p]
    BY DEF StoreInv, Undisturbed
  <2> QED BY <2>1, <1>5, <1>6, <1>8 DEF Undisturbed
<1> QED BY <1>1, <1>2, <1>4, <1>5, <1>7, <1>9, WithinKeeps

LEMMA PopNothingKeeps ==
    ASSUME StoreInv, NEW p \in Procs, PopNothing(p)
    PROVE  StoreInv'
<1>1. /\ p \in Busy /\ Return(p, {})
      /\ UNCHANGED <<store, tmp, disk, added, crashes>>
  BY InCall DEF PopNothing
<1>2. TypeOK' /\ Separate'
  BY <1>1, ReturnKeeps DEF StoreInv, TypeOK, Separate
<1> QED BY <1>1, <1>2, ReturnedKeeps

\* What a file holds.
LEMMA ContentTypes ==
    LET Content == [form : {"json", "truncated", "garbled"}, records : SUBSET Orders] IN
    /\ Truncated \in Content
    /\ Garbled \in Content
    /\ \A records \in SUBSET Orders : Json(records) \in Content
BY DEF Truncated, Garbled, Json

LEMMA OpenTmpKeeps ==
    ASSUME StoreInv, NEW p \in Procs, OpenTmp(p)
    PROVE  StoreInv'
<1> PICK c : c = call[p]
  OBVIOUS
<1>1. PICK f \in IF tmp = None THEN Unused ELSE {tmp} :
        /\ tmp' = IF tmp = None THEN f ELSE tmp
        /\ disk' = [disk EXCEPT ![f] = Truncated]
        /\ call' = [call EXCEPT ![p] = Call(c.op, c.order, "write", c.records, f)]
  BY DEF OpenTmp, Target, Opened
<1> PICK n : n = Call(c.op, c.order, "write", c.records, f)
  OBVIOUS
<1>2. c.pc = "open" /\ UNCHANGED <<store, added, popped, alone, before, crashes>>
  BY DEF OpenTmp
<1>3. p \in Busy /\ c \in CallType /\ c.order \in Orders
  BY <1>2, InCall DEF StoreInv, TypeOK, Ordered
<1>4. f \in Files /\ f # store /\ tmp' = f /\ f # None
  <2>1. CASE tmp = None
    BY <1>1, <2>1, StoreAssumption DEF Unused
  <2>2. CASE tmp # None
    BY <1>1, <2>2 DEF StoreInv, TypeOK, Separate
  <2> QED BY <2>1, <2>2
<1>5. /\ n \in CallType /\ n.op = c.op /\ n.order = c.order /\ n.pc = "write"
      /\ n.records = c.records /\ n.fd = f
  BY <1>3, <1>4, CallTypes, CallFields
<1>6. call' \in [Procs -> CallType] /\ call'[p] = n /\ Busy' = Busy \cup {p}
  BY <1>1, <1>5, CallSet DEF StoreInv
<1>7. /\ disk' \in [Files -> [form : {"json", "truncated", "garbled"},
                             records : SUBSET Orders]]
      /\ disk'[f] = Truncated /\ \A g \in Files \ {f} : disk'[g] = disk[g]
  BY <1>1, <1>4, ContentTypes DEF StoreInv, TypeOK
<1>8. TypeOK' /\ Separate'
  <2>1. alone' \subseteq Busy'
    BY <1>2, <1>6 DEF StoreInv, TypeOK
  <2> QED BY <2>1, <1>2, <1>4, <1>6, <1>7 DEF StoreInv, TypeOK, Separate
<1>9. Entries' = Entries
  BY <1>2, <1>4, <1>7 DEF StoreInv, TypeOK, Entries
<1>10. p \in alone => Undisturbed(p)'
  <2> SUFFICES ASSUME p \in alone PROVE Undisturbed(p)'
    OBVIOUS
  <2>1. Entries = before[p] /\ c.records = Updated(c.op, c.order, before[p])
    BY <1>2 DEF StoreInv, Undisturbed
  <2> QED BY <2>1, <1>2, <1>4, <1>5, <1>6, <1>7, <1>9 DEF Undisturbed
<1> QED BY <1>1, <1>2, <1>3, <1>5, <1>8, <1>10, WithinKeeps

LEMMA WriteKeeps ==
    ASSUME StoreInv, NEW p \in Procs, Write(p)
    PROVE  StoreInv'
<1> PICK c : c = call[p]
  OBVIOUS
<1> PICK n : n = Call(c.op, c.order, "replace", c.records, None)
  OBVIOUS
<1>1. PICK content \in Written(disk[c.fd], c.records) :
        disk' = [disk EXCEPT ![c.fd] = content]
  BY DEF Write
<1>2. /\ c.pc = "write" /\ call' = [call EXCEPT ![p] = n]
      /\ UNCHANGED <<store, tmp, added, popped, alone, before, crashes>>
  BY DEF Write
<1>3. p \in Busy /\ c \in CallType /\ c.order \in Orders
  BY <1>2, InCall DEF StoreInv, TypeOK, Ordered
<1>4. /\ n \in CallType /\ n.op = c.op /\ n.order = c.order /\ n.pc = "replace"
      /\ n.records = c.records
  BY <1>3, CallTypes, CallFields
<1>5. call' \in [Procs -> CallType] /\ call'[p] = n /\ Busy' = Busy \cup {p}
  BY <1>2, <1>4, CallSet DEF StoreInv
<1>6. c.records \in SUBSET Orders
  BY <1>3, CallTypes
<1>7. content \in {Json(c.records), Garbled}
  BY <1>1 DEF Written
<1>8. disk' \in [Files -> [form : {"json", "truncated", "garbled"},
                          records : SUBSET Orders]]
  BY ZenonT(60), <1>1, <1>6, <1>7, ContentTypes DEF StoreInv, TypeOK
<1>9. TypeOK' /\ Separate'
  <2>1. alone' \subseteq Busy'
    BY <1>2, <1>5 DEF StoreInv, TypeOK
  <2> QED BY <2>1, <1>2, <1>5, <1>8 DEF StoreInv, TypeOK, Separate
<1>10. p \in alone => Undisturbed(p)'
  <2> SUFFICES ASSUME p \in alone PROVE Undisturbed(p)'
    OBVIOUS
  <2>1. /\ Entries = before[p] /\ c.records = Updated(c.op, c.order, before[p])
        /\ c.fd = tmp /\ tmp # None /\ disk[tmp] = Truncated
    BY <1>2 DEF StoreInv, Undisturbed
  <2>2. tmp \in Files /\ store # tmp
    BY <2>1 DEF StoreInv, TypeOK, Separate
  <2>3. content = Json(c.records)
    BY <1>1, <2>1 DEF Written
  <2>4. disk'[tmp] = Json(c.records) /\ \A g \in Files \ {tmp} : disk'[g] = disk[g]
    BY <1>1, <2>1, <2>2, <2>3 DEF StoreInv, TypeOK
  <2>5. Entries' = Entries
    BY <1>2, <2>2, <2>4 DEF StoreInv, TypeOK, Entries
  <2> QED BY <2>1, <2>4, <2>5, <1>2, <1>4, <1>5 DEF Undisturbed
<1> QED BY <1>2, <1>3, <1>4, <1>9, <1>10, WithinKeeps

LEMMA ReplaceKeeps ==
    ASSUME StoreInv, NEW p \in Procs, Replace(p)
    PROVE  StoreInv'
<1> PICK returned : returned = IF call[p].op = "pop" THEN {call[p].order} ELSE {}
  OBVIOUS
<1>1. /\ p \in Busy /\ Return(p, returned)
      /\ tmp # None /\ store' = tmp /\ tmp' = None /\ UNCHANGED <<disk, added, crashes>>
  BY InCall DEF Replace
<1>2. TypeOK' /\ Separate'
  BY <1>1, ReturnKeeps DEF StoreInv, TypeOK, Separate
<1> QED BY <1>1, <1>2, ReturnedKeeps

LEMMA ReplaceFailsKeeps ==
    ASSUME StoreInv, NEW p \in Procs, ReplaceFails(p)
    PROVE  StoreInv'
<1>1. /\ p \in Busy /\ Return(p, {})
      /\ UNCHANGED <<store, tmp, disk, added, crashes>>
  BY InCall DEF ReplaceFails
<1>2. TypeOK' /\ Separate'
  BY <1>1, ReturnKeeps DEF StoreInv, TypeOK, Separate
<1> QED BY <1>1, <1>2, ReturnedKeeps

LEMMA CrashKeeps ==
    ASSUME StoreInv, NEW p \in Procs, Crash(p)
    PROVE  StoreInv'
<1>1. /\ p \in Busy /\ Return(p, {}) /\ crashes < MaxCrashes /\ crashes' = crashes + 1
      /\ UNCHANGED <<store, tmp, added>>
      /\ disk' = disk \/ disk' = [disk EXCEPT ![call[p].fd] = Garbled]
  BY DEF Crash
<1>2. disk' \in [Files -> [form : {"json", "truncated", "garbled"},
                          records : SUBSET Orders]]
  BY <1>1, ContentTypes DEF StoreInv, TypeOK
<1>3. crashes' \in 0..MaxCrashes
  BY <1>1, StoreAssumption DEF StoreInv, TypeOK
<1>4. TypeOK' /\ Separate'
  BY <1>1, <1>2, <1>3, ReturnKeeps DEF StoreInv, TypeOK, Separate
<1> QED BY <1>1, <1>4, ReturnedKeeps

LEMMA NextKeeps == ASSUME StoreInv, [Next]_vars PROVE StoreInv'
<1>1. CASE UNCHANGED vars
  BY <1>1 DEF StoreInv, vars, TypeOK, OneAlone, Ordered, Separate, Undisturbed, Busy, Entries
<1>2. ASSUME NEW p \in Procs, Step(p) PROVE StoreInv'
  BY <1>2, BeginKeeps, LoadKeeps, PopNothingKeeps, OpenTmpKeeps, WriteKeeps,
     ReplaceKeeps, ReplaceFailsKeeps, CrashKeeps DEF Step
<1> QED BY <1>1, <1>2 DEF Next

\* The invariant holds throughout, with any number of overlapping calls.
THEOREM StoreInvariance == Spec => []StoreInv
BY StoreInitially, NextKeeps, PTL DEF Spec

\* Every field of the store is of its type.
THEOREM StoreTyped == Spec => []TypeOK
<1>1. StoreInv => TypeOK
  BY DEF StoreInv
<1> QED BY <1>1, StoreInvariance, PTL

\* A call that no other overlaps shows readers nothing of itself before it returns.
THEOREM AloneInvisible == Spec => []AloneIsInvisible
<1>1. StoreInv => AloneIsInvisible
  BY DEF StoreInv, Undisturbed, AloneIsInvisible
<1> QED BY <1>1, StoreInvariance, PTL

-----------------------------------------------------------------------------
(* A call that no other call overlaps takes effect as a whole *)

\* The one who is alone is the only one who moves within a call.
LEMMA OnlyMover ==
    ASSUME StoreInv, NEW p \in alone, NEW q \in Procs, Step(q), q # p
    PROVE  call'[p].pc # "idle"
<1>1. Busy = {p} /\ p \in Procs /\ call[p].pc # "idle"
  BY DEF StoreInv, OneAlone, Busy
<1>2. q \notin Busy /\ call[q].pc = "idle"
  BY <1>1 DEF Busy
<1>3. PICK op \in {"add", "pop", "remove"}, o \in Orders : Begin(q, op, o)
  BY <1>2 DEF Step, Load, PopNothing, OpenTmp, Write, Replace, ReplaceFails, Crash
<1>4. call' = [call EXCEPT ![q] = Call(op, o, "load", {}, None)]
  BY <1>3 DEF Begin
<1>5. call'[p] = call[p]
  BY <1>1, <1>4 DEF StoreInv, TypeOK
<1> QED BY <1>1, <1>5

\* What p's own return leaves in the store, if p was alone.
Atomic(p) ==
    \/ crashes' > crashes /\ Entries' = before[p]
    \/ Entries' = Updated(call[p].op, call[p].order, before[p])

\* A pop that finds nothing removes nothing.
LEMMA PopNothingAtomic ==
    ASSUME StoreInv, NEW p \in alone, PopNothing(p)
    PROVE  Atomic(p) /\ Entries' = Entries
<1>1. Entries' = Entries
  BY DEF PopNothing, Entries
<1>2. call[p].op = "pop" /\ call[p].order \notin Entries
  BY DEF PopNothing, SavesAfterLoad
<1>3. Entries = before[p]
  BY DEF StoreInv, Undisturbed
<1> QED BY <1>1, <1>2, <1>3 DEF Atomic, Updated

\* The replace puts the saved records in the place of what was found.
LEMMA ReplaceAtomic ==
    ASSUME StoreInv, NEW p \in alone, Replace(p)
    PROVE  /\ Atomic(p)
           /\ Entries' = Updated(call[p].op, call[p].order, Entries)
<1>1. call[p].pc = "replace" /\ store' = tmp /\ disk' = disk
  BY DEF Replace
<1>2. /\ Entries = before[p]
      /\ call[p].records = Updated(call[p].op, call[p].order, before[p])
      /\ tmp # None /\ disk[tmp] = Json(call[p].records)
  BY <1>1 DEF StoreInv, Undisturbed
<1>3. Entries' = call[p].records
  BY <1>1, <1>2 DEF Entries, Json
<1> QED BY <1>2, <1>3 DEF Atomic

\* A crash touches no file but the temporary one.
LEMMA CrashAtomic ==
    ASSUME StoreInv, NEW p \in alone, Crash(p)
    PROVE  Atomic(p) /\ Entries' = Entries
<1>1. /\ store' = store /\ crashes < MaxCrashes /\ crashes' = crashes + 1
      /\ \/ disk' = disk
         \/ call[p].pc = "write" /\ disk' = [disk EXCEPT ![call[p].fd] = Garbled]
  BY DEF Crash
<1>2. Undisturbed(p)
  BY DEF StoreInv
<1>3. Entries' = Entries
  <2>1. CASE disk' = disk
    BY <2>1, <1>1 DEF Entries
  <2>2. CASE call[p].pc = "write" /\ disk' = [disk EXCEPT ![call[p].fd] = Garbled]
    <3>1. call[p].fd = tmp /\ tmp # None
      BY <2>2, <1>2 DEF Undisturbed
    <3>2. store = None \/ disk'[store] = disk[store]
      BY <3>1, <2>2 DEF StoreInv, TypeOK, Separate
    <3> QED BY <3>2, <1>1 DEF Entries
  <2> QED BY <2>1, <2>2, <1>1
<1>4. crashes' > crashes
  BY <1>1, StoreAssumption DEF StoreInv, TypeOK
<1> QED BY <1>2, <1>3, <1>4 DEF Atomic, Undisturbed

\* The other steps of a call do not end it.
LEMMA WithinGoesOn ==
    ASSUME StoreInv, NEW p \in Procs, Load(p) \/ OpenTmp(p) \/ Write(p)
    PROVE  call'[p].pc # "idle"
<1>1. ASSUME NEW n, n.pc # "idle", call' = [call EXCEPT ![p] = n]
      PROVE  call'[p].pc # "idle"
  BY <1>1 DEF StoreInv, TypeOK
<1>2. CASE Load(p)
  <2> PICK n : n = Call(call[p].op, call[p].order, "open",
                        Updated(call[p].op, call[p].order, Entries), None)
    OBVIOUS
  <2>1. call' = [call EXCEPT ![p] = n]
    BY <1>2 DEF Load
  <2>2. n.pc = "open"
    BY CallFields
  <2> QED BY <2>1, <2>2, <1>1
<1>3. CASE OpenTmp(p)
  <2>1. PICK f : call' = [call EXCEPT ![p] = Call(call[p].op, call[p].order, "write",
                                                 call[p].records, f)]
    BY <1>3 DEF OpenTmp
  <2> PICK n : n = Call(call[p].op, call[p].order, "write", call[p].records, f)
    OBVIOUS
  <2>2. n.pc = "write"
    BY CallFields
  <2> QED BY <2>1, <2>2, <1>1
<1>4. CASE Write(p)
  <2> PICK n : n = Call(call[p].op, call[p].order, "replace", call[p].records, None)
    OBVIOUS
  <2>1. call' = [call EXCEPT ![p] = n]
    BY <1>4 DEF Write
  <2>2. n.pc = "replace"
    BY CallFields
  <2> QED BY <2>1, <2>2, <1>1
<1> QED BY <1>2, <1>3, <1>4

LEMMA StepAtomic ==
    ASSUME StoreInv, Next, NEW p \in alone, call'[p].pc = "idle"
    PROVE  Atomic(p)
<1>1. PICK q \in Procs : Step(q)
  BY DEF Next
<1>2. q = p /\ p \in Busy
  BY <1>1, OnlyMover DEF StoreInv, TypeOK
<1>3. ~ (Load(p) \/ OpenTmp(p) \/ Write(p))
  BY <1>1, <1>2, WithinGoesOn
<1>4. ~ \E op \in {"add", "pop", "remove"}, o \in Orders : Begin(p, op, o)
  BY <1>2 DEF Begin
<1>5. ~ ReplaceFails(p)
  BY DEF ReplaceFails, StoreInv, Undisturbed
<1> QED BY <1>1, <1>2, <1>3, <1>4, <1>5, PopNothingAtomic, ReplaceAtomic, CrashAtomic
        DEF Step

\* A call that no other overlaps takes effect as a whole when it returns, or not
\* at all when its process dies, wherever in the save it does.
THEOREM AloneAtomic == Spec => AloneIsAtomic
<1>1. ASSUME StoreInv, Next
      PROVE  \A p \in alone : call'[p].pc = "idle" =>
               \/ crashes' > crashes /\ Entries' = before[p]
               \/ Entries' = Updated(call[p].op, call[p].order, before[p])
  BY <1>1, StepAtomic DEF Atomic
<1>2. ASSUME StoreInv, [Next]_vars
      PROVE  [\A p \in alone : call'[p].pc = "idle" =>
               \/ crashes' > crashes /\ Entries' = before[p]
               \/ Entries' = Updated(call[p].op, call[p].order, before[p])]_vars
  BY <1>1, <1>2
<1> QED BY <1>2, StoreInvariance, PTL DEF Spec, AloneIsAtomic

-----------------------------------------------------------------------------
(* Calls one after the other *)

\* No two calls are under way at once.
OneAtATime == \A p, q \in Busy : p = q

\* What holds of an order whose pop has been returned: it was added, and it is
\* gone, for good.
PoppedForGood ==
    \A o \in Orders : /\ popped[o] <= 1
                      /\ popped[o] = 1 => o \in added \ Entries

\* What the call under way relies on until it returns: what it adds was never
\* popped, and what it pops is there.
InOrder ==
    \A p \in Busy :
      /\ p \in alone
      /\ call[p].op = "add" => call[p].order \in added /\ popped[call[p].order] = 0
      /\ call[p].op = "pop" /\ call[p].pc \in {"open", "write", "replace"} =>
           call[p].order \in Entries

SerialInv ==
    /\ StoreInv
    /\ Entries \subseteq added
    /\ PoppedForGood
    /\ InOrder

LEMMA SerialInitially == Init => SerialInv
<1> SUFFICES ASSUME Init PROVE SerialInv
  OBVIOUS
<1>1. Entries = {} /\ Busy = {}
  BY CallTypes DEF Init, Entries, Busy
<1>2. \A o \in Orders : popped[o] = 0
  BY DEF Init
<1> QED BY <1>1, <1>2, StoreInitially DEF SerialInv, PoppedForGood, InOrder

\* Under way is nobody but the one who is alone.
LEMMA OnlyOne ==
    ASSUME SerialInv, NEW p \in Busy
    PROVE  p \in alone /\ Busy = {p} /\ p \in Procs /\ Undisturbed(p)
BY DEF SerialInv, InOrder, StoreInv, OneAlone, Busy

LEMMA BeginSerial ==
    ASSUME SerialInv, StoreInv', OneAtATime', NEW p \in Procs,
           NEW op \in {"add", "pop", "remove"}, NEW o \in Orders, Begin(p, op, o)
    PROVE  SerialInv'
<1> PICK c : c = Call(op, o, "load", {}, None)
  OBVIOUS
<1>1. /\ p \notin Busy /\ (op = "add" => o \notin added)
      /\ call' = [call EXCEPT ![p] = c]
      /\ added' = IF op = "add" THEN added \cup {o} ELSE added
      /\ alone' = IF Busy = {} THEN {p} ELSE {}
      /\ UNCHANGED <<store, tmp, disk, popped>>
  BY DEF Begin
<1>2. c.pc = "load" /\ c.order = o /\ c.op = op
  BY CallFields
<1>3. call'[p] = c /\ Busy' = Busy \cup {p}
  BY <1>1, <1>2, CallSet DEF SerialInv, StoreInv
<1>4. Busy = {} /\ alone' = {p} /\ Busy' = {p}
  BY <1>1, <1>3 DEF OneAtATime
<1>5. Entries' = Entries
  BY <1>1 DEF Entries
<1>6. op = "add" => popped[o] = 0
  BY <1>1 DEF SerialInv, PoppedForGood, StoreInv, TypeOK
<1>7. InOrder'
  BY <1>1, <1>2, <1>3, <1>4, <1>6 DEF InOrder
<1>8. (Entries \subseteq added)' /\ PoppedForGood'
  BY <1>1, <1>5 DEF SerialInv, PoppedForGood
<1> QED BY <1>7, <1>8 DEF SerialInv

\* A step within the only call.
LEMMA WithinSerial ==
    ASSUME SerialInv, StoreInv', NEW p \in Busy, NEW n,
           call' = [call EXCEPT ![p] = n],
           n.op = call[p].op, n.order = call[p].order, n.pc # "idle",
           n.op = "pop" => n.order \in Entries,
           UNCHANGED <<added, popped, alone, before>>
    PROVE  SerialInv'
<1>1. p \in alone /\ Busy = {p} /\ p \in Procs /\ Undisturbed(p)
  BY OnlyOne
<1>2. call'[p] = n /\ Busy' = Busy \cup {p}
  BY <1>1, CallSet DEF SerialInv, StoreInv
<1>3. Entries = before[p] /\ Entries' = before'[p]
  BY <1>1 DEF StoreInv, Undisturbed
<1>4. Entries' = Entries
  BY <1>3
<1>5. InOrder'
  BY <1>1, <1>2, <1>4 DEF SerialInv, InOrder
<1> QED BY <1>4, <1>5 DEF SerialInv, PoppedForGood

LEMMA LoadSerial ==
    ASSUME SerialInv, StoreInv', NEW p \in Procs, Load(p)
    PROVE  SerialInv'
<1> PICK n : n = Call(call[p].op, call[p].order, "open",
                      Updated(call[p].op, call[p].order, Entries), None)
  OBVIOUS
<1>1. /\ p \in Busy /\ call' = [call EXCEPT ![p] = n]
      /\ UNCHANGED <<added, popped, alone, before>>
      /\ call[p].op = "pop" => call[p].order \in Entries
  BY InCall DEF Load, SavesAfterLoad
<1>2. n.op = call[p].op /\ n.order = call[p].order /\ n.pc = "open"
  BY CallFields
<1> QED BY <1>1, <1>2, WithinSerial

LEMMA OpenTmpSerial ==
    ASSUME SerialInv, StoreInv', NEW p \in Procs, OpenTmp(p)
    PROVE  SerialInv'
<1>1. PICK f : call' = [call EXCEPT ![p] = Call(call[p].op, call[p].order, "write",
                                               call[p].records, f)]
  BY DEF OpenTmp
<1> PICK n : n = Call(call[p].op, call[p].order, "write", call[p].records, f)
  OBVIOUS
<1>2. /\ p \in Busy /\ call[p].pc = "open"
      /\ UNCHANGED <<added, popped, alone, before>>
  BY InCall DEF OpenTmp
<1>3. n.op = call[p].op /\ n.order = call[p].order /\ n.pc = "write"
  BY CallFields
<1>4. n.op = "pop" => n.order \in Entries
  BY <1>2, <1>3 DEF SerialInv, InOrder
<1> QED BY <1>1, <1>2, <1>3, <1>4, WithinSerial

LEMMA WriteSerial ==
    ASSUME SerialInv, StoreInv', NEW p \in Procs, Write(p)
    PROVE  SerialInv'
<1> PICK n : n = Call(call[p].op, call[p].order, "replace", call[p].records, None)
  OBVIOUS
<1>1. /\ p \in Busy /\ call[p].pc = "write" /\ call' = [call EXCEPT ![p] = n]
      /\ UNCHANGED <<added, popped, alone, before>>
  BY InCall DEF Write
<1>2. n.op = call[p].op /\ n.order = call[p].order /\ n.pc = "replace"
  BY CallFields
<1>3. n.op = "pop" => n.order \in Entries
  BY <1>1, <1>2 DEF SerialInv, InOrder
<1> QED BY <1>1, <1>2, <1>3, WithinSerial

\* The only call returns nothing, and has changed nothing.
LEMMA ReturnSerial ==
    ASSUME SerialInv, StoreInv', NEW p \in Busy, Return(p, {}),
           Entries' = Entries, added' = added
    PROVE  SerialInv'
<1>1. Busy' = {}
  BY OnlyOne, ReturnKeeps DEF SerialInv
<1>2. \A o \in Orders : popped'[o] = popped[o]
  BY DEF Return
<1> QED BY <1>1, <1>2 DEF SerialInv, PoppedForGood, InOrder

\* The only call replaces the file: a pop takes its order out, and counts it.
LEMMA ReplaceSerial ==
    ASSUME SerialInv, StoreInv', NEW p \in Procs, Replace(p)
    PROVE  SerialInv'
<1> PICK c : c = call[p]
  OBVIOUS
<1> PICK returned : returned = IF c.op = "pop" THEN {c.order} ELSE {}
  OBVIOUS
<1>1. /\ p \in Busy /\ c.pc = "replace" /\ Return(p, returned) /\ added' = added
  BY InCall DEF Replace
<1>2. p \in alone /\ Busy = {p}
  BY <1>1, OnlyOne
<1>3. Busy' = {}
  BY <1>1, <1>2, ReturnKeeps DEF SerialInv
<1>4. Entries' = Updated(c.op, c.order, Entries)
  BY <1>2, ReplaceAtomic DEF SerialInv
<1>5. \A o \in Orders :
        popped'[o] = IF o \in returned /\ popped[o] < 2 THEN popped[o] + 1 ELSE popped[o]
  BY <1>1 DEF Return
<1>6. /\ c.op = "add" => c.order \in added /\ popped[c.order] = 0
      /\ c.op = "pop" => c.order \in Entries
  BY <1>1 DEF SerialInv, InOrder
<1>7. Entries' \subseteq added'
  BY <1>1, <1>4, <1>6 DEF SerialInv, Updated
<1>8. ASSUME NEW o \in Orders
      PROVE  popped'[o] <= 1 /\ (popped'[o] = 1 => o \in added' \ Entries')
  <2>1. popped[o] \in 0..2 /\ popped[o] <= 1 /\ (popped[o] = 1 => o \in added \ Entries)
    BY DEF SerialInv, PoppedForGood, StoreInv, TypeOK
  <2>2. CASE c.op = "pop" /\ o = c.order
    <3>1. popped[o] = 0 /\ o \in added
      BY <2>1, <2>2, <1>6 DEF SerialInv
    <3>2. popped'[o] = 1 /\ o \notin Entries'
      BY <3>1, <2>2, <1>4, <1>5 DEF Updated
    <3> QED BY <3>1, <3>2, <1>1
  <2>3. CASE ~ (c.op = "pop" /\ o = c.order)
    <3>1. popped'[o] = popped[o]
      BY <2>3, <1>5
    <3>2. popped[o] = 1 => o \notin Entries'
      BY <2>1, <1>4, <1>6 DEF Updated
    <3> QED BY <3>1, <3>2, <2>1, <1>1
  <2> QED BY <2>2, <2>3
<1> QED BY <1>3, <1>7, <1>8 DEF SerialInv, PoppedForGood, InOrder

LEMMA StepSerial ==
    ASSUME SerialInv, StoreInv', OneAtATime', NEW p \in Procs, Step(p)
    PROVE  SerialInv'
<1>1. CASE PopNothing(p)
  <2>1. p \in Busy /\ Return(p, {}) /\ added' = added
    BY <1>1, InCall DEF PopNothing
  <2>2. Entries' = Entries
    BY <1>1, <2>1, OnlyOne, PopNothingAtomic DEF SerialInv
  <2> QED BY <2>1, <2>2, ReturnSerial
<1>2. CASE ReplaceFails(p)
  <2>1. p \in Busy /\ call[p].pc = "replace" /\ tmp = None
    BY <1>2, InCall DEF ReplaceFails
  <2> QED BY <2>1, OnlyOne DEF Undisturbed
<1>3. CASE Crash(p)
  <2>1. p \in Busy /\ Return(p, {}) /\ added' = added
    BY <1>3 DEF Crash
  <2>2. Entries' = Entries
    BY <1>3, <2>1, OnlyOne, CrashAtomic DEF SerialInv
  <2> QED BY <2>1, <2>2, ReturnSerial
<1> QED BY <1>1, <1>2, <1>3, BeginSerial, LoadSerial, OpenTmpSerial, WriteSerial,
        ReplaceSerial DEF Step

LEMMA NextSerial == ASSUME SerialInv, OneAtATime', [Next]_vars PROVE SerialInv'
<1>1. StoreInv'
  BY NextKeeps DEF SerialInv
<1>2. CASE UNCHANGED vars
  BY <1>1, <1>2 DEF SerialInv, vars, PoppedForGood, InOrder, Busy, Entries
<1>3. CASE Next
  BY <1>1, <1>3, StepSerial DEF Next
<1> QED BY <1>2, <1>3

\* As long as no two calls overlap, whatever crashes, no order is popped twice:
\* what the README promises of every schedule takes a lock the store does not
\* have.
THEOREM SerialPopsOnce == Spec /\ []OneAtATime => []PoppedOnce
<1>1. SerialInv => PoppedOnce
  BY DEF SerialInv, PoppedForGood, PoppedOnce
<1> QED BY <1>1, SerialInitially, NextSerial, PTL DEF Spec

=============================================================================
