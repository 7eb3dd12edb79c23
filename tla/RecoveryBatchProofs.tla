-------------------------- MODULE RecoveryBatchProofs --------------------------
(***************************************************************************)
(* Theorems about the settings under concurrent updates, and about a batch *)
(* that is decided while they change, for any number of admins, causes,    *)
(* values, records and faults.                                             *)
(***************************************************************************)
EXTENDS RecoveryBatch, ReportProofs, TLAPS, FiniteSetTheorems, FunctionTheorems, SequenceTheorems

-----------------------------------------------------------------------------
(* Part 1: the settings alone *)

-----------------------------------------------------------------------------
(* The inductive invariant *)

\* A request between the read and the write of the caps.
Changing(a) == admin[a].pc = "write" /\ admin[a].key # MinKey

\* It holds the lock, and what it read is what is stored, or the defaults of a
\* failed read.  What requests write is in range.
RequestsSound ==
    \A a \in Admins :
        /\ admin[a].pc = "write" /\ admin[a].key = MinKey => admin[a].new \in MinAmounts
        /\ Changing(a) =>
             /\ admin[a].key \in RetryCauses /\ admin[a].new \in Caps
             /\ dbLock = a
             /\ \/ admin[a].read = caps
                \/ faults > 0 /\ admin[a].read = DefaultCaps

\* A cap that the panel does not offer stays zero.
OtherCapsAreZero == \A c \in Causes \ RetryCauses : caps[c] = 0

SettingsInv == SettingsTypeOK /\ RequestsSound /\ OtherCapsAreZero

-----------------------------------------------------------------------------
(* Records *)

\* The fields of a request.
LEMMA RequestFields ==
    \A pc, n, key, new, old, read :
        /\ Request(pc, n, key, new, old, read).pc = pc
        /\ Request(pc, n, key, new, old, read).n = n
        /\ Request(pc, n, key, new, old, read).key = key
        /\ Request(pc, n, key, new, old, read).new = new
        /\ Request(pc, n, key, new, old, read).old = old
        /\ Request(pc, n, key, new, old, read).read = read
BY DEF Request

\* A request of well-typed fields is well typed, the idle one among them.
LEMMA RequestTypes ==
    /\ \A pc \in {"idle", "write", "log"}, n \in 0..MaxUpdates,
          key \in RetryCauses \cup {MinKey, None}, new \in Nat, old \in Nat,
          read \in [Causes -> Caps] :
        Request(pc, n, key, new, old, read) \in RequestType
    /\ NoRequest \in RequestType /\ NoRequest.pc = "idle"
<1>1. \A pc \in {"idle", "write", "log"}, n \in 0..MaxUpdates,
         key \in RetryCauses \cup {MinKey, None}, new \in Nat, old \in Nat,
         read \in [Causes -> Caps] :
        Request(pc, n, key, new, old, read) \in RequestType
  BY DEF Request, RequestType
<1>2. NoRequest \in RequestType
  <2>1. DefaultCaps \in [Causes -> Caps] /\ 0 \in 0..MaxUpdates
    BY SettingsAssumption
  <2> QED BY <1>1, <2>1 DEF NoRequest
<1>3. NoRequest.pc = "idle"
  BY RequestFields DEF NoRequest
<1> QED BY <1>1, <1>2, <1>3

\* And its fields are well typed.
LEMMA FieldTypes ==
    \A r \in RequestType : /\ r.pc \in {"idle", "write", "log"}
                          /\ r.n \in 0..MaxUpdates
                          /\ r.key \in RetryCauses \cup {MinKey, None}
                          /\ r.new \in Nat /\ r.old \in Nat
                          /\ r.read \in [Causes -> Caps]
BY DEF RequestType

-----------------------------------------------------------------------------
(* The invariant is inductive *)

\* The defaults are stored, and nobody changes them.
LEMMA SettingsInitially == SettingsInit => SettingsInv
<1> SUFFICES ASSUME SettingsInit PROVE SettingsInv
  OBVIOUS
<1>1. SettingsTypeOK
  BY SettingsAssumption, RequestTypes DEF SettingsInit, SettingsTypeOK
<1>2. RequestsSound
  BY RequestTypes DEF SettingsInit, RequestsSound, Changing
<1>3. OtherCapsAreZero
  BY SettingsAssumption DEF SettingsInit, OtherCapsAreZero
<1> QED BY <1>1, <1>2, <1>3 DEF SettingsInv

\* A failed read is one more fault, within the bound.
LEMMA FaultCounts ==
    ASSUME faults \in 0..MaxFaults, NEW kind, SettingsFault(kind)
    PROVE  faults' \in 0..MaxFaults /\ faults' > 0
BY SettingsAssumption DEF SettingsFault

\* A step that leaves the settings and the admins alone keeps the invariant,
\* whatever it adds to the faults.
LEMMA AdminsIdle ==
    ASSUME SettingsInv,
           UNCHANGED <<minAmount, caps, dbLock, admin, updates>>,
           \/ UNCHANGED faults
           \/ \E kind \in {"db_read"} : SettingsFault(kind)
    PROVE  SettingsInv'
<1>1. faults' \in 0..MaxFaults /\ (faults > 0 => faults' > 0)
  BY FaultCounts DEF SettingsInv, SettingsTypeOK
<1>2. SettingsTypeOK'
  BY <1>1 DEF SettingsInv, SettingsTypeOK
<1>3. RequestsSound'
  BY <1>1 DEF SettingsInv, RequestsSound, Changing
<1>4. OtherCapsAreZero'
  BY DEF SettingsInv, OtherCapsAreZero
<1> QED BY <1>2, <1>3, <1>4 DEF SettingsInv

\* A request that is not one between read and write of the caps, put in the
\* place of a's, leaves the others as they are.
LEMMA OthersSound ==
    ASSUME SettingsTypeOK, RequestsSound, NEW a \in Admins, NEW r,
           admin' = [admin EXCEPT ![a] = r],
           \/ r.pc # "write"
           \/ r.key = MinKey /\ r.new \in MinAmounts,
           UNCHANGED <<caps, dbLock>>,
           faults > 0 => faults' > 0
    PROVE  RequestsSound'
<1> SUFFICES ASSUME NEW b \in Admins
             PROVE  /\ admin'[b].pc = "write" /\ admin'[b].key = MinKey
                         => admin'[b].new \in MinAmounts
                    /\ Changing(b)' =>
                         /\ admin'[b].key \in RetryCauses /\ admin'[b].new \in Caps
                         /\ dbLock = b
                         /\ admin'[b].read = caps
                              \/ (faults > 0 /\ admin'[b].read = DefaultCaps)
  BY DEF RequestsSound
<1>1. CASE b = a
  BY <1>1 DEF SettingsTypeOK, Changing
<1>2. CASE b # a
  <2>1. admin'[b] = admin[b]
    BY <1>2 DEF SettingsTypeOK
  <2> QED BY <2>1 DEF RequestsSound, Changing
<1> QED BY <1>1, <1>2

\* Requests that end release the lock only if they held it.
LEMMA EndKeeps ==
    ASSUME SettingsInv, NEW requests \in SUBSET Admins, End(requests),
           faults' \in 0..MaxFaults, faults > 0 => faults' > 0,
           UNCHANGED <<minAmount, caps, updates>>
    PROVE  SettingsInv'
<1>1. SettingsTypeOK'
  <2>1. admin' \in [Admins -> RequestType]
    BY RequestTypes DEF SettingsInv, SettingsTypeOK, End
  <2>2. dbLock' \in Admins \cup {None}
    BY DEF SettingsInv, SettingsTypeOK, End
  <2> QED BY <2>1, <2>2 DEF SettingsInv, SettingsTypeOK
<1>2. RequestsSound'
  <2> SUFFICES ASSUME NEW b \in Admins, admin'[b].pc = "write"
               PROVE  /\ admin'[b].key = MinKey => admin'[b].new \in MinAmounts
                      /\ Changing(b)' =>
                           /\ admin'[b].key \in RetryCauses /\ admin'[b].new \in Caps
                           /\ dbLock' = b
                           /\ admin'[b].read = caps
                                \/ (faults > 0 /\ admin'[b].read = DefaultCaps)
    BY DEF RequestsSound, Changing
  <2>1. b \notin requests
    BY RequestTypes DEF End
  <2>2. admin'[b] = admin[b]
    BY <2>1 DEF End
  <2>3. Changing(b)' => dbLock = b
    BY <2>2 DEF SettingsInv, RequestsSound, Changing
  <2>4. Changing(b)' => dbLock' = b
    BY <2>1, <2>3 DEF End
  <2> QED BY <2>2, <2>4 DEF SettingsInv, RequestsSound, Changing
<1>3. OtherCapsAreZero'
  BY DEF SettingsInv, OtherCapsAreZero
<1> QED BY <1>1, <1>2, <1>3 DEF SettingsInv

\* What follows a write is idle or logs.
LEMMA WrittenIs ==
    ASSUME SettingsTypeOK, NEW a \in Admins, Written(a)
    PROVE  \E r \in RequestType : /\ r.pc # "write"
                                 /\ admin' = [admin EXCEPT ![a] = r]
<1> DEFINE q == admin[a]
           l == Request("log", q.n, q.key, q.new, q.old, DefaultCaps)
<1>1. q \in RequestType
  BY DEF SettingsTypeOK
<1>2. l \in RequestType /\ l.pc = "log"
  BY <1>1, FieldTypes, RequestTypes, RequestFields, SettingsAssumption
<1>3. NoRequest \in RequestType /\ NoRequest.pc = "idle"
  BY RequestTypes
<1>4. CASE LogsAfter(q.new, q.old)
  <2>1. admin' = [admin EXCEPT ![a] = l]
    BY <1>4 DEF Written
  <2> QED BY <2>1, <1>2
<1>5. CASE ~ LogsAfter(q.new, q.old)
  <2>1. admin' = [admin EXCEPT ![a] = NoRequest]
    BY <1>5 DEF Written
  <2> QED BY <2>1, <1>3
<1> QED BY <1>4, <1>5

\* update_min_retry_amount, up to its write.
LEMMA BeginMinKeeps ==
    ASSUME SettingsInv, NEW a \in Admins, NEW new \in MinAmounts, BeginMin(a, new)
    PROVE  SettingsInv'
<1> PICK old \in MinAmounts :
        /\ ReadMin(old)
        /\ admin' = [admin EXCEPT ![a] =
                       Request("write", updates + 1, MinKey, new, old, DefaultCaps)]
  BY DEF BeginMin
<1> DEFINE r == Request("write", updates + 1, MinKey, new, old, DefaultCaps)
<1>1. faults' \in 0..MaxFaults /\ (faults > 0 => faults' > 0)
  BY FaultCounts DEF ReadMin, SettingsInv, SettingsTypeOK
<1>2. updates' = updates + 1 /\ updates + 1 \in 0..MaxUpdates
  BY SettingsAssumption DEF BeginMin, SettingsInv, SettingsTypeOK
<1>3. r \in RequestType /\ r.key = MinKey /\ r.new \in MinAmounts
  BY SMTT(30), <1>2, RequestTypes, RequestFields, SettingsAssumption
<1>4. UNCHANGED <<minAmount, caps, dbLock>>
  BY DEF BeginMin
<1>5. SettingsTypeOK'
  BY <1>1, <1>2, <1>3, <1>4 DEF SettingsInv, SettingsTypeOK
<1>6. RequestsSound'
  BY <1>1, <1>3, <1>4, OthersSound DEF SettingsInv
<1>7. OtherCapsAreZero'
  BY <1>4 DEF SettingsInv, OtherCapsAreZero
<1> QED BY <1>5, <1>6, <1>7 DEF SettingsInv

\* Its write.
LEMMA WriteMinKeeps ==
    ASSUME SettingsInv, NEW a \in Admins, WriteMin(a)
    PROVE  SettingsInv'
<1> PICK r \in RequestType : r.pc # "write" /\ admin' = [admin EXCEPT ![a] = r]
  BY WrittenIs DEF WriteMin, SettingsInv
<1>1. UNCHANGED <<caps, dbLock, updates, faults>>
  BY DEF WriteMin
<1>2. minAmount' \in MinAmounts
  BY DEF WriteMin, SettingsInv, RequestsSound
<1>3. SettingsTypeOK'
  BY <1>1, <1>2 DEF SettingsInv, SettingsTypeOK
<1>4. RequestsSound'
  BY <1>1, OthersSound DEF SettingsInv
<1>5. OtherCapsAreZero'
  BY <1>1 DEF SettingsInv, OtherCapsAreZero
<1> QED BY <1>3, <1>4, <1>5 DEF SettingsInv

\* update_max_retries, up to its write.
LEMMA BeginCapsKeeps ==
    ASSUME SettingsInv, NEW a \in Admins, NEW cause \in RetryCauses, NEW new \in Caps,
           BeginCaps(a, cause, new)
    PROVE  SettingsInv'
<1> PICK read \in {caps, DefaultCaps} :
        /\ ReadCaps(read)
        /\ admin' = [admin EXCEPT ![a] =
                       Request("write", updates + 1, cause, new, read[cause], read)]
  BY DEF BeginCaps
<1> DEFINE r == Request("write", updates + 1, cause, new, read[cause], read)
<1>1. /\ faults' \in 0..MaxFaults /\ (faults > 0 => faults' > 0)
      /\ read = caps \/ (faults' > 0 /\ read = DefaultCaps)
  BY FaultCounts DEF ReadCaps, SettingsInv, SettingsTypeOK
<1>2. updates' = updates + 1 /\ updates + 1 \in 0..MaxUpdates
  BY SettingsAssumption DEF BeginCaps, SettingsInv, SettingsTypeOK
<1>3. read \in [Causes -> Caps]
  BY SettingsAssumption DEF SettingsInv, SettingsTypeOK
<1>4. read[cause] \in Nat /\ new \in Nat /\ cause # MinKey
  BY <1>3, SettingsAssumption DEF Caps
<1>5. r \in RequestType /\ r.key = cause /\ r.new = new /\ r.read = read
  <2>1. r \in RequestType
    BY <1>2, <1>3, <1>4, RequestTypes
  <2> QED BY <2>1, RequestFields
<1>6. dbLock = None /\ dbLock' = a /\ UNCHANGED <<minAmount, caps>>
  BY DEF BeginCaps, LockFree
<1>7. SettingsTypeOK'
  BY <1>1, <1>2, <1>5, <1>6 DEF SettingsInv, SettingsTypeOK
<1>8. RequestsSound'
  <2> SUFFICES ASSUME NEW b \in Admins
               PROVE  /\ admin'[b].pc = "write" /\ admin'[b].key = MinKey
                           => admin'[b].new \in MinAmounts
                      /\ Changing(b)' =>
                           /\ admin'[b].key \in RetryCauses /\ admin'[b].new \in Caps
                           /\ dbLock' = b
                           /\ admin'[b].read = caps
                                \/ (faults' > 0 /\ admin'[b].read = DefaultCaps)
    BY <1>6 DEF RequestsSound
  <2>1. CASE b = a
    <3>1. admin'[b] = r
      BY <2>1 DEF SettingsInv, SettingsTypeOK
    <3> HIDE DEF r
    <3> QED BY <2>1, <3>1, <1>1, <1>4, <1>5, <1>6
  <2>2. CASE b # a
    <3>1. admin'[b] = admin[b]
      BY <2>2 DEF SettingsInv, SettingsTypeOK
    <3>2. ~ Changing(b)
      BY <1>6, SettingsAssumption DEF SettingsInv, RequestsSound
    <3> QED BY <3>1, <3>2 DEF SettingsInv, RequestsSound, Changing
  <2> QED BY <2>1, <2>2
<1>9. OtherCapsAreZero'
  BY <1>6 DEF SettingsInv, OtherCapsAreZero
<1> QED BY <1>7, <1>8, <1>9 DEF SettingsInv

\* Its write: the cap of every other cause is the one that was read.
LEMMA WriteCapsEffect ==
    ASSUME SettingsInv, NEW a \in Admins, WriteCaps(a)
    PROVE  /\ Changing(a)
           /\ admin[a].key \in RetryCauses
           /\ caps' \in [Causes -> Caps]
           /\ caps'[admin[a].key] = admin[a].new
           /\ \A c \in Causes : c # admin[a].key => caps'[c] = admin[a].read[c]
<1>1. Changing(a) /\ admin[a].key \in RetryCauses
  BY SettingsAssumption DEF WriteCaps, Changing
<1>2. admin[a].new \in Caps
  BY <1>1 DEF SettingsInv, RequestsSound
<1>3. admin[a].read \in [Causes -> Caps]
  BY FieldTypes DEF SettingsInv, SettingsTypeOK
<1>4. caps' = [admin[a].read EXCEPT ![admin[a].key] = admin[a].new]
  BY DEF WriteCaps
<1>5. admin[a].key \in Causes
  BY <1>1, SettingsAssumption
<1> QED BY <1>1, <1>2, <1>3, <1>4, <1>5

\* It keeps the invariant: nobody else is between its read and its write.
LEMMA WriteCapsKeeps ==
    ASSUME SettingsInv, NEW a \in Admins, WriteCaps(a)
    PROVE  SettingsInv'
<1> PICK r \in RequestType : r.pc # "write" /\ admin' = [admin EXCEPT ![a] = r]
  BY WrittenIs DEF WriteCaps, SettingsInv
<1>1. dbLock' = None /\ UNCHANGED <<minAmount, updates, faults>>
  BY DEF WriteCaps
<1>2. SettingsTypeOK'
  BY <1>1, WriteCapsEffect DEF SettingsInv, SettingsTypeOK
<1>3. dbLock = a
  BY WriteCapsEffect DEF SettingsInv, RequestsSound
<1>4. RequestsSound'
  <2> SUFFICES ASSUME NEW b \in Admins, admin'[b].pc = "write"
               PROVE  /\ admin'[b].key = MinKey => admin'[b].new \in MinAmounts
                      /\ ~ Changing(b)'
    BY DEF RequestsSound, Changing
  <2>1. b # a /\ admin'[b] = admin[b]
    BY DEF SettingsInv, SettingsTypeOK
  <2>2. ~ Changing(b)
    BY <2>1, <1>3 DEF SettingsInv, RequestsSound
  <2> QED BY <2>1, <2>2 DEF SettingsInv, RequestsSound, Changing
<1>5. OtherCapsAreZero'
  <2> SUFFICES ASSUME NEW c \in Causes \ RetryCauses
               PROVE  caps'[c] = 0
    BY DEF OtherCapsAreZero
  <2>1. caps'[c] = admin[a].read[c]
    BY WriteCapsEffect
  <2>2. admin[a].read = caps \/ admin[a].read = DefaultCaps
    BY WriteCapsEffect DEF SettingsInv, RequestsSound
  <2> QED BY <2>1, <2>2, SettingsAssumption DEF SettingsInv, OtherCapsAreZero
<1> QED BY <1>2, <1>4, <1>5 DEF SettingsInv

\* _log_change.
LEMMA LogChangeKeeps ==
    ASSUME SettingsInv, NEW a \in Admins, LogChange(a)
    PROVE  SettingsInv'
<1>1. /\ admin' = [admin EXCEPT ![a] = NoRequest]
      /\ UNCHANGED <<minAmount, caps, dbLock, updates, faults>>
  BY DEF LogChange
<1>2. NoRequest \in RequestType /\ NoRequest.pc # "write"
  BY RequestTypes
<1>3. SettingsTypeOK'
  BY <1>1, <1>2 DEF SettingsInv, SettingsTypeOK
<1>4. RequestsSound'
  BY <1>1, <1>2, OthersSound DEF SettingsInv
<1>5. OtherCapsAreZero'
  BY <1>1 DEF SettingsInv, OtherCapsAreZero
<1> QED BY <1>3, <1>4, <1>5 DEF SettingsInv

\* Requests that fail, and killed processes.
LEMMA FailuresKeep ==
    ASSUME SettingsInv,
           \/ \E a \in Admins : RequestFails(a)
           \/ \E requests \in SUBSET Admins : PanelKilled(requests) \/ LogTorn(requests)
    PROVE  SettingsInv'
<1>1. \E requests \in SUBSET Admins, kind \in {"crash", "lock_timeout", "torn_write",
                                             "db_read", "db_write"} :
         /\ End(requests) /\ SettingsFault(kind)
         /\ UNCHANGED <<minAmount, caps, updates>>
  BY DEF RequestFails, PanelKilled, LogTorn
<1>2. faults \in 0..MaxFaults
  BY DEF SettingsInv, SettingsTypeOK
<1> QED BY <1>1, <1>2, FaultCounts, EndKeeps

\* No step of an admin breaks the invariant.
LEMMA AdminKeeps ==
    ASSUME SettingsInv, AdminNext
    PROVE  SettingsInv'
<1>1. CASE \E a \in Admins, new \in MinAmounts : BeginMin(a, new)
  BY <1>1, BeginMinKeeps
<1>2. CASE \E a \in Admins, cause \in RetryCauses, new \in Caps : BeginCaps(a, cause, new)
  BY <1>2, BeginCapsKeeps
<1>3. CASE \E a \in Admins : WriteMin(a)
  BY <1>3, WriteMinKeeps
<1>4. CASE \E a \in Admins : WriteCaps(a)
  BY <1>4, WriteCapsKeeps
<1>5. CASE \E a \in Admins : LogChange(a)
  BY <1>5, LogChangeKeeps
<1>6. CASE \/ \E a \in Admins : RequestFails(a)
           \/ \E requests \in SUBSET Admins : PanelKilled(requests) \/ LogTorn(requests)
  BY <1>6, FailuresKeep
<1> QED BY <1>1, <1>2, <1>3, <1>4, <1>5, <1>6 DEF AdminNext

-----------------------------------------------------------------------------
(* Theorems *)

\* What OtherCausesKept says of one step.
CapsKept ==
    \A c \in Causes : caps'[c] # caps[c] =>
        \E a \in Admins :
           \/ admin[a].key = c /\ caps'[c] = admin[a].new
           \/ faults > 0 /\ admin[a].read = DefaultCaps /\ caps'[c] = DefaultCaps[c]

\* A step of an admin changes the cap of a cause only to what a request for that
\* cause asked for, or to its default after a failed read.
LEMMA AdminKeepsCaps ==
    ASSUME SettingsInv, AdminNext
    PROVE  CapsKept
<1>1. CASE \E a \in Admins : WriteCaps(a)
  <2> PICK a \in Admins : WriteCaps(a)
    BY <1>1
  <2>1. \/ admin[a].read = caps
        \/ faults > 0 /\ admin[a].read = DefaultCaps
    BY WriteCapsEffect DEF SettingsInv, RequestsSound
  <2>2. \A c \in Causes : c # admin[a].key => caps'[c] = admin[a].read[c]
    BY WriteCapsEffect
  <2>3. caps'[admin[a].key] = admin[a].new
    BY WriteCapsEffect
  <2> QED BY <2>1, <2>2, <2>3 DEF CapsKept
<1>2. CASE ~ \E a \in Admins : WriteCaps(a)
  <2>1. UNCHANGED caps
    BY <1>2 DEF AdminNext, BeginMin, BeginCaps, WriteMin, LogChange, RequestFails,
                PanelKilled, LogTorn
  <2> QED BY <2>1 DEF CapsKept
<1> QED BY <1>1, <1>2

\* The settings keep their types under any number of concurrent requests.
THEOREM SettingsInvariance == SettingsSpec => []SettingsInv
<1>1. SettingsInv /\ [AdminNext]_settingsVars => SettingsInv'
  <2> SUFFICES ASSUME SettingsInv, [AdminNext]_settingsVars
               PROVE  SettingsInv'
    OBVIOUS
  <2>1. CASE AdminNext
    BY <2>1, AdminKeeps
  <2>2. CASE UNCHANGED settingsVars
    BY <2>2, AdminsIdle DEF settingsVars
  <2> QED BY <2>1, <2>2
<1> QED BY SettingsInitially, <1>1, PTL DEF SettingsSpec

\* update_max_retries: concurrent updates of two causes do not revert each
\* other, for any number of admins, causes and faults.
THEOREM UpdatesKeepOthers == SettingsSpec => OtherCausesKept
<1>1. SettingsInv /\ [AdminNext]_settingsVars => [CapsKept]_settingsVars
  BY AdminKeepsCaps
<1>2. OtherCausesKept <=> [][CapsKept]_settingsVars
  BY PTL DEF OtherCausesKept, CapsKept
<1> QED BY SettingsInvariance, <1>1, <1>2, PTL DEF SettingsSpec

-----------------------------------------------------------------------------
(* The log of the changes *)

\* The changes of caps that are neither logged nor about to be.
Missing == {e.n : e \in {e \in changes : e.key # MinKey}} \ (Logged \cup InFlight)

\* The updates whose request has read caps that are not the stored ones: their
\* change may be missed when they write.
Misled == {admin[a].n : a \in {b \in Admins :
             Changing(b) /\ admin[b].read[admin[b].key] # caps[admin[b].key]}}

Lost == Missing \cup Misled

\* What the log says, and is about to say, of the caps.
LogTells ==
    /\ \A e \in settingsLog : e.key # MinKey => e \in changes
    /\ \A a \in Admins :
         admin[a].pc = "log" /\ admin[a].key # MinKey =>
           Change(admin[a].n, admin[a].key, admin[a].old, admin[a].new) \in changes

LogInv ==
    /\ \A e \in changes : e.n \in 0..MaxUpdates
    /\ \A a \in Admins : Changing(a) => admin[a].old = admin[a].read[admin[a].key]
    /\ faults = 0 => LogTells
    /\ Cardinality(Lost) <= faults * Cardinality(Admins)

\* Who is missing, and who is misled.
LEMMA LostIs ==
    /\ \A n : n \in Missing <=>
         /\ \E e \in changes : e.key # MinKey /\ e.n = n
         /\ \A e \in settingsLog : e.n # n
         /\ \A b \in Admins : admin[b].pc = "log" => admin[b].n # n
    /\ \A n : n \in Misled <=>
         \E b \in Admins : /\ Changing(b) /\ admin[b].n = n
                          /\ admin[b].read[admin[b].key] # caps[admin[b].key]
BY DEF Missing, Misled, Logged, InFlight

\* The lost updates are some of the updates.
LEMMA LostFinite ==
    ASSUME SettingsTypeOK, \A e \in changes : e.n \in 0..MaxUpdates
    PROVE  IsFiniteSet(Lost) /\ Cardinality(Lost) \in Nat
<1>1. Missing \subseteq 0..MaxUpdates
  BY LostIs
<1>2. Misled \subseteq 0..MaxUpdates
  BY LostIs, FieldTypes DEF SettingsTypeOK
<1>3. Lost \subseteq 0..MaxUpdates /\ IsFiniteSet(0..MaxUpdates)
  BY <1>1, <1>2, FS_Interval, SettingsAssumption DEF Lost
<1>4. IsFiniteSet(Lost)
  BY <1>3, FS_Subset
<1> QED BY <1>4, FS_CardinalityType

LEMMA AdminsCounted == Cardinality(Admins) \in Nat
BY SettingsAssumption, FS_CardinalityType

\* Whatever more is lost in a step with a fault, there is not more of it than
\* requests.
LEMMA LostGrows ==
    ASSUME SettingsInv, LogInv, NEW S, IsFiniteSet(S), Cardinality(S) <= Cardinality(Admins),
           Lost' \subseteq Lost \cup S, faults' = faults + 1
    PROVE  Cardinality(Lost') <= faults' * Cardinality(Admins)
<1>1. IsFiniteSet(Lost) /\ Cardinality(Lost) \in Nat
  BY LostFinite DEF SettingsInv, LogInv
<1>2. Cardinality(S) \in Nat /\ Cardinality(Admins) \in Nat /\ faults \in Nat
  BY FS_CardinalityType, AdminsCounted DEF SettingsInv, SettingsTypeOK
<1>3. IsFiniteSet(Lost \cup S) /\ IsFiniteSet(Lost \cap S)
  BY <1>1, FS_Union, FS_Intersection
<1>4. /\ Cardinality(Lost \cup S) = Cardinality(Lost) + Cardinality(S) - Cardinality(Lost \cap S)
      /\ Cardinality(Lost \cup S) \in Nat /\ Cardinality(Lost \cap S) \in Nat
  BY <1>1, <1>3, FS_Union, FS_CardinalityType
<1>5. Cardinality(Lost') <= Cardinality(Lost \cup S) /\ Cardinality(Lost') \in Nat
  BY <1>3, FS_Subset, FS_CardinalityType
<1>6. PICK c \in Nat : c = Cardinality(Admins)
  BY <1>2
<1>7. faults' * c = faults * c + c /\ faults * c \in Nat
  BY <1>2, <1>6
<1>8. Cardinality(Lost) <= faults * c
  BY <1>6 DEF LogInv
<1> QED BY <1>1, <1>2, <1>4, <1>5, <1>6, <1>7, <1>8

\* Where nothing more is lost, the bound stays.
LEMMA LostKept ==
    ASSUME SettingsInv, LogInv, Lost' \subseteq Lost,
           faults' = faults \/ faults' = faults + 1
    PROVE  Cardinality(Lost') <= faults' * Cardinality(Admins)
<1>1. IsFiniteSet(Lost) /\ Cardinality(Lost) \in Nat
  BY LostFinite DEF SettingsInv, LogInv
<1>2. Cardinality(Lost') <= Cardinality(Lost) /\ Cardinality(Lost') \in Nat
  BY <1>1, FS_Subset, FS_CardinalityType
<1>3. PICK c \in Nat : c = Cardinality(Admins)
  BY AdminsCounted
<1>4. faults \in Nat /\ faults * c \in Nat /\ (faults + 1) * c = faults * c + c
  BY DEF SettingsInv, SettingsTypeOK
<1>5. Cardinality(Lost) <= faults * c
  BY <1>3 DEF LogInv
<1>6. faults * c <= faults' * c
  BY <1>4
<1> QED BY <1>1, <1>2, <1>3, <1>4, <1>5, <1>6

\* One fault more, or none.
LEMMA FaultsCount ==
    ASSUME SettingsInv,
           \/ UNCHANGED faults
           \/ \E kind \in {"crash", "lock_timeout", "torn_write", "db_read", "db_write"} :
                SettingsFault(kind)
    PROVE  (faults' = faults \/ faults' = faults + 1) /\ (faults' = 0 => faults = 0)
BY DEF SettingsInv, SettingsTypeOK, SettingsFault

\* The same of the next state.
LEMMA LostIsNext ==
    /\ \A n : n \in Missing' <=>
         /\ \E e \in changes' : e.key # MinKey /\ e.n = n
         /\ \A e \in settingsLog' : e.n # n
         /\ \A b \in Admins : admin'[b].pc = "log" => admin'[b].n # n
    /\ \A n : n \in Misled' <=>
         \E b \in Admins : /\ Changing(b)' /\ admin'[b].n = n
                          /\ admin'[b].read[admin'[b].key] # caps'[admin'[b].key]
BY DEF Missing, Misled, Logged, InFlight

\* update_min_retry_amount, up to its write, is not about the caps.
LEMMA BeginMinLogs ==
    ASSUME SettingsInv, SettingsInv', LogInv, NEW a \in Admins, NEW new \in MinAmounts,
           BeginMin(a, new)
    PROVE  LogInv'
<1> PICK old \in MinAmounts :
        /\ ReadMin(old)
        /\ admin' = [admin EXCEPT ![a] =
                       Request("write", updates + 1, MinKey, new, old, DefaultCaps)]
  BY DEF BeginMin
<1> PICK r : r = Request("write", updates + 1, MinKey, new, old, DefaultCaps)
  OBVIOUS
<1>1. /\ admin[a].pc = "idle" /\ UNCHANGED <<caps, settingsLog, changes>>
  BY DEF BeginMin
<1>2. r.pc = "write" /\ r.key = MinKey
  BY RequestFields
<1>3. admin'[a] = r /\ \A b \in Admins \ {a} : admin'[b] = admin[b]
  BY DEF SettingsInv, SettingsTypeOK
<1>4. (faults' = faults \/ faults' = faults + 1) /\ (faults' = 0 => faults = 0)
  BY FaultsCount DEF ReadMin
<1>5. \A b \in Admins : Changing(b)' => b # a /\ Changing(b)
  BY <1>2, <1>3 DEF Changing
<1>6. \A b \in Admins : admin[b].pc = "log" <=> b # a /\ admin'[b].pc = "log"
  BY <1>1, <1>2, <1>3
<1>7. Missing' \subseteq Missing
  BY <1>1, <1>3, <1>6, LostIs, LostIsNext
<1>8. Misled' \subseteq Misled
  BY <1>1, <1>3, <1>5, LostIs, LostIsNext
<1>9. Cardinality(Lost') <= faults' * Cardinality(Admins)
  BY <1>4, <1>7, <1>8, LostKept DEF Lost
<1>10. faults' = 0 => LogTells'
  <2> SUFFICES ASSUME LogTells PROVE LogTells'
    BY <1>4 DEF LogInv
  <2>1. \A b \in Admins : admin'[b].pc = "log" => admin'[b] = admin[b]
    BY <1>2, <1>3
  <2> QED BY <2>1, <1>1 DEF LogTells
<1>11. \A b \in Admins : Changing(b)' => admin'[b].old = admin'[b].read[admin'[b].key]
  BY <1>3, <1>5 DEF LogInv
<1> QED BY <1>1, <1>9, <1>10, <1>11 DEF LogInv

\* What follows a write logs the update if its value is new, and only then.
LEMMA WrittenEffect ==
    ASSUME SettingsTypeOK, NEW a \in Admins, Written(a)
    PROVE  /\ \A b \in Admins \ {a} : admin'[b] = admin[b]
           /\ admin'[a].pc # "write"
           /\ admin'[a].pc = "log" <=> admin[a].new # admin[a].old
           /\ admin'[a].pc = "log" =>
                /\ admin'[a].n = admin[a].n /\ admin'[a].key = admin[a].key
                /\ admin'[a].new = admin[a].new /\ admin'[a].old = admin[a].old
<1> PICK q : q = admin[a]
  OBVIOUS
<1> PICK l : l = Request("log", q.n, q.key, q.new, q.old, DefaultCaps)
  OBVIOUS
<1>1. admin' = [admin EXCEPT ![a] = IF q.new # q.old THEN l ELSE NoRequest]
  BY DEF Written, LogsAfter
<1>2. /\ \A b \in Admins \ {a} : admin'[b] = admin[b]
      /\ admin'[a] = IF q.new # q.old THEN l ELSE NoRequest
  BY <1>1 DEF SettingsTypeOK
<1>3. /\ l.pc = "log" /\ l.n = q.n /\ l.key = q.key /\ l.new = q.new /\ l.old = q.old
      /\ NoRequest.pc = "idle"
  BY RequestFields, RequestTypes
<1> QED BY <1>2, <1>3

\* The write of the minimum amount changes no cap.
LEMMA WriteMinLogs ==
    ASSUME SettingsInv, SettingsInv', LogInv, NEW a \in Admins, WriteMin(a)
    PROVE  LogInv'
<1>1. /\ admin[a].pc = "write" /\ admin[a].key = MinKey
      /\ UNCHANGED <<caps, settingsLog, faults>>
  BY DEF WriteMin
<1>2. \/ changes' = changes
      \/ \E from, to : changes' = changes \cup {Change(admin[a].n, MinKey, from, to)}
  BY DEF WriteMin, Changed
<1>3. /\ \A e \in changes' : e.key # MinKey => e \in changes
      /\ changes \subseteq changes'
      /\ \A e \in changes' : e.n \in 0..MaxUpdates
  <2>1. admin[a].n \in 0..MaxUpdates
    BY FieldTypes DEF SettingsInv, SettingsTypeOK
  <2> QED BY <2>1, <1>2 DEF Change, LogInv
<1>4. /\ \A b \in Admins \ {a} : admin'[b] = admin[b]
      /\ admin'[a].pc # "write"
      /\ admin'[a].pc = "log" => admin'[a].key = MinKey
  BY <1>1, WrittenEffect DEF WriteMin, SettingsInv
<1>5. \A b \in Admins : Changing(b)' => b # a /\ Changing(b)
  BY <1>4 DEF Changing
<1>6. \A b \in Admins : admin[b].pc = "log" => admin'[b] = admin[b]
  BY <1>1, <1>4
<1>7. Missing' \subseteq Missing
  BY <1>1, <1>3, <1>6, LostIs, LostIsNext
<1>8. Misled' \subseteq Misled
  BY <1>1, <1>4, <1>5, LostIs, LostIsNext
<1>9. Cardinality(Lost') <= faults' * Cardinality(Admins)
  BY <1>1, <1>7, <1>8, LostKept DEF Lost
<1>10. faults' = 0 => LogTells'
  <2> SUFFICES ASSUME LogTells PROVE LogTells'
    BY <1>1 DEF LogInv
  <2>1. \A b \in Admins :
          admin'[b].pc = "log" /\ admin'[b].key # MinKey => admin'[b] = admin[b]
    BY <1>4
  <2> QED BY <2>1, <1>1, <1>3 DEF LogTells
<1>11. \A b \in Admins : Changing(b)' => admin'[b].old = admin'[b].read[admin'[b].key]
  BY <1>4, <1>5 DEF LogInv
<1> QED BY <1>3, <1>9, <1>10, <1>11 DEF LogInv

\* update_max_retries, up to its write: misled by a failed read at most.
LEMMA BeginCapsLogs ==
    ASSUME SettingsInv, SettingsInv', LogInv, NEW a \in Admins, NEW cause \in RetryCauses,
           NEW new \in Caps, BeginCaps(a, cause, new)
    PROVE  LogInv'
<1> PICK read \in {caps, DefaultCaps} :
        /\ ReadCaps(read)
        /\ admin' = [admin EXCEPT ![a] =
                       Request("write", updates + 1, cause, new, read[cause], read)]
  BY DEF BeginCaps
<1> PICK r : r = Request("write", updates + 1, cause, new, read[cause], read)
  OBVIOUS
<1>1. /\ admin[a].pc = "idle" /\ UNCHANGED <<caps, settingsLog, changes>>
  BY DEF BeginCaps
<1>2. /\ r.pc = "write" /\ r.key = cause /\ r.n = updates + 1
      /\ r.read = read /\ r.old = read[cause]
  BY RequestFields
<1>3. admin'[a] = r /\ \A b \in Admins \ {a} : admin'[b] = admin[b]
  BY DEF SettingsInv, SettingsTypeOK
<1>4. (faults' = faults \/ faults' = faults + 1) /\ (faults' = 0 => faults = 0)
  BY FaultsCount DEF ReadCaps
<1>5. \A b \in Admins \ {a} : Changing(b)' <=> Changing(b)
  BY <1>3 DEF Changing
<1>6. \A b \in Admins : admin[b].pc = "log" <=> b # a /\ admin'[b].pc = "log"
  BY <1>1, <1>2, <1>3
<1>7. Missing' \subseteq Missing
  BY <1>1, <1>3, <1>6, LostIs, LostIsNext
<1>8. Cardinality(Lost') <= faults' * Cardinality(Admins)
  <2>1. CASE read = caps
    <3>1. Misled' \subseteq Misled
      BY <2>1, <1>1, <1>2, <1>3, <1>5, LostIs, LostIsNext
    <3> QED BY <3>1, <1>4, <1>7, LostKept DEF Lost
  <2>2. CASE read # caps
    <3>1. faults' = faults + 1
      BY <2>2 DEF ReadCaps, SettingsFault
    <3>2. Misled' \subseteq Misled \cup {r.n}
      BY <1>1, <1>3, <1>5, LostIs, LostIsNext
    <3>3. IsFiniteSet({r.n}) /\ Cardinality({r.n}) = 1
      BY FS_Singleton
    <3>4. Cardinality(Admins) >= 1
      BY FS_EmptySet, SettingsAssumption, AdminsCounted
    <3>5. Lost' \subseteq Lost \cup {r.n}
      BY <3>2, <1>7 DEF Lost
    <3> QED BY <3>1, <3>3, <3>4, <3>5, LostGrows
  <2> QED BY <2>1, <2>2
<1>9. faults' = 0 => LogTells'
  <2> SUFFICES ASSUME LogTells PROVE LogTells'
    BY <1>4 DEF LogInv
  <2>1. \A b \in Admins : admin'[b].pc = "log" => admin'[b] = admin[b]
    BY <1>2, <1>3
  <2> QED BY <2>1, <1>1 DEF LogTells
<1>10. \A b \in Admins : Changing(b)' => admin'[b].old = admin'[b].read[admin'[b].key]
  BY <1>2, <1>3, <1>5 DEF LogInv
<1> QED BY <1>1, <1>8, <1>9, <1>10 DEF LogInv

\* Their write: a change that is not logged next is of a misled request.
LEMMA WriteCapsLogs ==
    ASSUME SettingsInv, SettingsInv', LogInv, NEW a \in Admins, WriteCaps(a)
    PROVE  LogInv'
<1> PICK q : q = admin[a]
  OBVIOUS
<1>1. /\ Changing(a) /\ q.key \in RetryCauses /\ q.key # MinKey
      /\ UNCHANGED <<settingsLog, faults>>
  BY WriteCapsEffect DEF WriteCaps, Changing
<1>2. q.old = q.read[q.key]
  BY <1>1 DEF LogInv
<1> PICK change : change = Change(q.n, q.key, caps[q.key], q.new)
  OBVIOUS
<1>3. changes' = IF caps[q.key] = q.new THEN changes ELSE changes \cup {change}
  BY DEF WriteCaps, Changed
<1>4. change.n = q.n /\ change.key = q.key
  BY DEF Change
<1>5. /\ \A b \in Admins \ {a} : admin'[b] = admin[b]
      /\ admin'[a].pc # "write"
      /\ admin'[a].pc = "log" <=> q.new # q.old
      /\ admin'[a].pc = "log" => /\ admin'[a].n = q.n /\ admin'[a].key = q.key
                                /\ admin'[a].new = q.new /\ admin'[a].old = q.old
  BY WrittenEffect DEF WriteCaps, SettingsInv
<1>6. \A b \in Admins : Changing(b) => b = a
  BY <1>1 DEF SettingsInv, RequestsSound
<1>7. \A b \in Admins : ~ Changing(b)'
  BY <1>5, <1>6 DEF Changing
<1>8. \A b \in Admins : admin[b].pc = "log" => admin'[b] = admin[b]
  BY <1>1, <1>5 DEF Changing
<1>9. Missing' \subseteq Missing \cup Misled
  <2> SUFFICES ASSUME NEW n \in Missing', n \notin Missing PROVE n \in Misled
    OBVIOUS
  <2>1. /\ \E e \in changes' : e.key # MinKey /\ e.n = n
        /\ \A e \in settingsLog : e.n # n
        /\ \A b \in Admins : admin'[b].pc = "log" => admin'[b].n # n
    BY <1>1, LostIsNext
  <2>2. \A b \in Admins : admin[b].pc = "log" => admin[b].n # n
    BY <2>1, <1>8
  <2>3. ~ \E e \in changes : e.key # MinKey /\ e.n = n
    BY <2>1, <2>2, LostIs
  <2>4. caps[q.key] # q.new /\ n = q.n
    BY <2>1, <2>3, <1>3, <1>4
  <2>5. admin'[a].pc # "log"
    BY <2>1, <2>4, <1>5
  <2>6. q.read[q.key] # caps[q.key]
    BY <2>4, <2>5, <1>2, <1>5
  <2> QED BY <2>4, <2>6, <1>1, LostIs
<1>10. Lost' \subseteq Lost
  BY <1>7, <1>9, LostIsNext DEF Lost
<1>11. Cardinality(Lost') <= faults' * Cardinality(Admins)
  BY <1>1, <1>10, LostKept
<1>12. faults' = 0 => LogTells'
  <2> SUFFICES ASSUME LogTells, faults = 0 PROVE LogTells'
    BY <1>1 DEF LogInv
  <2>1. q.read = caps
    BY <1>1 DEF SettingsInv, RequestsSound
  <2>2. changes \subseteq changes'
    BY <1>3
  <2>3. admin'[a].pc = "log" =>
          Change(admin'[a].n, admin'[a].key, admin'[a].old, admin'[a].new) \in changes'
    BY <2>1, <1>2, <1>3, <1>5
  <2> QED BY <2>2, <2>3, <1>1, <1>5 DEF LogTells
<1>13. \A e \in changes' : e.n \in 0..MaxUpdates
  BY <1>3, <1>4, FieldTypes DEF LogInv, SettingsInv, SettingsTypeOK
<1> QED BY <1>7, <1>11, <1>12, <1>13 DEF LogInv

\* A change that was about to be logged is logged.
LEMMA LogChangeLogs ==
    ASSUME SettingsInv, SettingsInv', LogInv, NEW a \in Admins, LogChange(a)
    PROVE  LogInv'
<1> PICK q : q = admin[a]
  OBVIOUS
<1> PICK change : change = Change(q.n, q.key, q.old, q.new)
  OBVIOUS
<1>1. /\ q.pc = "log" /\ settingsLog' = settingsLog \cup {change}
      /\ admin' = [admin EXCEPT ![a] = NoRequest]
      /\ UNCHANGED <<caps, changes, faults>>
  BY DEF LogChange
<1>2. change.n = q.n /\ change.key = q.key
  BY DEF Change
<1>3. /\ \A b \in Admins \ {a} : admin'[b] = admin[b]
      /\ admin'[a].pc = "idle"
  BY <1>1, RequestTypes DEF SettingsInv, SettingsTypeOK
<1>4. \A b \in Admins : Changing(b)' => b # a /\ Changing(b)
  BY <1>3 DEF Changing
<1>5. Missing' \subseteq Missing
  <2> SUFFICES ASSUME NEW n \in Missing' PROVE n \in Missing
    OBVIOUS
  <2>1. /\ \E e \in changes : e.key # MinKey /\ e.n = n
        /\ \A e \in settingsLog' : e.n # n
        /\ \A b \in Admins : admin'[b].pc = "log" => admin'[b].n # n
    BY <1>1, LostIsNext
  <2>2. q.n # n /\ \A e \in settingsLog : e.n # n
    BY <2>1, <1>1, <1>2
  <2>3. \A b \in Admins : admin[b].pc = "log" => admin[b].n # n
    BY <2>1, <2>2, <1>3
  <2> QED BY <2>1, <2>2, <2>3, LostIs
<1>6. Misled' \subseteq Misled
  BY <1>1, <1>3, <1>4, LostIs, LostIsNext
<1>7. Cardinality(Lost') <= faults' * Cardinality(Admins)
  BY <1>1, <1>5, <1>6, LostKept DEF Lost
<1>8. faults' = 0 => LogTells'
  <2> SUFFICES ASSUME LogTells PROVE LogTells'
    BY <1>1 DEF LogInv
  <2>1. change.key # MinKey => change \in changes
    BY <1>1, <1>2 DEF LogTells
  <2>2. \A e \in settingsLog' : e.key # MinKey => e \in changes'
    BY <2>1, <1>1 DEF LogTells
  <2>3. \A b \in Admins : admin'[b].pc = "log" => admin'[b] = admin[b]
    BY <1>3
  <2> QED BY <2>2, <2>3, <1>1 DEF LogTells
<1>9. \A b \in Admins : Changing(b)' => admin'[b].old = admin'[b].read[admin'[b].key]
  BY <1>3, <1>4 DEF LogInv
<1> QED BY <1>1, <1>7, <1>8, <1>9 DEF LogInv

\* The updates of some requests are no more than there are requests.
LEMMA UpdatesOf ==
    ASSUME NEW requests \in SUBSET Admins
    PROVE  LET S == {admin[a].n : a \in requests}
           IN  IsFiniteSet(S) /\ Cardinality(S) <= Cardinality(Admins)
<1> PICK S : S = {admin[a].n : a \in requests}
  OBVIOUS
<1> PICK f : f = [a \in requests |-> admin[a].n]
  OBVIOUS
<1>1. f \in Surjection(requests, S)
  BY DEF Surjection
<1>2. IsFiniteSet(requests) /\ Cardinality(requests) <= Cardinality(Admins)
  BY FS_Subset, SettingsAssumption
<1>3. IsFiniteSet(S) /\ Cardinality(S) <= Cardinality(requests)
  BY <1>1, <1>2, FS_Surjection
<1>4. Cardinality(S) \in Nat /\ Cardinality(requests) \in Nat /\ Cardinality(Admins) \in Nat
  BY <1>2, <1>3, AdminsCounted, FS_CardinalityType
<1> QED BY <1>2, <1>3, <1>4

\* Requests end: what they were about to log is lost, and nothing else.
LEMMA EndLogs ==
    ASSUME SettingsInv, SettingsInv', LogInv, NEW requests \in SUBSET Admins, End(requests),
           faults' = faults + 1, UNCHANGED caps,
           \/ UNCHANGED <<settingsLog, changes>>
           \/ /\ settingsLog' = {}
              /\ changes' = {e \in changes :
                   \E b \in Admins \ requests : admin[b].pc = "log" /\ admin[b].n = e.n}
    PROVE  LogInv'
<1> PICK S : S = {admin[a].n : a \in requests}
  OBVIOUS
<1>1. /\ \A b \in Admins \ requests : admin'[b] = admin[b]
      /\ \A b \in requests : admin'[b].pc = "idle"
  BY RequestTypes DEF End
<1>2. \A b \in Admins : Changing(b)' => admin'[b] = admin[b] /\ Changing(b)
  BY <1>1 DEF Changing
<1>3. Misled' \subseteq Misled
  BY <1>2, LostIs, LostIsNext
<1>4. Missing' \subseteq Missing \cup S
  <2>1. CASE UNCHANGED <<settingsLog, changes>>
    <3> SUFFICES ASSUME NEW n \in Missing', n \notin S PROVE n \in Missing
      OBVIOUS
    <3>1. /\ \E e \in changes : e.key # MinKey /\ e.n = n
          /\ \A e \in settingsLog : e.n # n
          /\ \A b \in Admins : admin'[b].pc = "log" => admin'[b].n # n
      BY <2>1, LostIsNext
    <3>2. \A b \in Admins : admin[b].pc = "log" => admin[b].n # n
      BY <3>1, <1>1
    <3> QED BY <3>1, <3>2, LostIs
  <2>2. CASE changes' = {e \in changes :
                   \E b \in Admins \ requests : admin[b].pc = "log" /\ admin[b].n = e.n}
    BY <2>2, <1>1, LostIsNext
  <2> QED BY <2>1, <2>2
<1>5. IsFiniteSet(S) /\ Cardinality(S) <= Cardinality(Admins)
  BY UpdatesOf
<1>6. Cardinality(Lost') <= faults' * Cardinality(Admins)
  <2>1. Lost' \subseteq Lost \cup S
    BY <1>3, <1>4 DEF Lost
  <2> QED BY <2>1, <1>5, LostGrows
<1>7. faults' # 0
  BY DEF SettingsInv, SettingsTypeOK
<1>8. \A b \in Admins : Changing(b)' => admin'[b].old = admin'[b].read[admin'[b].key]
  BY <1>2 DEF LogInv
<1>9. \A e \in changes' : e.n \in 0..MaxUpdates
  BY DEF LogInv
<1> QED BY <1>6, <1>7, <1>8, <1>9 DEF LogInv

\* No step of an admin breaks it.
LEMMA AdminLogs ==
    ASSUME SettingsInv, LogInv, AdminNext
    PROVE  LogInv'
<1>1. SettingsInv'
  BY AdminKeeps
<1>2. CASE \E a \in Admins : RequestFails(a)
  <2> PICK a \in Admins : RequestFails(a)
    BY <1>2
  <2>1. /\ End({a}) /\ faults' = faults + 1 /\ UNCHANGED <<caps, settingsLog, changes>>
    BY DEF RequestFails, SettingsFault
  <2> QED BY <2>1, <1>1, EndLogs
<1>3. CASE \E requests \in SUBSET Admins : PanelKilled(requests)
  BY <1>1, <1>3, EndLogs DEF PanelKilled, SettingsFault
<1>4. CASE \E requests \in SUBSET Admins : LogTorn(requests)
  BY <1>1, <1>4, EndLogs DEF LogTorn, SettingsFault
<1> QED BY <1>1, <1>2, <1>3, <1>4, BeginMinLogs, BeginCapsLogs, WriteMinLogs,
        WriteCapsLogs, LogChangeLogs DEF AdminNext

\* A step that leaves all of it alone, but for its faults, keeps it.
LEMMA AsideLogs ==
    ASSUME SettingsInv, LogInv,
           UNCHANGED <<caps, admin, settingsLog, changes>>,
           faults' = faults \/ faults' = faults + 1
    PROVE  LogInv'
<1>1. Lost' = Lost
  BY DEF Lost, Missing, Misled, Changing, Logged, InFlight
<1>2. Cardinality(Lost') <= faults' * Cardinality(Admins)
  BY <1>1, LostKept
<1>3. faults' = 0 => faults = 0
  BY DEF SettingsInv, SettingsTypeOK
<1> QED BY <1>2, <1>3 DEF LogInv, LogTells, Changing

LEMMA LogInitially == SettingsInit => LogInv
<1> SUFFICES ASSUME SettingsInit PROVE LogInv
  OBVIOUS
<1>1. \A a \in Admins : admin[a].pc = "idle"
  BY RequestTypes DEF SettingsInit
<1>2. changes = {} /\ settingsLog = {} /\ faults = 0
  BY DEF SettingsInit
<1>3. Lost = {}
  BY <1>1, <1>2, LostIs DEF Lost, Changing
<1>4. Cardinality(Lost) <= faults * Cardinality(Admins)
  BY <1>2, <1>3, FS_EmptySet, AdminsCounted
<1> QED BY <1>1, <1>2, <1>4 DEF LogInv, LogTells, Changing

\* What CapChangesLogged says follows.
LEMMA LogInvLogs == ASSUME SettingsInv, LogInv PROVE CapChangesLogged
<1>1. /\ IsFiniteSet(Lost) /\ Missing \subseteq Lost
  BY LostFinite DEF SettingsInv, LogInv, Lost
<1>2. /\ Cardinality(Missing) <= Cardinality(Lost)
      /\ Cardinality(Missing) \in Nat /\ Cardinality(Lost) \in Nat
  BY <1>1, FS_Subset, FS_CardinalityType
<1>3. PICK m \in Nat : m = faults * Cardinality(Admins)
  BY AdminsCounted DEF SettingsInv, SettingsTypeOK
<1>4. Cardinality(Missing) <= faults * Cardinality(Admins)
  BY <1>2, <1>3 DEF LogInv
<1> QED BY <1>4 DEF CapChangesLogged, LogInv, LogTells, Missing

\* Of the caps, the log misses a change only through a fault, and then the
\* requests of the killed process at most; and without a fault it is true, old
\* value included, for any number of admins, causes and updates.
THEOREM CapChangesAreLogged == SettingsSpec => []CapChangesLogged
<1>1. SettingsInit => SettingsInv /\ LogInv
  BY SettingsInitially, LogInitially
<1>2. SettingsInv /\ LogInv /\ [AdminNext]_settingsVars => LogInv'
  BY AdminLogs, AsideLogs DEF settingsVars
<1>3. SettingsInv /\ LogInv => CapChangesLogged
  BY LogInvLogs
<1> QED BY SettingsInvariance, <1>1, <1>2, <1>3, PTL DEF SettingsSpec

-----------------------------------------------------------------------------
(* Part 2: a batch beside them *)

-----------------------------------------------------------------------------
(* The inductive invariant *)

\* While a decision is made, the settings stored are among those in force.
StoredInForce ==
    batch.pc \in {"min", "caps"} =>
        minAmount \in minInForce /\ CapOf(caps, batch.cause) \in capInForce

\* What it has read so far was in force, or a default after a failed read.
ReadInForce == batch.pc = "caps" => batch.min \in MinsSeen

\* What it chose follows from two such values.
ChosenInForce ==
    batch.pc = "run" =>
        \E min \in MinsSeen, cap \in CapsSeen :
            batch.action = Chosen(batch.cause, batch.record.amount, min, cap)

\* A cause without retries has no cap but zero.
NoCapForOthers == batch.cause \notin RetryCauses => capInForce \subseteq {0}

\* There is a record under way.
HasRecord == batch.pc # "next" => batch.record \in Records

BatchInv ==
    /\ SettingsInv
    /\ BatchTypeOK
    /\ HasRecord
    /\ NoCapForOthers
    /\ StoredInForce
    /\ ReadInForce
    /\ ChosenInForce

-----------------------------------------------------------------------------
(* Records and operators *)

\* The fields of the pipeline's locals.
LEMMA BatchFields ==
    /\ \A pc, record, cause, min, action :
        /\ Batch(pc, record, cause, min, action).pc = pc
        /\ Batch(pc, record, cause, min, action).record = record
        /\ Batch(pc, record, cause, min, action).cause = cause
        /\ Batch(pc, record, cause, min, action).min = min
        /\ Batch(pc, record, cause, min, action).action = action
    /\ NoBatch.pc = "next" /\ NoBatch.cause = "UNKNOWN"
BY DEF Batch, NoBatch

\* The fields of an action.
LEMMA ActionFields ==
    \A type, cap, cause, approved :
        /\ Action(type, cap, cause, approved).type = type
        /\ Action(type, cap, cause, approved).max_attempts = cap
        /\ Action(type, cap, cause, approved).cause = cause
        /\ Action(type, cap, cause, approved).policy_approved = approved
BY DEF Action

\* The fields of an outcome.
LEMMA OutcomeFields ==
    \A status, method, record, action, used, recovered, promise :
        /\ Outcome(status, method, record, action, used, recovered, promise).method = method
        /\ Outcome(status, method, record, action, used, recovered, promise).record = record
        /\ Outcome(status, method, record, action, used, recovered, promise).action = action
        /\ Outcome(status, method, record, action, used, recovered, promise).attempts_used = used
        /\ Outcome(status, method, record, action, used, recovered, promise).recovered = recovered
BY DEF Outcome

\* ACTION_MAP has an action type for every cause.
LEMMA ActionMapType ==
    \A cause : ActionMap(cause) \in Retries \cup PromiseActionTypes
BY DEF ActionMap, Retries, PromiseActionTypes

\* The cap of a cause is a cap, and zero for a cause that is not retried.
LEMMA CapOfType ==
    ASSUME NEW setting \in [Causes -> Caps], NEW cause
    PROVE  /\ CapOf(setting, cause) \in Caps
           /\ (\A c \in Causes \ RetryCauses : setting[c] = 0) /\ cause \notin RetryCauses
                => CapOf(setting, cause) = 0
BY SettingsAssumption DEF CapOf, Caps

\* choose_action's result, by its two gates.
LEMMA ChosenIs ==
    ASSUME NEW cause, NEW amount, NEW min, NEW cap
    PROVE  /\ ~ Rejected(ActionMap(cause), amount, min) =>
                Chosen(cause, amount, min, cap) = Action(ActionMap(cause), cap, cause, TRUE)
           /\ Rejected(ActionMap(cause), amount, min) =>
                Chosen(cause, amount, min, cap) = Action("ESCALATE", 0, cause, FALSE)
BY DEF Chosen

\* It is an action.
LEMMA ChosenType ==
    ASSUME NEW cause \in Causes \cup {"UNKNOWN"}, NEW amount, NEW min, NEW cap \in Caps
    PROVE  Chosen(cause, amount, min, cap) \in Actions
<1>1. 0 \in Caps
  BY SettingsAssumption DEF Caps
<1>2. Action(ActionMap(cause), cap, cause, TRUE) \in Actions
  BY ActionMapType DEF Action, Actions
<1>3. Action("ESCALATE", 0, cause, FALSE) \in Actions
  BY <1>1 DEF Action, Actions, PromiseActionTypes
<1> QED BY <1>2, <1>3, ChosenIs

\* Between records nothing is under way.
LEMMA NoBatchType == NoBatch \in Batches
<1>1. 0 \in Caps
  BY SettingsAssumption DEF Caps
<1> QED BY <1>1 DEF NoBatch, Batch, Batches, NoAction, Action, Actions, PromiseActionTypes

-----------------------------------------------------------------------------
(* The invariant is inductive *)

\* A batch begins between records.
LEMMA BatchInitially == Init => BatchInv
<1> SUFFICES ASSUME Init PROVE BatchInv
  OBVIOUS
<1>1. SettingsInv /\ SettingsTypeOK
  BY SettingsInitially DEF Init, SettingsInv
<1>2. batch = NoBatch /\ results = <<>> /\ minInForce = {} /\ capInForce = {}
  BY DEF Init
<1>3. BatchTypeOK
  BY <1>1, <1>2, NoBatchType DEF BatchTypeOK
<1>4. batch.pc = "next"
  BY <1>2, BatchFields
<1> QED BY <1>1, <1>2, <1>3, <1>4
     DEF BatchInv, HasRecord, NoCapForOthers, StoredInForce, ReadInForce, ChosenInForce

\* What was in force for the decision under way stays so.
LEMMA SeenGrow ==
    ASSUME batch'.cause = batch.cause, faults > 0 => faults' > 0,
           minInForce \subseteq minInForce', capInForce \subseteq capInForce'
    PROVE  MinsSeen \subseteq MinsSeen' /\ CapsSeen \subseteq CapsSeen'
BY DEF MinsSeen, CapsSeen

\* Caps that a decision may have seen are caps, and zero for causes not retried.
LEMMA CapsSeenType ==
    ASSUME BatchInv
    PROVE  /\ CapsSeen \subseteq Caps
           /\ batch.cause \notin RetryCauses => CapsSeen \subseteq {0}
<1>1. capInForce \subseteq Caps
  BY DEF BatchInv, BatchTypeOK
<1>2. batch.cause \notin RetryCauses => capInForce \subseteq {0}
  BY DEF BatchInv, NoCapForOthers
<1>3. DefaultCaps \in [Causes -> Caps] /\ \A c \in Causes \ RetryCauses : DefaultCaps[c] = 0
  BY SettingsAssumption
<1> QED BY <1>1, <1>2, <1>3, CapOfType DEF CapsSeen

\* classify.
LEMMA ClassifyKeeps ==
    ASSUME BatchInv, NEW record \in Records, Classify(record)
    PROVE  BatchInv'
<1> PICK cause \in Classified(record) :
        /\ batch' = Batch("min", record, cause, 0, NoAction)
        /\ capInForce' = {CapOf(caps, cause)}
  BY DEF Classify
<1>1. minInForce' = {minAmount} /\ UNCHANGED <<settingsVars, results>>
  BY DEF Classify
<1>2. UNCHANGED <<minAmount, caps, dbLock, admin, updates, faults>>
  BY <1>1 DEF settingsVars
<1>3. SettingsInv'
  BY <1>2, AdminsIdle DEF BatchInv
<1>4. cause \in Causes \cup {"UNKNOWN"}
  BY DEF Classified
<1>5. caps \in [Causes -> Caps] /\ minAmount \in MinAmounts
  BY DEF BatchInv, SettingsInv, SettingsTypeOK
<1>6. batch'.pc = "min" /\ batch'.record = record /\ batch'.cause = cause
  BY BatchFields
<1>7. batch' \in Batches
  BY <1>4, NoBatchType, ActionMapType, SettingsAssumption
     DEF Batch, Batches, NoAction, Action, Actions, PromiseActionTypes, Caps
<1>8. BatchTypeOK'
  BY <1>1, <1>3, <1>5, <1>7, CapOfType DEF BatchTypeOK, BatchInv, SettingsInv
<1>9. NoCapForOthers'
  BY <1>5, <1>6, CapOfType DEF BatchInv, SettingsInv, OtherCapsAreZero, NoCapForOthers
<1>10. StoredInForce'
  BY <1>1, <1>2, <1>6 DEF StoredInForce, CapOf
<1>11. HasRecord' /\ ReadInForce' /\ ChosenInForce'
  BY <1>6 DEF HasRecord, ReadInForce, ChosenInForce
<1> QED BY <1>3, <1>8, <1>9, <1>10, <1>11 DEF BatchInv

\* A step of the decision reads one setting, or a default for it.
LEMMA ReadsKeepSettings ==
    ASSUME BatchInv,
           UNCHANGED <<minAmount, caps, dbLock, admin, updates>>,
           \/ UNCHANGED faults
           \/ SettingsFault("db_read")
    PROVE  SettingsInv' /\ (faults > 0 => faults' > 0)
<1>1. SettingsInv'
  BY AdminsIdle DEF BatchInv
<1>2. faults \in 0..MaxFaults
  BY DEF BatchInv, SettingsInv, SettingsTypeOK
<1>3. faults > 0 => faults' > 0
  BY <1>2, FaultCounts
<1> QED BY <1>1, <1>3

\* get_min_retry_amount.
LEMMA ReadMinKeeps ==
    ASSUME BatchInv, ReadMinAmount
    PROVE  BatchInv'
<1> PICK min \in MinAmounts :
        /\ ReadMin(min)
        /\ batch' = Batch("caps", batch.record, batch.cause, min, NoAction)
  BY DEF ReadMinAmount, MinRead
<1>1. /\ batch.pc = "min"
      /\ UNCHANGED <<minAmount, caps, dbLock, admin, updates>>
      /\ UNCHANGED <<results, minInForce, capInForce>>
  BY DEF ReadMinAmount
<1>2. SettingsInv' /\ (faults > 0 => faults' > 0)
  BY <1>1, ReadsKeepSettings DEF ReadMin
<1>3. /\ batch'.pc = "caps" /\ batch'.record = batch.record
      /\ batch'.cause = batch.cause /\ batch'.min = min
  BY BatchFields
<1>4. batch' \in Batches
  BY SettingsAssumption
     DEF BatchInv, BatchTypeOK, Batch, Batches, NoAction, Action, Actions,
         PromiseActionTypes, Caps
<1>5. BatchTypeOK'
  BY <1>1, <1>2, <1>4 DEF BatchTypeOK, BatchInv, SettingsInv
<1>6. StoredInForce'
  BY <1>1, <1>3 DEF BatchInv, StoredInForce, CapOf
<1>7. ReadInForce'
  <2>1. CASE min = minAmount
    BY <2>1, <1>1, <1>3 DEF BatchInv, StoredInForce, ReadInForce, MinsSeen
  <2>2. CASE min = DefaultMin /\ SettingsFault("db_read")
    <3>1. faults' > 0
      BY <2>2, FaultCounts DEF BatchInv, SettingsInv, SettingsTypeOK
    <3> QED BY <2>2, <3>1, <1>3 DEF ReadInForce, MinsSeen
  <2> QED BY <2>1, <2>2 DEF ReadMin
<1>8. HasRecord' /\ NoCapForOthers' /\ ChosenInForce'
  BY <1>1, <1>3 DEF BatchInv, HasRecord, NoCapForOthers, ChosenInForce
<1> QED BY <1>2, <1>5, <1>6, <1>7, <1>8 DEF BatchInv

\* get_max_retries and the choice.
LEMMA ChooseKeeps ==
    ASSUME BatchInv, ChooseAction
    PROVE  BatchInv'
<1> PICK read \in {caps, DefaultCaps} :
        /\ ReadCaps(read)
        /\ batch' = Batch("run", batch.record, batch.cause, batch.min,
                          Chosen(batch.cause, batch.record.amount, batch.min,
                                 CapOf(read, batch.cause)))
  BY DEF ChooseAction
<1> DEFINE cap == CapOf(read, batch.cause)
           chosen == Chosen(batch.cause, batch.record.amount, batch.min, cap)
<1>1. /\ batch.pc = "caps"
      /\ UNCHANGED <<minAmount, caps, dbLock, admin, updates>>
      /\ UNCHANGED <<results, minInForce, capInForce>>
  BY DEF ChooseAction
<1>2. SettingsInv' /\ (faults > 0 => faults' > 0)
  BY <1>1, ReadsKeepSettings DEF ReadCaps
<1>3. /\ batch'.pc = "run" /\ batch'.record = batch.record
      /\ batch'.cause = batch.cause /\ batch'.action = chosen
  BY BatchFields
<1>4. cap \in CapsSeen'
  <2>1. CASE read = caps /\ UNCHANGED faults
    BY <2>1, <1>1, <1>3 DEF BatchInv, StoredInForce, CapsSeen
  <2>2. CASE read = DefaultCaps /\ SettingsFault("db_read")
    <3>1. faults' > 0
      BY <2>2, FaultCounts DEF BatchInv, SettingsInv, SettingsTypeOK
    <3> QED BY <2>2, <3>1, <1>3 DEF CapsSeen, CapOf
  <2> QED BY <2>1, <2>2 DEF ReadCaps
<1>5. batch.min \in MinsSeen'
  BY <1>1, <1>2, <1>3, SeenGrow DEF BatchInv, ReadInForce
<1>6. chosen \in Actions
  <2>1. read \in [Causes -> Caps]
    BY SettingsAssumption DEF BatchInv, SettingsInv, SettingsTypeOK
  <2>2. cap \in Caps
    BY <2>1, CapOfType
  <2>3. batch.cause \in Causes \cup {"UNKNOWN"}
    BY DEF BatchInv, BatchTypeOK, Batches
  <2> QED BY <2>2, <2>3, ChosenType
<1> HIDE DEF cap, chosen
<1>7. batch' = Batch("run", batch.record, batch.cause, batch.min, chosen)
  BY DEF cap, chosen
<1>8. batch' \in Batches
  BY <1>6, <1>7 DEF BatchInv, BatchTypeOK, Batch, Batches
<1>9. BatchTypeOK'
  BY <1>1, <1>2, <1>8 DEF BatchTypeOK, BatchInv, SettingsInv
<1>10. ChosenInForce'
  <2>1. batch'.action = Chosen(batch'.cause, batch'.record.amount, batch.min, cap)
    BY <1>3 DEF chosen
  <2> QED BY <2>1, <1>4, <1>5 DEF ChosenInForce
<1>11. HasRecord' /\ NoCapForOthers' /\ StoredInForce' /\ ReadInForce'
  BY <1>1, <1>3 DEF BatchInv, HasRecord, NoCapForOthers, StoredInForce, ReadInForce
<1> QED BY <1>2, <1>9, <1>10, <1>11 DEF BatchInv

\* run_action ends the record, whatever its outcome.
LEMMA FinishKeeps ==
    ASSUME BatchInv, NEW outcome \in Outcomes, Finish(outcome)
    PROVE  BatchInv'
<1>1. /\ results' = Append(results, outcome) /\ batch' = NoBatch
      /\ minInForce' = {} /\ capInForce' = {} /\ UNCHANGED settingsVars
  BY DEF Finish
<1>2. SettingsInv'
  BY <1>1, AdminsIdle DEF BatchInv, settingsVars
<1>3. BatchTypeOK'
  BY <1>1, <1>2, NoBatchType DEF BatchInv, BatchTypeOK, SettingsInv
<1>4. batch'.pc = "next"
  BY <1>1, BatchFields
<1> QED BY <1>1, <1>2, <1>3, <1>4
     DEF BatchInv, HasRecord, NoCapForOthers, StoredInForce, ReadInForce, ChosenInForce

\* Outcomes of the three branches of run_action are well typed.
LEMMA OutcomeType ==
    ASSUME BatchInv, batch.pc = "run",
           NEW status \in {"resolved", "pending"},
           NEW method \in RealResolutionMethods \cup {"simulated", "none"},
           NEW used \in Nat, NEW recovered \in BOOLEAN \cup {None},
           NEW promise \in {"kept", "broken", "none"}
    PROVE  Outcome(status, method, batch.record, batch.action, used, recovered, promise)
             \in Outcomes
<1>1. batch.record \in Records
  BY DEF BatchInv, HasRecord
<1>2. batch.action \in Actions
  BY DEF BatchInv, BatchTypeOK, Batches
<1> QED BY <1>1, <1>2 DEF Outcome, Outcomes

\* The components of a pair.
LEMMA PairFields ==
    \A S, T : \A pair \in S \X T : pair[1] \in S /\ pair[2] \in T
OBVIOUS

\* The attempts of a simulated action.
LEMMA AttemptsType ==
    ASSUME NEW cap \in Caps, NEW attempts \in Attempts(cap)
    PROVE  /\ attempts[1] \in Nat /\ attempts[2] \in BOOLEAN
           /\ attempts[1] > 0 \/ attempts[2] = TRUE => cap > 0 /\ attempts[1] \in 1..cap
<1>1. cap \in Nat
  BY SettingsAssumption DEF Caps
<1>2. CASE attempts \in (1..cap) \X {TRUE}
  <2>1. attempts[1] \in 1..cap /\ attempts[2] \in {TRUE}
    BY <1>2, PairFields
  <2>2. attempts[2] \in BOOLEAN
    BY <2>1, Zenon
  <2>3. attempts[1] \in Nat /\ cap > 0
    BY <1>1, <2>1
  <2> QED BY <2>1, <2>2, <2>3
<1>3. CASE attempts = <<cap, FALSE>>
  BY <1>1, <1>3
<1> QED BY <1>2, <1>3 DEF Attempts

\* _run_simulated and _initiate_live_retry.
LEMMA RunKeeps ==
    ASSUME BatchInv, RunSimulated \/ InitiateRetry \/ InitiationFails
    PROVE  BatchInv'
<1>0. batch.pc = "run"
  BY DEF RunSimulated, InitiateRetry, InitiationFails
<1>1. CASE RunSimulated
  <2> PICK attempts \in Attempts(batch.action.max_attempts),
           promise \in Promises(batch.action.type) :
         Finish(Outcome("resolved", "simulated", batch.record, batch.action,
                        attempts[1], attempts[2], promise))
    BY <1>1 DEF RunSimulated
  <2>1. batch.action.max_attempts \in Caps
    BY DEF BatchInv, BatchTypeOK, Batches, Actions
  <2>2. attempts[1] \in Nat /\ attempts[2] \in BOOLEAN \cup {None}
    BY <2>1, AttemptsType
  <2>3. promise \in {"kept", "broken", "none"}
    BY DEF Promises
  <2>4. Outcome("resolved", "simulated", batch.record, batch.action,
                attempts[1], attempts[2], promise) \in Outcomes
    BY <1>0, <2>2, <2>3, OutcomeType
  <2> QED BY <2>4, FinishKeeps
<1>2. CASE InitiateRetry
  <2>1. Outcome("pending", "none", batch.record, batch.action, 1, None, "none") \in Outcomes
    BY <1>0, OutcomeType
  <2> QED BY <1>2, <2>1, FinishKeeps DEF InitiateRetry
<1>3. CASE InitiationFails
  <2>1. Outcome("resolved", "retry_initiation_failed", batch.record, batch.action,
                1, FALSE, "none") \in Outcomes
    BY <1>0, OutcomeType DEF RealResolutionMethods
  <2> QED BY <1>3, <2>1, FinishKeeps DEF InitiationFails
<1> QED BY <1>1, <1>2, <1>3

\* What the admins may have changed since the last step of the pipeline.
LEMMA SettingsGrowFaults ==
    ASSUME SettingsInv, AdminNext
    PROVE  faults > 0 => faults' > 0
<1>1. faults' = faults \/ \E kind \in {"crash", "lock_timeout", "torn_write", "db_read",
                                       "db_write"} : SettingsFault(kind)
  BY DEF AdminNext, BeginMin, BeginCaps, WriteMin, WriteCaps, LogChange, RequestFails,
         PanelKilled, LogTorn, ReadMin, ReadCaps
<1> QED BY <1>1, FaultCounts DEF SettingsInv, SettingsTypeOK

\* The admins change settings between any two steps.
LEMMA ChangeKeeps ==
    ASSUME BatchInv, ChangeSettings
    PROVE  BatchInv'
<1>1. /\ AdminNext /\ UNCHANGED <<batch, results>>
      /\ minInForce' = IF batch.pc \in {"min", "caps"}
                       THEN minInForce \cup {minAmount'} ELSE minInForce
      /\ capInForce' = IF batch.pc \in {"min", "caps"}
                       THEN capInForce \cup {CapOf(caps', batch.cause)} ELSE capInForce
  BY DEF ChangeSettings
<1>2. SettingsInv' /\ (faults > 0 => faults' > 0)
  BY <1>1, AdminKeeps, SettingsGrowFaults DEF BatchInv
<1>3. minAmount' \in MinAmounts /\ caps' \in [Causes -> Caps]
  BY <1>2 DEF SettingsInv, SettingsTypeOK
<1>4. CapOf(caps', batch.cause) \in Caps
  BY <1>3, CapOfType
<1>5. BatchTypeOK'
  BY <1>1, <1>2, <1>3, <1>4 DEF BatchInv, BatchTypeOK, SettingsInv
<1>6. NoCapForOthers'
  <2>1. batch.cause \notin RetryCauses => CapOf(caps', batch.cause) = 0
    BY <1>2, <1>3, CapOfType DEF SettingsInv, OtherCapsAreZero
  <2> QED BY <1>1, <2>1 DEF BatchInv, NoCapForOthers
<1>7. StoredInForce'
  BY <1>1 DEF StoredInForce, CapOf
<1>8. MinsSeen \subseteq MinsSeen' /\ CapsSeen \subseteq CapsSeen'
  BY <1>1, <1>2, SeenGrow
<1>9. ReadInForce'
  BY <1>1, <1>8 DEF BatchInv, ReadInForce
<1>10. ChosenInForce'
  BY <1>1, <1>8 DEF BatchInv, ChosenInForce
<1>11. HasRecord'
  BY <1>1 DEF BatchInv, HasRecord
<1> QED BY <1>2, <1>5, <1>6, <1>7, <1>9, <1>10, <1>11 DEF BatchInv

\* No step breaks the invariant.
LEMMA NextKeeps ==
    ASSUME BatchInv, [Next]_vars
    PROVE  BatchInv'
<1>1. CASE \E record \in Records : Classify(record)
  BY <1>1, ClassifyKeeps
<1>2. CASE ReadMinAmount
  BY <1>2, ReadMinKeeps
<1>3. CASE ChooseAction
  BY <1>3, ChooseKeeps
<1>4. CASE RunSimulated \/ InitiateRetry \/ InitiationFails
  BY <1>4, RunKeeps
<1>5. CASE ChangeSettings
  BY <1>5, ChangeKeeps
<1>6. CASE UNCHANGED vars
  <2>1. UNCHANGED <<minAmount, caps, dbLock, admin, updates, faults>>
        /\ UNCHANGED <<batch, results, minInForce, capInForce>>
    BY <1>6 DEF vars, settingsVars, batchVars
  <2>2. SettingsInv'
    BY <2>1, AdminsIdle DEF BatchInv
  <2>3. MinsSeen' = MinsSeen /\ CapsSeen' = CapsSeen
    BY <2>1 DEF MinsSeen, CapsSeen
  <2> QED BY <2>1, <2>2, <2>3
       DEF BatchInv, BatchTypeOK, SettingsInv, HasRecord, NoCapForOthers, StoredInForce,
           ReadInForce, ChosenInForce, CapOf
<1> QED BY <1>1, <1>2, <1>3, <1>4, <1>5, <1>6 DEF Next

-----------------------------------------------------------------------------
(* Theorems *)

\* The inductive invariant of a batch holds throughout.
THEOREM BatchInvariance == Spec => []BatchInv
<1>1. BatchInv /\ [Next]_vars => BatchInv'
  BY NextKeeps
<1> QED BY BatchInitially, <1>1, PTL DEF Spec

\* update_max_retries: concurrent updates of two causes do not revert each
\* other, also while a batch reads the settings.
THEOREM BatchKeepsOthers == Spec => OtherCausesKept
<1>1. BatchInv /\ [Next]_vars => [CapsKept]_settingsVars
  <2> SUFFICES ASSUME BatchInv, [Next]_vars PROVE CapsKept
    OBVIOUS
  <2>1. CASE ChangeSettings
    BY <2>1, AdminKeepsCaps DEF BatchInv, ChangeSettings
  <2>2. CASE UNCHANGED caps
    BY <2>2 DEF CapsKept
  <2>3. ChangeSettings \/ UNCHANGED caps
    BY DEF Next, Classify, ReadMinAmount, ChooseAction, RunSimulated, InitiateRetry,
           InitiationFails, Finish, vars, settingsVars
  <2> QED BY <2>1, <2>2, <2>3
<1>2. OtherCausesKept <=> [][CapsKept]_settingsVars
  BY PTL DEF OtherCausesKept, CapsKept
<1> QED BY BatchInvariance, <1>1, <1>2, PTL DEF Spec

\* The log of the changes is as good while a batch reads the settings.
THEOREM BatchLogsCapChanges == Spec => []CapChangesLogged
<1>1. Init => SettingsInv /\ LogInv
  BY SettingsInitially, LogInitially DEF Init
<1>2. BatchInv /\ LogInv /\ [Next]_vars => LogInv'
  <2> SUFFICES ASSUME BatchInv, LogInv, [Next]_vars PROVE LogInv'
    OBVIOUS
  <2>1. SettingsInv
    BY DEF BatchInv
  <2>2. CASE ChangeSettings
    BY <2>1, <2>2, AdminLogs DEF ChangeSettings
  <2>3. CASE ~ ChangeSettings
    <3>1. /\ UNCHANGED <<caps, admin, settingsLog, changes>>
          /\ UNCHANGED faults \/ SettingsFault("db_read")
      BY <2>3 DEF Next, Classify, ReadMinAmount, ChooseAction, RunSimulated, InitiateRetry,
             InitiationFails, Finish, MinRead, ReadMin, ReadCaps, vars, settingsVars
    <3> QED BY <2>1, <3>1, AsideLogs DEF SettingsFault
  <2> QED BY <2>2, <2>3
<1>3. BatchInv /\ LogInv => CapChangesLogged
  BY LogInvLogs DEF BatchInv
<1> QED BY BatchInvariance, <1>1, <1>2, <1>3, PTL DEF Spec

\* Types of the settings and of the batch.
THEOREM BatchTypeCorrect == Spec => []BatchTypeOK
<1>1. BatchInv => BatchTypeOK
  BY DEF BatchInv
<1> QED BY BatchInvariance, <1>1, PTL

\* A decision that was made, by the gates.
LEMMA DecisionFollows ==
    ASSUME BatchInv, batch.pc = "run"
    PROVE  \E min \in MinsSeen, cap \in CapsSeen :
             \/ /\ ~ Rejected(ActionMap(batch.cause), batch.record.amount, min)
                /\ batch.action.type = ActionMap(batch.cause)
                /\ batch.action.max_attempts = cap
                /\ batch.action.policy_approved = TRUE
             \/ /\ Rejected(ActionMap(batch.cause), batch.record.amount, min)
                /\ batch.action.type = "ESCALATE"
                /\ batch.action.max_attempts = 0
                /\ batch.action.policy_approved = FALSE
                /\ batch.action.cause = batch.cause
<1> PICK min \in MinsSeen, cap \in CapsSeen :
        batch.action = Chosen(batch.cause, batch.record.amount, min, cap)
  BY DEF BatchInv, ChosenInForce
<1> DEFINE rejected == Rejected(ActionMap(batch.cause), batch.record.amount, min)
<1>1. batch.action = IF rejected THEN Action("ESCALATE", 0, batch.cause, FALSE)
                     ELSE Action(ActionMap(batch.cause), cap, batch.cause, TRUE)
  BY DEF Chosen
<1>2. CASE rejected
  <2>1. batch.action = Action("ESCALATE", 0, batch.cause, FALSE)
    BY <1>1, <1>2
  <2>2. /\ batch.action.type = "ESCALATE" /\ batch.action.max_attempts = 0
        /\ batch.action.policy_approved = FALSE /\ batch.action.cause = batch.cause
    BY <2>1 DEF Action
  <2> QED BY <1>2, <2>2
<1>3. CASE ~ rejected
  <2>1. batch.action = Action(ActionMap(batch.cause), cap, batch.cause, TRUE)
    BY <1>1, <1>3
  <2>2. /\ batch.action.type = ActionMap(batch.cause) /\ batch.action.max_attempts = cap
        /\ batch.action.policy_approved = TRUE
    BY <2>1 DEF Action
  <2> QED BY <1>3, <2>2
<1> QED BY <1>2, <1>3

\* choose_action: every decision follows settings in force while it was made,
\* and no setting opens the AFA gate.
THEOREM DecisionsInForce == Spec => []DecidedInForce
<1>1. BatchInv => DecidedInForce
  <2> SUFFICES ASSUME BatchInv, batch.pc = "run"
               PROVE  DecidedInForce
    BY DEF DecidedInForce
  <2>1. /\ MinsSeen \subseteq Nat
        /\ AfaLimit \in Nat
        /\ batch.record.amount \in Nat
    BY SettingsAssumption, BatchAssumption
       DEF BatchInv, BatchTypeOK, HasRecord, MinsSeen
  <2> PICK min \in MinsSeen, cap \in CapsSeen :
        \/ /\ ~ Rejected(ActionMap(batch.cause), batch.record.amount, min)
           /\ batch.action.type = ActionMap(batch.cause)
           /\ batch.action.max_attempts = cap
           /\ batch.action.policy_approved = TRUE
        \/ /\ Rejected(ActionMap(batch.cause), batch.record.amount, min)
           /\ batch.action.type = "ESCALATE"
           /\ batch.action.max_attempts = 0
           /\ batch.action.policy_approved = FALSE
           /\ batch.action.cause = batch.cause
    BY DecisionFollows
  <2>2. min \in Nat
    BY <2>1
  <2>3. CASE batch.action.policy_approved = TRUE
    <3>1. /\ ~ Rejected(ActionMap(batch.cause), batch.record.amount, min)
          /\ batch.action.type = ActionMap(batch.cause)
          /\ batch.action.max_attempts \in CapsSeen
      BY <2>3
    <3>2. batch.action.type \in Retries =>
            batch.record.amount <= AfaLimit /\ batch.record.amount >= min
      BY <2>1, <2>2, <3>1 DEF Rejected
    <3> QED BY <2>3, <3>1, <3>2 DEF DecidedInForce
  <2>4. CASE batch.action.policy_approved = FALSE
    <3>1. /\ Rejected(ActionMap(batch.cause), batch.record.amount, min)
          /\ batch.action.type = "ESCALATE" /\ batch.action.max_attempts = 0
          /\ batch.action.cause = batch.cause
      BY <2>4
    <3>2. /\ ActionMap(batch.cause) \in Retries
          /\ batch.record.amount > AfaLimit \/ batch.record.amount < min
      BY <3>1 DEF Rejected
    <3> QED BY <2>4, <3>1, <3>2 DEF DecidedInForce
  <2> QED BY <2>3, <2>4
<1> QED BY BatchInvariance, <1>1, PTL

\* What AttemptsInForce says of one outcome.
Backed(r) ==
    r.method = "simulated" /\ (r.attempts_used > 0 \/ r.recovered = TRUE) =>
        /\ \E cap \in CapsSeen : r.attempts_used \in 1..cap
        /\ r.action.type \in Retries /\ r.action.policy_approved
        /\ r.record.amount <= AfaLimit

\* A decision that allows attempts is an approved retry within the AFA limit.
LEMMA AttemptsNeedApproval ==
    ASSUME BatchInv, batch.pc = "run", batch.action.max_attempts > 0
    PROVE  /\ batch.action.max_attempts \in CapsSeen
           /\ batch.action.type \in Retries
           /\ batch.action.policy_approved = TRUE
           /\ batch.record.amount <= AfaLimit
<1> PICK min \in MinsSeen, cap \in CapsSeen :
        \/ /\ ~ Rejected(ActionMap(batch.cause), batch.record.amount, min)
           /\ batch.action.type = ActionMap(batch.cause)
           /\ batch.action.max_attempts = cap
           /\ batch.action.policy_approved = TRUE
        \/ /\ Rejected(ActionMap(batch.cause), batch.record.amount, min)
           /\ batch.action.max_attempts = 0
  BY DecisionFollows
<1>1. /\ ~ Rejected(ActionMap(batch.cause), batch.record.amount, min)
      /\ batch.action.type = ActionMap(batch.cause)
      /\ batch.action.max_attempts = cap
      /\ batch.action.policy_approved = TRUE
  BY SMT
<1>2. cap # 0
  BY <1>1
<1>3. batch.cause \in RetryCauses
  BY <1>2, CapsSeenType
<1>4. ActionMap(batch.cause) \in Retries
  BY <1>3, RetryCausesAssumption
<1>5. batch.record.amount \in Nat /\ AfaLimit \in Nat
  BY BatchAssumption DEF BatchInv, HasRecord
<1>6. batch.record.amount <= AfaLimit
  BY <1>1, <1>4, <1>5 DEF Rejected
<1> QED BY <1>1, <1>4, <1>6

\* So is the outcome of each of its attempts.
LEMMA SimulatedIsBacked ==
    ASSUME BatchInv, batch.pc = "run",
           NEW attempts \in Attempts(batch.action.max_attempts), NEW promise
    PROVE  Backed(Outcome("resolved", "simulated", batch.record, batch.action,
                          attempts[1], attempts[2], promise))
<1> DEFINE o == Outcome("resolved", "simulated", batch.record, batch.action,
                        attempts[1], attempts[2], promise)
<1>1. /\ o.attempts_used = attempts[1] /\ o.recovered = attempts[2]
      /\ o.action = batch.action /\ o.record = batch.record
  BY OutcomeFields
<1> HIDE DEF o
<1> SUFFICES ASSUME o.attempts_used > 0 \/ o.recovered = TRUE
             PROVE  /\ \E cap \in CapsSeen : o.attempts_used \in 1..cap
                    /\ o.action.type \in Retries /\ o.action.policy_approved
                    /\ o.record.amount <= AfaLimit
  BY DEF Backed, o
<1>2. batch.action.max_attempts \in Caps
  BY DEF BatchInv, BatchTypeOK, Batches, Actions
<1>3. /\ batch.action.max_attempts > 0
      /\ attempts[1] \in 1..batch.action.max_attempts
  BY <1>1, <1>2, AttemptsType
<1> QED BY <1>1, <1>3, AttemptsNeedApproval

\* execute: no setting, no admin and no fault makes a simulated action attempt
\* more than a cap in force allows, or anything but an approved retry.
THEOREM AttemptsCapped == Spec => AttemptsInForce
<1> DEFINE Step == \A i \in DOMAIN results' \ DOMAIN results : Backed(results'[i])
<1>1. BatchInv /\ [Next]_vars => Step
  <2> SUFFICES ASSUME BatchInv, [Next]_vars PROVE Step
    OBVIOUS
  <2>1. CASE RunSimulated
    <3> PICK attempts \in Attempts(batch.action.max_attempts),
             promise \in Promises(batch.action.type) :
           Finish(Outcome("resolved", "simulated", batch.record, batch.action,
                          attempts[1], attempts[2], promise))
      BY <2>1 DEF RunSimulated
    <3> DEFINE o == Outcome("resolved", "simulated", batch.record, batch.action,
                            attempts[1], attempts[2], promise)
    <3>1. batch.pc = "run"
      BY <2>1 DEF RunSimulated
    <3>2. Backed(o)
      BY <3>1, SimulatedIsBacked
    <3>3. results' = Append(results, o) /\ results \in Seq(Outcomes)
      BY DEF Finish, BatchInv, BatchTypeOK
    <3> HIDE DEF o
    <3> QED BY <3>2, <3>3
  <2>2. CASE InitiateRetry \/ InitiationFails
    <3> PICK o : /\ results' = Append(results, o)
                 /\ \/ o = Outcome("pending", "none", batch.record, batch.action, 1, None,
                                   "none")
                    \/ o = Outcome("resolved", "retry_initiation_failed", batch.record,
                                   batch.action, 1, FALSE, "none")
      BY <2>2 DEF InitiateRetry, InitiationFails, Finish
    <3>1. o.method # "simulated"
      BY DEF Outcome
    <3>2. Backed(o)
      BY <3>1 DEF Backed
    <3>3. results \in Seq(Outcomes)
      BY DEF BatchInv, BatchTypeOK
    <3> QED BY <3>2, <3>3
  <2>3. CASE UNCHANGED results
    BY <2>3
  <2>4. RunSimulated \/ InitiateRetry \/ InitiationFails \/ UNCHANGED results
    BY DEF Next, Classify, ReadMinAmount, ChooseAction, ChangeSettings, vars, batchVars
  <2> QED BY <2>1, <2>2, <2>3, <2>4
<1>2. AttemptsInForce <=> [][Step]_vars
  BY PTL DEF AttemptsInForce, Backed
<1> QED BY BatchInvariance, <1>1, <1>2, PTL DEF Spec

-----------------------------------------------------------------------------
(* The report of a batch *)

\* What run_action makes of an action: an open outcome only of a retry, a
\* recovery only by simulation, a promise of every action that contacts somebody,
\* and of a rejected one an escalation that recovered nothing.
OutcomeSound(r) ==
    /\ r.status = "pending" => r.action.type \in Retries
    /\ IsReal(r) => r.recovered # TRUE
    /\ r.action.type \in Retries <=> r.promise = "none"
    /\ r.action.policy_approved = FALSE =>
         r.status # "pending" /\ r.action.type = "ESCALATE" /\ r.recovered # TRUE

ResultsSound == \A i \in 1..Len(results) : OutcomeSound(results[i])

\* Retries contact nobody.
LEMMA RetriesApart ==
    /\ Retries \cap PromiseActionTypes = {}
    /\ "ESCALATE" \in PromiseActionTypes
BY DEF Retries, PromiseActionTypes

\* The outcome under way is sound, whatever it is.
LEMMA RunIsSound ==
    ASSUME BatchInv, batch.pc = "run", NEW status, NEW method, NEW used, NEW recovered,
           NEW promise,
           status = "pending" => batch.action.type \in Retries,
           method \in RealResolutionMethods => recovered # TRUE,
           batch.action.type \in Retries <=> promise = "none",
           batch.action.max_attempts = 0 /\ batch.action.type \notin Retries => recovered # TRUE
    PROVE  OutcomeSound(Outcome(status, method, batch.record, batch.action, used, recovered,
                                promise))
<1> PICK r : r = Outcome(status, method, batch.record, batch.action, used, recovered, promise)
  OBVIOUS
<1>1. /\ r.status = status /\ r.method = method /\ r.action = batch.action
      /\ r.recovered = recovered /\ r.promise = promise
  BY DEF Outcome
<1>2. batch.action.policy_approved = FALSE =>
        batch.action.type = "ESCALATE" /\ batch.action.max_attempts = 0
  BY DecisionFollows
<1>3. batch.action.policy_approved = FALSE =>
        status # "pending" /\ batch.action.type = "ESCALATE" /\ recovered # TRUE
  BY <1>2, RetriesApart
<1> QED BY <1>1, <1>3 DEF OutcomeSound, IsReal

\* An outcome is added.
LEMMA FinishIsSound ==
    ASSUME BatchInv, ResultsSound, NEW outcome, OutcomeSound(outcome), Finish(outcome)
    PROVE  ResultsSound'
<1>1. results \in Seq(Outcomes) /\ results' = Append(results, outcome)
  BY DEF BatchInv, BatchTypeOK, Finish
<1>2. /\ Len(results') = Len(results) + 1 /\ Len(results) \in Nat
      /\ results'[Len(results) + 1] = outcome
      /\ \A i \in 1..Len(results) : results'[i] = results[i]
  BY <1>1
<1> SUFFICES ASSUME NEW i \in 1..Len(results') PROVE OutcomeSound(results'[i])
  BY DEF ResultsSound, OutcomeSound, IsReal
<1>3. i \in 1..Len(results) \/ i = Len(results) + 1
  BY <1>2
<1> QED BY <1>2, <1>3 DEF ResultsSound

\* run_action ends every record soundly.
LEMMA RunSounds ==
    ASSUME BatchInv, ResultsSound, RunSimulated \/ InitiateRetry \/ InitiationFails
    PROVE  ResultsSound'
<1>0. batch.pc = "run"
  BY DEF RunSimulated, InitiateRetry, InitiationFails
<1>1. batch.action.type \in Retries \cup PromiseActionTypes /\ batch.action.max_attempts \in Caps
  BY DEF BatchInv, BatchTypeOK, Batches, Actions
<1>2. CASE RunSimulated
  <2> PICK attempts \in Attempts(batch.action.max_attempts),
           promise \in Promises(batch.action.type) :
         Finish(Outcome("resolved", "simulated", batch.record, batch.action,
                        attempts[1], attempts[2], promise))
    BY <1>2 DEF RunSimulated
  <2>1. batch.action.type \in Retries <=> promise = "none"
    BY <1>1, RetriesApart DEF Promises
  <2>2. batch.action.max_attempts = 0 => attempts[2] # TRUE
    <3>1. attempts[2] = TRUE => batch.action.max_attempts > 0
      BY <1>1, AttemptsType
    <3>2. ~ (0 > 0)
      OBVIOUS
    <3> QED BY <3>1, <3>2
  <2>3. "simulated" \notin RealResolutionMethods /\ "resolved" # "pending"
    BY DEF RealResolutionMethods
  <2>4. OutcomeSound(Outcome("resolved", "simulated", batch.record, batch.action,
                             attempts[1], attempts[2], promise))
    BY <1>0, <2>1, <2>2, <2>3, RunIsSound
  <2> QED BY <2>4, FinishIsSound
<1>3. CASE InitiateRetry
  <2>1. batch.action.type \in Retries
    BY <1>3 DEF InitiateRetry, IsLiveRetry
  <2>2. "none" \notin RealResolutionMethods
    BY DEF RealResolutionMethods
  <2>3. OutcomeSound(Outcome("pending", "none", batch.record, batch.action, 1, None, "none"))
    BY <1>0, <2>1, <2>2, RunIsSound
  <2> QED BY <1>3, <2>3, FinishIsSound DEF InitiateRetry
<1>4. CASE InitiationFails
  <2>1. batch.action.type \in Retries
    BY <1>4 DEF InitiationFails, IsLiveRetry
  <2>2. OutcomeSound(Outcome("resolved", "retry_initiation_failed", batch.record,
                             batch.action, 1, FALSE, "none"))
    BY <1>0, <2>1, RunIsSound
  <2> QED BY <1>4, <2>2, FinishIsSound DEF InitiationFails
<1> QED BY <1>2, <1>3, <1>4

\* The report of sound outcomes balances.
LEMMA SoundBalances ==
    ASSUME BatchInv, ResultsSound
    PROVE  ReportBalances
<1> PICK s : s = Summary(results)
  OBVIOUS
<1>1. /\ results \in Seq(Outcomes) /\ Len(results) \in Nat
      /\ DOMAIN results = 1..Len(results)
  BY DEF BatchInv, BatchTypeOK
<1>2. IsFiniteSet(DOMAIN results)
  BY <1>1, FS_Interval
<1>3. ASSUME NEW i \in DOMAIN results
      PROVE  /\ results[i].record.amount \in Nat
             /\ results[i].status \in {"resolved", "pending"}
             /\ results[i].action.type \in Retries \cup PromiseActionTypes
             /\ results[i].action.policy_approved \in BOOLEAN
             /\ OutcomeSound(results[i])
  <2>1. results[i] \in Outcomes
    BY <1>1
  <2>2. /\ results[i].record \in Records /\ results[i].status \in {"resolved", "pending"}
        /\ results[i].action \in Actions
    BY <2>1 DEF Outcomes
  <2>3. results[i].record.amount \in Nat
    BY <2>2, BatchAssumption
  <2>4. /\ results[i].action.type \in Retries \cup PromiseActionTypes
        /\ results[i].action.policy_approved \in BOOLEAN
    BY <2>2 DEF Actions
  <2>5. OutcomeSound(results[i])
    BY <1>1 DEF ResultsSound
  <2> QED BY <2>2, <2>3, <2>4, <2>5
<1>4. \A i \in DOMAIN results : results[i].record.amount \in Nat
  BY <1>3
<1>5. /\ s.total_cases = s.recovered_cases + s.exception_cases + s.pending_cases
      /\ s.resolved_cases = s.real_resolved_cases + s.simulated_resolved_cases
      /\ s.unrecovered_amount = Amount(results, ExceptionCases(results))
      /\ s.recovered_amount = s.revenue_recovered_real + s.projected_revenue
      /\ s.total_cases = SumCounts(s.cases_by_cause)
      /\ s.exception_cases = SumCounts(s.exceptions_by_cause)
      /\ s.promises_kept + s.promises_broken = Cardinality(PromiseCases(results))
  BY <1>2, <1>4, SummaryBalances
<1>6. s.revenue_recovered_real = 0
  <2>1. RecoveredCases(results) \cap RealResolved(results) = {}
    BY <1>3 DEF RecoveredCases, RealResolved, ResolvedCases, OutcomeSound
  <2>2. s.revenue_recovered_real
          = Amount(results, RecoveredCases(results) \cap RealResolved(results))
    BY SummaryIs
  <2> QED BY <2>1, <2>2, NoAmount
<1>7. Rejections \subseteq EscalatedCases(results)
  BY <1>3 DEF Rejections, EscalatedCases, ExceptionCases, ResolvedCases, OutcomeSound
<1>8. PromiseCases(results) = {i \in DOMAIN results : results[i].action.type \notin Retries}
  <2>1. ASSUME NEW i \in DOMAIN results
        PROVE  i \in PromiseCases(results) <=> results[i].action.type \notin Retries
    BY <1>3, RetriesApart DEF PromiseCases, ResolvedCases, OutcomeSound
  <2>2. PromiseCases(results) \subseteq DOMAIN results
    BY DEF PromiseCases, ResolvedCases
  <2> QED BY <2>1, <2>2
<1> QED BY <1>5, <1>6, <1>7, <1>8 DEF ReportBalances

\* report: for every batch, every setting and every change of an admin: every
\* case is recovered, an exception or pending, with its amount and its cause; a
\* batch alone shows no real revenue, and no rejected case is dropped.
THEOREM BatchReportBalances == Spec => []ReportBalances
<1>1. Init => ResultsSound
  BY DEF Init, ResultsSound
<1>2. BatchInv /\ ResultsSound /\ [Next]_vars => ResultsSound'
  <2> SUFFICES ASSUME BatchInv, ResultsSound, [Next]_vars PROVE ResultsSound'
    OBVIOUS
  <2>1. CASE RunSimulated \/ InitiateRetry \/ InitiationFails
    BY <2>1, RunSounds
  <2>2. CASE ~ (RunSimulated \/ InitiateRetry \/ InitiationFails)
    <3>1. UNCHANGED results
      BY <2>2 DEF Next, Classify, ReadMinAmount, ChooseAction, ChangeSettings, vars, batchVars
    <3> QED BY <3>1 DEF ResultsSound, OutcomeSound, IsReal
  <2> QED BY <2>1, <2>2
<1>3. BatchInv /\ ResultsSound => ReportBalances
  BY SoundBalances
<1> QED BY BatchInvariance, <1>1, <1>2, <1>3, PTL DEF Spec

=============================================================================
