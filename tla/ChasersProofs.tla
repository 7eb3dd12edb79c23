----------------------------- MODULE ChasersProofs -----------------------------
(***************************************************************************)
(* Theorems about a log as a file, and about the pipelines and the webhook *)
(* workers that append to one, for any writers, entries, records, batches  *)
(* and killed processes.                                                   *)
(***************************************************************************)
EXTENDS Chasers, TLAPS, FiniteSetTheorems, FunctionTheorems, SequenceTheorems

-----------------------------------------------------------------------------
(* Part 1: a log alone *)

\* A step of a writer, whatever it appends.
WriterStep(w) == LogStep(w) \/ \E e : BeginAppend(w, e)

LEMMA WriterFields ==
    ASSUME NEW pc, NEW entry, NEW loaded
    PROVE  /\ Writer(pc, entry, loaded).pc = pc
           /\ Writer(pc, entry, loaded).entry = entry
           /\ Writer(pc, entry, loaded).loaded = loaded
  BY DEF Writer

\* What a writer's step makes of its own record, and of nobody else's.
LEMMA WriterSet ==
    ASSUME WritersOK, NEW w \in Writers, NEW pc, NEW entry, NEW loaded,
           writer' = [writer EXCEPT ![w] = Writer(pc, entry, loaded)]
    PROVE  /\ writer'[w].pc = pc /\ writer'[w].entry = entry /\ writer'[w].loaded = loaded
           /\ \A v \in Writers \ {w} : writer'[v] = writer[v]
           /\ InFlight' = IF pc \in {"open", "write"} THEN InFlight \cup {w}
                                                      ELSE InFlight \ {w}
           /\ Writing' = IF pc = "write" THEN Writing \cup {w} ELSE Writing \ {w}
           /\ WritersOK'
  <1>1. writer = [v \in Writers |-> Writer(writer[v].pc, writer[v].entry, writer[v].loaded)]
    BY DEF WritersOK
  <1>2. writer'[w] = Writer(pc, entry, loaded)
    BY <1>1
  <1>3. \A v \in Writers \ {w} : writer'[v] = writer[v]
    BY <1>1
  <1>4. writer'[w].pc = pc /\ writer'[w].entry = entry /\ writer'[w].loaded = loaded
    BY <1>2, WriterFields
  <1>5. \A v \in Writers :
          writer'[v] = Writer(writer'[v].pc, writer'[v].entry, writer'[v].loaded)
    BY <1>1, <1>2, <1>3, <1>4
  <1>6. DOMAIN writer' = Writers /\ writer' = [v \in Writers |-> writer'[v]]
    BY <1>1
  <1>7. WritersOK'
    BY <1>5, <1>6 DEF WritersOK
  <1>8. InFlight' = IF pc \in {"open", "write"} THEN InFlight \cup {w} ELSE InFlight \ {w}
    BY <1>3, <1>4 DEF InFlight
  <1>9. Writing' = IF pc = "write" THEN Writing \cup {w} ELSE Writing \ {w}
    BY <1>3, <1>4 DEF Writing
  <1> QED BY <1>3, <1>4, <1>7, <1>8, <1>9

\* The invariant is kept by every step of a writer.
LEMMA WriterStepKeeps ==
    ASSUME LogAssumption, LogInv, NEW w \in Writers, WriterStep(w)
    PROVE  LogInv'
  <1> USE DEF LogInv
  <1>0. WritersOK /\ locked \in BOOLEAN /\ overlapped \in BOOLEAN
    BY DEF LogTypeOK
  <1>1. CASE \E e : BeginAppend(w, e)
    <2>1. PICK e : BeginAppend(w, e)
      BY <1>1
    <2>2. /\ writer[w].pc = "idle"
          /\ writer' = [writer EXCEPT ![w] = Writer("wait", e, <<>>)]
          /\ UNCHANGED <<locked, holder, file, returned, overlapped, kills>>
          /\ appends' = appends + 1 /\ appends < MaxAppends
      BY <2>1 DEF BeginAppend
    <2>w. /\ writer'[w].pc = "wait" /\ writer'[w].entry = e /\ writer'[w].loaded = <<>>
          /\ \A v \in Writers \ {w} : writer'[v] = writer[v]
          /\ InFlight' = InFlight \ {w} /\ Writing' = Writing \ {w} /\ WritersOK'
      <3>1. /\ writer'[w].pc = "wait" /\ writer'[w].entry = e /\ writer'[w].loaded = <<>>
            /\ \A v \in Writers \ {w} : writer'[v] = writer[v]
            /\ InFlight' = IF "wait" \in {"open", "write"} THEN InFlight \cup {w}
                                                       ELSE InFlight \ {w}
            /\ Writing' = IF "wait" = "write" THEN Writing \cup {w} ELSE Writing \ {w}
            /\ WritersOK'
        BY <2>2, <1>0, WriterSet, Zenon
      <3> QED BY <3>1
    <2>n. w \notin InFlight /\ w \notin Writing
      BY <2>2 DEF InFlight, Writing
    <2>3. InFlight' = InFlight /\ Writing' = Writing
      BY <2>w, <2>n
    <2>4. \A v \in InFlight : writer'[v] = writer[v]
      BY <2>2, <2>w DEF InFlight
    <2>5. LogTypeOK'
      BY <2>2, <2>w, LogAssumption DEF LogTypeOK, LogAssumption
    <2> QED BY <2>2, <2>3, <2>4, <2>5
        DEF LockHeld, OneInFlight, LoadedIsCurrent, NothingLost, Exclusive, Parsed
  <1>2. CASE Load(w)
    <2>1. /\ writer[w].pc = "wait" /\ LockFree
          /\ writer' = [writer EXCEPT ![w] = Writer("open", writer[w].entry, Parsed)]
          /\ holder' = IF locked THEN w ELSE None
          /\ overlapped' = IF InFlight = {} THEN overlapped ELSE TRUE
          /\ UNCHANGED <<locked, file, returned, appends, kills>>
      BY <1>2 DEF Load
    <2>w. /\ writer'[w].pc = "open" /\ writer'[w].entry = writer[w].entry
             /\ writer'[w].loaded = Parsed
          /\ \A v \in Writers \ {w} : writer'[v] = writer[v]
          /\ InFlight' = InFlight \cup {w} /\ Writing' = Writing \ {w} /\ WritersOK'
      <3>1. /\ writer'[w].pc = "open" /\ writer'[w].entry = writer[w].entry
               /\ writer'[w].loaded = Parsed
            /\ \A v \in Writers \ {w} : writer'[v] = writer[v]
            /\ InFlight' = IF "open" \in {"open", "write"} THEN InFlight \cup {w}
                                                       ELSE InFlight \ {w}
            /\ Writing' = IF "open" = "write" THEN Writing \cup {w} ELSE Writing \ {w}
            /\ WritersOK'
        BY <2>1, <1>0, WriterSet, Zenon
      <3> QED BY <3>1
    <2>2. InFlight' = InFlight \cup {w} /\ Writing' = Writing
      BY <2>1, <2>w DEF InFlight, Writing
    <2>3. writer'[w].loaded = Parsed /\ \A v \in InFlight : writer'[v] = writer[v]
      BY <2>1, <2>w DEF InFlight
    <2>4. LogTypeOK'
      BY <2>1, <2>w DEF LogTypeOK
    <2>5. Exclusive' => InFlight = {} /\ Exclusive
      <3>1. CASE locked
        BY <3>1, <2>1, LogAssumption DEF LockFree, LockHeld, LogAssumption, InFlight, Exclusive
      <3>2. CASE ~ locked
        BY <3>2, <2>1 DEF Exclusive, LogTypeOK
      <3> QED BY <3>1, <3>2
    <2>6. Writing \subseteq InFlight
      BY DEF Writing, InFlight
    <2>7. Exclusive' => Parsed = returned
      BY <2>5, <2>6 DEF NothingLost, Exclusive
    <2>8. LockHeld' /\ OneInFlight'
      BY <2>1, <2>2, <2>5 DEF LockHeld, OneInFlight, Exclusive
    <2>9. LoadedIsCurrent'
      BY <2>1, <2>2, <2>3, <2>5, <2>6, <2>7 DEF LoadedIsCurrent
    <2>10. NothingLost'
      BY <2>1, <2>7 DEF NothingLost, Exclusive, Parsed
    <2> QED BY <2>4, <2>8, <2>9, <2>10
  <1>3. CASE Truncate(w)
    <2>1. /\ writer[w].pc = "open" /\ file' = Empty
          /\ writer' = [writer EXCEPT ![w] = Writer("write", writer[w].entry, writer[w].loaded)]
          /\ UNCHANGED <<locked, holder, returned, overlapped, appends, kills>>
      BY <1>3 DEF Truncate, HeldWhileWriting
    <2>w. /\ writer'[w].pc = "write" /\ writer'[w].entry = writer[w].entry
             /\ writer'[w].loaded = writer[w].loaded
          /\ \A v \in Writers \ {w} : writer'[v] = writer[v]
          /\ InFlight' = InFlight \cup {w} /\ Writing' = Writing \cup {w} /\ WritersOK'
      <3>1. /\ writer'[w].pc = "write" /\ writer'[w].entry = writer[w].entry
               /\ writer'[w].loaded = writer[w].loaded
            /\ \A v \in Writers \ {w} : writer'[v] = writer[v]
            /\ InFlight' = IF "write" \in {"open", "write"} THEN InFlight \cup {w}
                                                       ELSE InFlight \ {w}
            /\ Writing' = IF "write" = "write" THEN Writing \cup {w} ELSE Writing \ {w}
            /\ WritersOK'
        BY <2>1, <1>0, WriterSet, Zenon
      <3> QED BY <3>1
    <2>n. w \in InFlight
      BY <2>1 DEF InFlight
    <2>2. InFlight' = InFlight /\ Writing' = Writing \cup {w}
      BY <2>w, <2>n
    <2>3. \A v \in InFlight : writer'[v].loaded = writer[v].loaded
      BY <2>1, <2>w DEF InFlight
    <2>4. LogTypeOK'
      BY <2>1, <2>w DEF LogTypeOK
    <2>5. LockHeld' /\ OneInFlight' /\ LoadedIsCurrent'
      BY <2>1, <2>2, <2>3 DEF LockHeld, OneInFlight, LoadedIsCurrent, Exclusive
    <2>6. NothingLost'
      BY <2>1, <2>2 DEF NothingLost, Parsed, Empty
    <2> QED BY <2>4, <2>5, <2>6
  <1>4. CASE Write(w)
    <2>1. /\ writer[w].pc = "write" /\ file' \in Dumped(w)
          /\ writer' = [writer EXCEPT ![w] = Writer("idle", None, <<>>)]
          /\ holder' = IF holder = w THEN None ELSE holder
          /\ returned' = Append(returned, writer[w].entry)
          /\ UNCHANGED <<locked, overlapped, appends, kills>>
      BY <1>4 DEF Write, IdleWriter, Release
    <2>w. /\ writer'[w].pc = "idle" /\ writer'[w].entry = None /\ writer'[w].loaded = <<>>
          /\ \A v \in Writers \ {w} : writer'[v] = writer[v]
          /\ InFlight' = InFlight \ {w} /\ Writing' = Writing \ {w} /\ WritersOK'
      <3>1. /\ writer'[w].pc = "idle" /\ writer'[w].entry = None /\ writer'[w].loaded = <<>>
            /\ \A v \in Writers \ {w} : writer'[v] = writer[v]
            /\ InFlight' = IF "idle" \in {"open", "write"} THEN InFlight \cup {w}
                                                       ELSE InFlight \ {w}
            /\ Writing' = IF "idle" = "write" THEN Writing \cup {w} ELSE Writing \ {w}
            /\ WritersOK'
        BY <2>1, <1>0, WriterSet, Zenon
      <3> QED BY <3>1
    <2>2. InFlight' = InFlight \ {w} /\ w \in InFlight /\ w \in Writing
      BY <2>1, <2>w DEF InFlight, Writing
    <2>3. LogTypeOK'
      BY <2>1, <2>w DEF LogTypeOK
    <2>4. Exclusive => InFlight = {w} /\ Writing = {w} /\ file = Empty
      BY <2>2 DEF OneInFlight, LoadedIsCurrent, Writing, InFlight
    <2>5. Exclusive => InFlight' = {} /\ Writing' = {}
      BY <2>1, <2>2, <2>4, <2>w DEF Writing, InFlight
    <2>6. Exclusive => file' = Json(Append(returned, writer[w].entry))
      BY <2>1, <2>2, <2>4 DEF Dumped, Document, LoadedIsCurrent
    <2>7. Exclusive' = Exclusive
      BY <2>1 DEF Exclusive
    <2>8. OneInFlight' /\ LoadedIsCurrent'
      BY <2>5, <2>7 DEF OneInFlight, LoadedIsCurrent
    <2>9. LockHeld'
      BY <2>1, <2>5 DEF LockHeld, Exclusive
    <2>10. NothingLost'
      BY <2>1, <2>6 DEF NothingLost, Exclusive, Parsed, Json
    <2> QED BY <2>3, <2>8, <2>9, <2>10
  <1>5. CASE TimeOut(w)
    <2>1. /\ writer[w].pc = "wait"
          /\ writer' = [writer EXCEPT ![w] = Writer("idle", None, <<>>)]
          /\ UNCHANGED <<locked, holder, file, returned, overlapped, appends, kills>>
      BY <1>5 DEF TimeOut, IdleWriter
    <2>w. /\ writer'[w].pc = "idle" /\ writer'[w].entry = None /\ writer'[w].loaded = <<>>
          /\ \A v \in Writers \ {w} : writer'[v] = writer[v]
          /\ InFlight' = InFlight \ {w} /\ Writing' = Writing \ {w} /\ WritersOK'
      <3>1. /\ writer'[w].pc = "idle" /\ writer'[w].entry = None /\ writer'[w].loaded = <<>>
            /\ \A v \in Writers \ {w} : writer'[v] = writer[v]
            /\ InFlight' = IF "idle" \in {"open", "write"} THEN InFlight \cup {w}
                                                       ELSE InFlight \ {w}
            /\ Writing' = IF "idle" = "write" THEN Writing \cup {w} ELSE Writing \ {w}
            /\ WritersOK'
        BY <2>1, <1>0, WriterSet, Zenon
      <3> QED BY <3>1
    <2>n. w \notin InFlight /\ w \notin Writing
      BY <2>1 DEF InFlight, Writing
    <2>2. InFlight' = InFlight /\ Writing' = Writing
      BY <2>w, <2>n
    <2>3. \A v \in InFlight : writer'[v] = writer[v]
      BY <2>1, <2>w DEF InFlight
    <2>4. LogTypeOK'
      BY <2>1, <2>w DEF LogTypeOK
    <2> QED BY <2>1, <2>2, <2>3, <2>4
        DEF LockHeld, OneInFlight, LoadedIsCurrent, NothingLost, Exclusive, Parsed
  <1>6. CASE Kill(w)
    <2>1. /\ kills < MaxKills /\ kills' = kills + 1
          /\ writer' = [writer EXCEPT ![w] = Writer("idle", None, <<>>)]
          /\ holder' = IF holder = w THEN None ELSE holder
          /\ UNCHANGED <<locked, overlapped, appends>>
      BY <1>6 DEF Kill, IdleWriter, Release
    <2>w. /\ writer'[w].pc = "idle" /\ writer'[w].entry = None /\ writer'[w].loaded = <<>>
          /\ \A v \in Writers \ {w} : writer'[v] = writer[v]
          /\ InFlight' = InFlight \ {w} /\ Writing' = Writing \ {w} /\ WritersOK'
      <3>1. /\ writer'[w].pc = "idle" /\ writer'[w].entry = None /\ writer'[w].loaded = <<>>
            /\ \A v \in Writers \ {w} : writer'[v] = writer[v]
            /\ InFlight' = IF "idle" \in {"open", "write"} THEN InFlight \cup {w}
                                                       ELSE InFlight \ {w}
            /\ Writing' = IF "idle" = "write" THEN Writing \cup {w} ELSE Writing \ {w}
            /\ WritersOK'
        BY <2>1, <1>0, WriterSet, Zenon
      <3> QED BY <3>1
    <2>2. InFlight' = InFlight \ {w} /\ Writing' = Writing \ {w}
      BY <2>w
    <2>3. \A v \in InFlight' : writer'[v] = writer[v] /\ v \in InFlight /\ v # w
      BY <2>1, <2>2, <2>w DEF InFlight
    <2>4. LogTypeOK'
      BY <2>1, <2>w, LogAssumption DEF LogTypeOK, LogAssumption
    <2>5. LockHeld' /\ OneInFlight'
      BY <2>1, <2>2, <2>3 DEF LockHeld, OneInFlight, Exclusive
    <2>6. CASE writer[w].pc = "write"
      <3>1. file' \in {file, Garbled} /\ returned' = <<>> /\ w \in Writing /\ w \in InFlight
        BY <2>6, <1>6 DEF Kill, Writing, InFlight
      <3>2. Exclusive => file = Empty /\ InFlight' = {}
        BY <3>1, <2>2 DEF LoadedIsCurrent, OneInFlight
      <3>3. Exclusive => Writing' = {}
        BY <3>2 DEF Writing, InFlight
      <3>4. LoadedIsCurrent'
        BY <2>1, <3>2, <3>3 DEF LoadedIsCurrent, Exclusive
      <3>5. NothingLost'
        BY <2>1, <3>1, <3>2 DEF NothingLost, Exclusive, Parsed, Empty, Garbled
      <3> QED BY <2>4, <2>5, <3>4, <3>5
    <2>7. CASE writer[w].pc # "write"
      <3>1. UNCHANGED <<file, returned>> /\ Writing' = Writing
        BY <2>7, <2>2, <1>6 DEF Kill, Writing
      <3> QED BY <3>1, <2>1, <2>2, <2>3, <2>4, <2>5
          DEF LoadedIsCurrent, NothingLost, Exclusive, Parsed
    <2> QED BY <2>6, <2>7
  <1> QED BY <1>1, <1>2, <1>3, <1>4, <1>5, <1>6 DEF WriterStep, LogStep

LEMMA LogStutters == ASSUME LogInv, UNCHANGED logVars PROVE LogInv'
  BY DEF LogInv, logVars, LogTypeOK, WritersOK, LockHeld, OneInFlight, LoadedIsCurrent, NothingLost,
         Exclusive, Parsed, InFlight, Writing

LEMMA LogStarts == ASSUME LogAssumption, LogInit PROVE LogInv
  <1>1. \A w \in Writers : writer[w] = Writer("idle", None, <<>>)
    BY DEF LogInit, IdleWriter
  <1>2. \A w \in Writers : /\ writer[w].pc = "idle" /\ writer[w].entry = None
                           /\ writer[w].loaded = <<>>
    <2> TAKE w \in Writers
    <2>1. writer[w] = Writer("idle", None, <<>>)
      BY <1>1
    <2>2. writer[w].pc = "idle"
      BY <2>1, WriterFields
    <2>3. writer[w].entry = None
      BY <2>1, WriterFields
    <2>4. writer[w].loaded = <<>>
      BY <2>1, WriterFields
    <2> QED BY <2>2, <2>3, <2>4
  <1>3. WritersOK
    BY <1>1, <1>2 DEF LogInit, IdleWriter, WritersOK
  <1>4. InFlight = {} /\ Writing = {}
    BY <1>2 DEF InFlight, Writing
  <1>5. LogTypeOK
    <2>1. appends \in 0..MaxAppends /\ kills \in 0..MaxKills
      BY DEF LogAssumption, LogInit
    <2>2. locked \in BOOLEAN /\ overlapped \in BOOLEAN /\ holder \in Writers \cup {None}
      BY DEF LogInit
    <2> QED BY <2>1, <2>2, <1>3 DEF LogTypeOK
  <1>6. LockHeld /\ OneInFlight /\ LoadedIsCurrent
    BY <1>4 DEF LockHeld, OneInFlight, LoadedIsCurrent
  <1>7. NothingLost
    BY DEF LogInit, NothingLost, Parsed, Empty
  <1> QED BY <1>5, <1>6, <1>7 DEF LogInv

LEMMA LogNextIsWriterStep ==
    ASSUME LogNext PROVE \E w \in Writers : WriterStep(w)
  BY DEF LogNext, WriterStep

\* Under the lock, the list that the log stands for holds what returned.
LEMMA CommittedIsReturned == LogInv /\ locked => Committed = returned
  <1> SUFFICES ASSUME LogInv, locked PROVE Committed = returned
    OBVIOUS
  <1> USE DEF LogInv, Exclusive
  <1>1. CASE Writing = {}
    BY <1>1 DEF Committed, NothingLost
  <1>2. CASE Writing # {}
    <2>1. PICK w \in Writers : w \in Writing /\ w \in InFlight
      BY <1>2 DEF Writing, InFlight
    <2>2. holder = w /\ w # None /\ writer[w].loaded = returned
      BY <2>1, LogAssumption DEF LockHeld, LoadedIsCurrent, LogAssumption
    <2> QED BY <2>1, <2>2 DEF Committed
  <1> QED BY <1>1, <1>2

\* What a step of a writer does to what returned.
LEMMA WriterStepReturns ==
    ASSUME LogAssumption, LogInv, NEW w \in Writers, WriterStep(w)
    PROVE  /\ locked' = locked
           /\ \/ returned' = returned
              \/ Write(w) /\ w \in Writing /\ w \notin Writing'
                 /\ returned' = Append(returned, writer[w].entry)
              \/ kills' > kills /\ returned' = <<>>
  <1>1. CASE \E e : BeginAppend(w, e)
    BY <1>1 DEF BeginAppend
  <1>2. CASE Load(w) \/ Truncate(w) \/ TimeOut(w)
    BY <1>2 DEF Load, Truncate, TimeOut
  <1>3. CASE Write(w)
    <2>1. writer' = [writer EXCEPT ![w] = Writer("idle", None, <<>>)] /\ WritersOK
      BY <1>3 DEF Write, IdleWriter, LogInv, LogTypeOK
    <2>2. writer'[w].pc = "idle"
      BY <2>1, WriterSet
    <2> QED BY <1>3, <2>2 DEF Write, Writing
  <1>4. CASE Kill(w)
    BY <1>4 DEF Kill, LogInv, LogTypeOK
  <1> QED BY <1>1, <1>2, <1>3, <1>4 DEF WriterStep, LogStep

LEMMA WriterStepAppends ==
    ASSUME LogAssumption, LogInv, NEW w \in Writers, WriterStep(w)
    PROVE  LockedAppend
  <1> SUFFICES ASSUME locked PROVE LockedAppend
    BY DEF LockedAppend
  <1>1. Committed = returned
    BY CommittedIsReturned
  <1>2. LogInv' /\ locked'
    BY WriterStepKeeps, WriterStepReturns
  <1>3. (Committed = returned)'
    BY <1>2, CommittedIsReturned, PTL
  <1> QED BY <1>1, <1>3, WriterStepReturns DEF LockedAppend

\* The invariant of one log.
THEOREM LogInvariance == LogSpec => []LogInv
  <1>1. LogInit => LogInv
    BY LogAssumption, LogStarts
  <1>2. LogInv /\ [LogNext]_logVars => LogInv'
    BY LogAssumption, LogNextIsWriterStep, WriterStepKeeps, LogStutters
  <1> QED BY <1>1, <1>2, PTL DEF LogSpec

\* No append that returned is lost, under the lock or without an overlap.
THEOREM AppendsAreKept == LogSpec => []NothingLost
  <1>1. LogInv => NothingLost
    BY DEF LogInv
  <1> QED BY <1>1, LogInvariance, PTL

\* Under the lock an append is one step of the list.
THEOREM AppendsAreAtomic == LogSpec => LockedAppendIsAtomic
  <1>1. LogInv /\ [LogNext]_logVars => [LockedAppend]_logVars
    BY LogAssumption, LogNextIsWriterStep, WriterStepAppends
  <1> QED BY <1>1, LogInvariance, PTL DEF LogSpec, LockedAppendIsAtomic

-----------------------------------------------------------------------------
(* Part 2: the programs that append to it *)

LEMMA RunFields ==
    ASSUME NEW pc, NEW batch, NEW todo, NEW results
    PROVE  /\ Run(pc, batch, todo, results).pc = pc
           /\ Run(pc, batch, todo, results).batch = batch
           /\ Run(pc, batch, todo, results).todo = todo
           /\ Run(pc, batch, todo, results).results = results
  BY DEF Run

RunsAreRuns ==
    run = [r \in Writers |-> Run(run[r].pc, run[r].batch, run[r].todo, run[r].results)]

\* What a step makes of its run's record, and of nobody else's.
LEMMA RunSet ==
    ASSUME RunsAreRuns, NEW r \in Writers,
           NEW pc, NEW batch, NEW todo, NEW results,
           run' = [run EXCEPT ![r] = Run(pc, batch, todo, results)]
    PROVE  /\ run'[r].pc = pc /\ run'[r].batch = batch /\ run'[r].todo = todo
           /\ run'[r].results = results
           /\ \A q \in Writers \ {r} : run'[q] = run[q]
           /\ RunsAreRuns'
  <1>1. run = [q \in Writers |-> Run(run[q].pc, run[q].batch, run[q].todo, run[q].results)]
    BY DEF RunsAreRuns
  <1>2. run'[r] = Run(pc, batch, todo, results)
    BY <1>1
  <1>3. \A q \in Writers \ {r} : run'[q] = run[q]
    BY <1>1
  <1>4. /\ run'[r].pc = pc /\ run'[r].batch = batch /\ run'[r].todo = todo
        /\ run'[r].results = results
    BY <1>2, RunFields
  <1>5. \A q \in Writers :
          run'[q] = Run(run'[q].pc, run'[q].batch, run'[q].todo, run'[q].results)
    BY <1>1, <1>2, <1>3, <1>4
  <1>6. DOMAIN run' = Writers /\ run' = [q \in Writers |-> run'[q]]
    BY <1>1
  <1>7. RunsAreRuns'
    BY <1>5, <1>6 DEF RunsAreRuns
  <1> QED BY <1>3, <1>4, <1>7

-----------------------------------------------------------------------------
(* Steps of the pipelines as steps of their log *)

LEMMA StepOfTheLog ==
    ASSUME NEW r \in Writers, RunNext(r)
    PROVE  WriterStep(r) \/ UNCHANGED logVars
  <1>1. CASE \E x \in run[r].todo : ExecuteAction(r, x)
    <2>1. \E e : BeginAppend(r, e)
      BY <1>1 DEF ExecuteAction
    <2> QED BY <2>1 DEF WriterStep
  <1>2. CASE \E e \in Entries : LogEvent(r, e)
    BY <1>2 DEF LogEvent, WriterStep
  <1>3. CASE \/ KeepAppending(r) \/ AppendReturns(r) \/ AppendRaises(r)
             \/ Killed(r) \/ EventLogged(r)
    BY <1>3 DEF KeepAppending, AppendReturns, AppendRaises, Killed, EventLogged,
                WriterStep, LogStep
  <1>4. CASE \E batch \in SUBSET Records[kind] : Start(r, batch)
    BY <1>4 DEF Start
  <1>5. CASE Summarize(r) \/ SummarizeRaises(r)
    BY <1>5 DEF Summarize, SummarizeRaises
  <1> QED BY <1>1, <1>2, <1>3, <1>4, <1>5 DEF RunNext

\* The invariant of the log is one of the pipelines.
THEOREM ChasersLogInvariance == Spec => []LogInv
  <1>1. Init => LogInv
    BY LogAssumption, LogStarts DEF Init
  <1>2. LogInv /\ [Next]_vars => LogInv'
    <2>1. ASSUME LogInv, Next PROVE LogInv'
      <3>1. PICK r \in Writers : RunNext(r)
        BY <2>1 DEF Next
      <3> QED BY <2>1, <3>1, LogAssumption, StepOfTheLog, WriterStepKeeps, LogStutters
    <2>2. ASSUME LogInv, UNCHANGED vars PROVE LogInv'
      BY <2>2, LogStutters DEF vars
    <2> QED BY <2>1, <2>2
  <1> QED BY <1>1, <1>2, PTL DEF Spec

\* No outcome whose append returned is lost, by the pipelines or, without an
\* overlap, by the webhook workers.
THEOREM ChasersLoseNothing == Spec => []NothingLost
  <1>1. LogInv => NothingLost
    BY DEF LogInv
  <1> QED BY <1>1, ChasersLogInvariance, PTL

\* An outcome is appended in one step.
THEOREM ChasersAppendAtomically == Spec => LockedAppendIsAtomic
  <1>1. LogInv /\ [Next]_vars => [LockedAppend]_logVars
    <2>1. ASSUME LogInv, Next PROVE [LockedAppend]_logVars
      <3>1. PICK r \in Writers : RunNext(r)
        BY <2>1 DEF Next
      <3> QED BY <2>1, <3>1, LogAssumption, StepOfTheLog, WriterStepAppends
    <2>2. ASSUME UNCHANGED vars PROVE UNCHANGED logVars
      BY <2>2 DEF vars
    <2> QED BY <2>1, <2>2
  <1> QED BY <1>1, ChasersLogInvariance, PTL DEF Spec, LockedAppendIsAtomic

-----------------------------------------------------------------------------
(* The list of what returned *)

Elements(s) == {s[i] : i \in 1..Len(s)}

LEMMA AppendElements ==
    ASSUME NEW s, s \in Seq(Elements(s)), NEW e, NEW t, t = Append(s, e)
    PROVE  t \in Seq(Elements(t)) /\ Elements(t) = Elements(s) \cup {e}
  <1> DEFINE S == Elements(s) \cup {e}
  <1>1. s \in Seq(S)
    BY DEF Elements
  <1>2. /\ t \in Seq(S) /\ Len(t) = Len(s) + 1 /\ t[Len(s) + 1] = e /\ Len(s) \in Nat
        /\ \A i \in 1..Len(s) : t[i] = s[i]
    BY <1>1, AppendProperties
  <1>3. Elements(t) = S
    <2>1. Elements(t) \subseteq S
      BY <1>2 DEF Elements
    <2>2. \A i \in 1..Len(s) : s[i] \in Elements(t)
      BY <1>2 DEF Elements
    <2>3. e \in Elements(t)
      BY <1>2 DEF Elements
    <2> QED BY <2>1, <2>2, <2>3 DEF Elements
  <1> QED BY <1>2, <1>3

LEMMA KillsCount ==
    ASSUME LogInv, NEW w \in Writers, WriterStep(w) \/ UNCHANGED logVars
    PROVE  kills \in Nat /\ kills' \in Nat /\ kills' >= kills
  <1>1. kills \in Nat
    BY LogAssumption DEF LogInv, LogTypeOK, LogAssumption
  <1>2. CASE UNCHANGED logVars
    BY <1>1, <1>2 DEF logVars
  <1>3. CASE WriterStep(w)
    <2>1. kills' = kills \/ kills' = kills + 1
      BY <1>3 DEF WriterStep, LogStep, BeginAppend, Load, Truncate, Write, TimeOut, Kill
    <2> QED BY <1>1, <2>1
  <1> QED BY <1>2, <1>3

\* What returned is kept, unless a process is killed.
LEMMA ReturnedGrows ==
    ASSUME LogInv, returned \in Seq(Returned), NEW w \in Writers,
           WriterStep(w) \/ UNCHANGED logVars
    PROVE  /\ returned' \in Seq(Returned')
           /\ kills' = 0 => kills = 0 /\ Returned \subseteq Returned'
           /\ Write(w) => writer[w].entry \in Returned'
  <1>1. kills \in Nat /\ kills' \in Nat /\ kills' >= kills
    BY KillsCount
  <1>2. returned \in Seq(Elements(returned)) /\ Returned = Elements(returned)
        /\ Returned' = Elements(returned')
    BY DEF Returned, Elements
  <1>3. CASE returned' = Append(returned, writer[w].entry)
    <2>1. /\ returned' \in Seq(Elements(returned'))
          /\ Elements(returned') = Elements(returned) \cup {writer[w].entry}
      BY <1>2, <1>3, AppendElements
    <2> QED BY <1>1, <1>2, <2>1
  <1>4. CASE returned' = returned /\ ~ Write(w)
    <2>1. returned' \in Seq(Returned') /\ Returned' = Returned
      BY <1>4 DEF Returned
    <2> QED BY <1>1, <1>4, <2>1
  <1>5. CASE kills' > kills /\ returned' = <<>> /\ ~ Write(w)
    <2>1. returned' \in Seq(Returned')
      BY <1>5
    <2> QED BY <1>1, <1>5, <2>1
  <1>6. Write(w) => returned' = Append(returned, writer[w].entry)
    BY DEF Write
  <1>7. \/ returned' = returned
        \/ returned' = Append(returned, writer[w].entry)
        \/ kills' > kills /\ returned' = <<>>
    <2>1. CASE UNCHANGED logVars
      BY <2>1 DEF logVars
    <2>2. CASE WriterStep(w)
      BY <2>2, LogAssumption, WriterStepReturns
    <2> QED BY <2>1, <2>2
  <1> QED BY <1>3, <1>4, <1>5, <1>6, <1>7

\* A step of one writer leaves the others alone.
LEMMA WriterStepOthers ==
    ASSUME LogInv, NEW w \in Writers, WriterStep(w) \/ UNCHANGED logVars
    PROVE  locked' = locked /\ \A v \in Writers \ {w} : writer'[v] = writer[v]
  <1>1. writer = [v \in Writers |-> Writer(writer[v].pc, writer[v].entry, writer[v].loaded)]
    BY DEF LogInv, LogTypeOK, WritersOK
  <1>2. CASE UNCHANGED logVars
    BY <1>2 DEF logVars
  <1>3. CASE WriterStep(w)
    <2>1. /\ locked' = locked
          /\ \/ \E e : writer' = [writer EXCEPT ![w] = Writer("wait", e, <<>>)]
             \/ writer' = [writer EXCEPT ![w] = Writer("open", writer[w].entry, Parsed)]
             \/ writer' = [writer EXCEPT ![w] = Writer("write", writer[w].entry,
                                                       writer[w].loaded)]
             \/ writer' = [writer EXCEPT ![w] = IdleWriter]
      BY <1>3 DEF WriterStep, LogStep, BeginAppend, Load, Truncate, Write, TimeOut, Kill
    <2> QED BY <1>1, <2>1
  <1> QED BY <1>2, <1>3

-----------------------------------------------------------------------------
(* One outcome for each record *)

\* The runs that a step leaves alone.
LEMMA DoneOnceKept ==
    ASSUME NEW r \in Writers, DoneOnce(r), run'[r] = run[r], locked' = locked,
           run[r].pc = "append" => /\ writer'[r].entry = writer[r].entry
                                   /\ writer'[r].pc # "idle",
           kills' = 0 => kills = 0 /\ Returned \subseteq Returned'
    PROVE  DoneOnce(r)'
  <1>1. Done(r)' = Done(r)
    BY DEF Done
  <1> QED BY <1>1 DEF DoneOnce

LEMMA ChasersStart == ASSUME Init PROVE ChasersInv
  <1>1. LogInv
    BY LogAssumption, LogStarts DEF Init
  <1>2. run = [r \in Writers |-> Run("idle", {}, {}, {})]
    BY DEF Init, IdleRun
  <1>3. \A r \in Writers : run[r] = Run("idle", {}, {}, {})
    BY <1>2
  <1>4. \A r \in Writers : /\ run[r].pc = "idle" /\ run[r].batch = {} /\ run[r].todo = {}
                           /\ run[r].results = {}
    <2> TAKE r \in Writers
    <2>1. run[r] = Run("idle", {}, {}, {})
      BY <1>3
    <2>2. run[r].pc = "idle"
      BY <2>1, RunFields
    <2>3. run[r].batch = {}
      BY <2>1, RunFields
    <2>4. run[r].todo = {}
      BY <2>1, RunFields
    <2>5. run[r].results = {}
      BY <2>1, RunFields
    <2> QED BY <2>2, <2>3, <2>4, <2>5
  <1>5. RunsTypeOK
    <2>1. run = [r \in Writers |-> Run(run[r].pc, run[r].batch, run[r].todo, run[r].results)]
      BY <1>2, <1>4
    <2>2. locked = (kind # "webhook_events")
      BY DEF Init
    <2>3. returned \in Seq(Returned)
      BY DEF Init, LogInit
    <2> QED BY <2>1, <2>2, <2>3 DEF RunsTypeOK
  <1>6. ASSUME NEW r \in Writers PROVE DoneOnce(r)
    <2>1. Done(r) = {}
      BY <1>4 DEF Done
    <2>2. IsFiniteSet({})
      BY FS_EmptySet
    <2> QED BY <1>4, <2>1, <2>2 DEF DoneOnce
  <1> QED BY <1>1, <1>5, <1>6 DEF ChasersInv

\* A run that is over, or died.
LEMMA IdleOnce ==
    ASSUME RunsAreRuns, NEW r \in Writers, run' = [run EXCEPT ![r] = IdleRun]
    PROVE  DoneOnce(r)'
  <1>1. run' = [run EXCEPT ![r] = Run("idle", {}, {}, {})]
    BY DEF IdleRun
  <1>2. /\ run'[r].pc = "idle" /\ run'[r].batch = {} /\ run'[r].todo = {}
        /\ run'[r].results = {}
    <2>1. run'[r] = Run("idle", {}, {}, {})
      BY <1>1 DEF RunsAreRuns
    <2> QED BY <2>1 DEF Run
  <1>3. Done(r)' = {}
    BY <1>2, SMT DEF Done
  <1>4. IsFiniteSet({})
    BY FS_EmptySet
  <1> QED BY <1>2, <1>3, <1>4 DEF DoneOnce

\* The runs after a step.
LEMMA RunsAfter ==
    ASSUME RunsAreRuns, NEW r \in Writers, RunNext(r)
    PROVE  /\ RunsAreRuns' /\ kind' = kind
           /\ \A q \in Writers \ {r} : run'[q] = run[q]
  <1>1. \/ run' = run
        \/ \E pc, batch, todo, results :
             run' = [run EXCEPT ![r] = Run(pc, batch, todo, results)]
    BY DEF RunNext, Start, ExecuteAction, KeepAppending, AppendReturns, AppendRaises,
           Summarize, SummarizeRaises, Killed, LogEvent, EventLogged, IdleRun, chaserVars
  <1>2. kind' = kind
    BY DEF RunNext, Start, ExecuteAction, KeepAppending, AppendReturns, AppendRaises,
           Summarize, SummarizeRaises, Killed, LogEvent, EventLogged, chaserVars
  <1>3. CASE run' = run
    BY <1>2, <1>3 DEF RunsAreRuns
  <1>4. CASE \E pc, batch, todo, results :
               run' = [run EXCEPT ![r] = Run(pc, batch, todo, results)]
    <2>1. PICK pc, batch, todo, results :
            run' = [run EXCEPT ![r] = Run(pc, batch, todo, results)]
      BY <1>4
    <2> QED BY <1>2, <2>1, RunSet, Zenon
  <1> QED BY <1>1, <1>3, <1>4

\* The run that a step is of.
LEMMA StepDoesOnce ==
    ASSUME LogInv, RunsTypeOK, RunsAreRuns, NEW r \in Writers, DoneOnce(r), RunNext(r),
           locked' = locked,
           kills' = 0 => kills = 0 /\ Returned \subseteq Returned',
           Write(r) => writer[r].entry \in Returned'
    PROVE  DoneOnce(r)'
  <1>w. WritersOK
    BY DEF LogInv, LogTypeOK
  <1>1. ASSUME kind \in Pipelines, NEW batch \in SUBSET Records[kind], Start(r, batch)
        PROVE  DoneOnce(r)'
    <2>1. /\ run'[r].pc = "loop" /\ run'[r].batch = batch /\ run'[r].todo = batch
          /\ run'[r].results = {}
      <3>1. run'[r] = Run("loop", batch, batch, {})
        BY <1>1 DEF Start, RunsAreRuns
      <3> QED BY <3>1 DEF Run
    <2>2. IsFiniteSet(batch)
      BY <1>1, ChasersAssumption, FS_Subset DEF ChasersAssumption, Pipelines
    <2>3. locked
      BY <1>1 DEF RunsTypeOK, Pipelines
    <2>4. Done(r)' = {}
      BY <2>1 DEF Done
    <2> QED BY <2>1, <2>2, <2>3, <2>4 DEF DoneOnce
  <1>2. ASSUME NEW x \in run[r].todo, ExecuteAction(r, x) PROVE DoneOnce(r)'
    <2>1. PICK o : BeginAppend(r, o) /\ o.record = x
      BY <1>2 DEF ExecuteAction, Outcome
    <2>2. /\ writer' = [writer EXCEPT ![r] = Writer("wait", o, <<>>)]
          /\ run[r].pc = "loop"
          /\ run' = [run EXCEPT ![r] = Run("append", run[r].batch, run[r].todo \ {x},
                                           run[r].results)]
      BY <1>2, <2>1 DEF BeginAppend, ExecuteAction
    <2>3. writer'[r] = Writer("wait", o, <<>>)
      BY <1>w, <2>2 DEF WritersOK
    <2>4. writer'[r].entry = o /\ writer'[r].pc = "wait"
      BY <2>3 DEF Writer
    <2>5. /\ run'[r].pc = "append" /\ run'[r].batch = run[r].batch
          /\ run'[r].todo = run[r].todo \ {x} /\ run'[r].results = run[r].results
      <3>1. run'[r] = Run("append", run[r].batch, run[r].todo \ {x}, run[r].results)
        BY <2>2 DEF RunsAreRuns
      <3> QED BY <3>1 DEF Run
    <2>6. Done(r) = run[r].results /\ Done(r)' = run[r].results \cup {o}
      BY <2>2, <2>4, <2>5 DEF Done
    <2>7. \A e \in Done(r) : e.record # x
      BY DEF DoneOnce
    <2>8. {e.record : e \in Done(r)'} = {e.record : e \in Done(r)} \cup {x}
      BY <2>1, <2>6
    <2>9. {e.record : e \in Done(r)'} = run'[r].batch \ run'[r].todo
      BY <2>5, <2>8 DEF DoneOnce
    <2>10. \A e, f \in Done(r)' : e.record = f.record => e = f
      BY <2>1, <2>6, <2>7 DEF DoneOnce
    <2> QED BY <2>2, <2>4, <2>5, <2>9, <2>10 DEF DoneOnce
  <1>3. CASE KeepAppending(r)
    <2>1. run' = run
      BY <1>3 DEF KeepAppending, chaserVars
    <2>2. \/ writer' = [writer EXCEPT ![r] = Writer("open", writer[r].entry, Parsed)]
          \/ writer' = [writer EXCEPT ![r] = Writer("write", writer[r].entry,
                                                    writer[r].loaded)]
      BY <1>3 DEF KeepAppending, Load, Truncate
    <2>3. writer'[r].entry = writer[r].entry /\ writer'[r].pc \in {"open", "write"}
      <3>1. CASE writer' = [writer EXCEPT ![r] = Writer("open", writer[r].entry, Parsed)]
        BY <1>w, <3>1, WriterSet
      <3>2. CASE writer' = [writer EXCEPT ![r] = Writer("write", writer[r].entry,
                                                        writer[r].loaded)]
        BY ZenonT(60), <1>w, <3>2, WriterSet
      <3> QED BY <2>2, <3>1, <3>2
    <2> QED BY <2>1, <2>3, DoneOnceKept
  <1>4. CASE AppendReturns(r)
    <2>1. /\ run[r].pc = "append" /\ Write(r)
          /\ run' = [run EXCEPT ![r] = Run("loop", run[r].batch, run[r].todo,
                                           run[r].results \cup {writer[r].entry})]
      BY <1>4 DEF AppendReturns
    <2>2. /\ run'[r].pc = "loop" /\ run'[r].batch = run[r].batch
          /\ run'[r].todo = run[r].todo
          /\ run'[r].results = run[r].results \cup {writer[r].entry}
      <3>1. run'[r] = Run("loop", run[r].batch, run[r].todo,
                          run[r].results \cup {writer[r].entry})
        BY <2>1 DEF RunsAreRuns
      <3> QED BY <3>1 DEF Run
    <2>3. Done(r)' = Done(r)
      BY <2>1, <2>2 DEF Done
    <2>4. kills' = 0 => run'[r].results \subseteq Returned'
      BY <2>1, <2>2 DEF DoneOnce
    <2>5. {e.record : e \in Done(r)'} = run'[r].batch \ run'[r].todo
      BY <2>2, <2>3 DEF DoneOnce
    <2>6. \A e, f \in Done(r)' : e.record = f.record => e = f
      BY <2>3 DEF DoneOnce
    <2>7. /\ IsFiniteSet(run'[r].batch) /\ run'[r].todo \subseteq run'[r].batch
          /\ locked' /\ run'[r].pc # "append"
      BY <2>1, <2>2 DEF DoneOnce
    <2> QED BY <2>4, <2>5, <2>6, <2>7 DEF DoneOnce
  <1>5. CASE AppendRaises(r) \/ Summarize(r) \/ SummarizeRaises(r) \/ Killed(r)
    <2>1. run' = [run EXCEPT ![r] = IdleRun]
      BY <1>5 DEF AppendRaises, Summarize, SummarizeRaises, Killed
    <2> QED BY <2>1, IdleOnce
  <1>6. CASE EventLogged(r) \/ \E e \in Entries : LogEvent(r, e)
    <2>1. run[r].pc # "append" /\ run' = run
      BY <1>6 DEF EventLogged, LogEvent, BeginAppend, DoneOnce, chaserVars
    <2> QED BY <2>1, DoneOnceKept
  <1> QED BY <1>1, <1>2, <1>3, <1>4, <1>5, <1>6 DEF RunNext

LEMMA ChasersStep == ASSUME ChasersInv, Next PROVE ChasersInv'
  <1>1. PICK r \in Writers : RunNext(r)
    BY DEF Next
  <1>2. LogInv /\ RunsTypeOK /\ RunsAreRuns /\ returned \in Seq(Returned)
    BY DEF ChasersInv, RunsTypeOK, RunsAreRuns
  <1>3. WriterStep(r) \/ UNCHANGED logVars
    BY <1>1, StepOfTheLog
  <1>4. LogInv'
    BY <1>2, <1>3, LogAssumption, WriterStepKeeps, LogStutters
  <1>5. /\ returned' \in Seq(Returned')
        /\ kills' = 0 => kills = 0 /\ Returned \subseteq Returned'
        /\ Write(r) => writer[r].entry \in Returned'
    BY <1>2, <1>3, ReturnedGrows
  <1>6. locked' = locked /\ \A q \in Writers \ {r} : writer'[q] = writer[q]
    BY <1>2, <1>3, WriterStepOthers
  <1>7. RunsAreRuns' /\ kind' = kind /\ \A q \in Writers \ {r} : run'[q] = run[q]
    BY <1>1, <1>2, RunsAfter
  <1>8. RunsTypeOK'
    BY <1>2, <1>5, <1>6, <1>7 DEF RunsTypeOK, RunsAreRuns
  <1>9. ASSUME NEW q \in Writers PROVE DoneOnce(q)'
    <2>0. DoneOnce(q)
      BY DEF ChasersInv
    <2>1. CASE q = r
      BY <2>0, <2>1, <1>1, <1>2, <1>5, <1>6, StepDoesOnce
    <2>2. CASE q # r
      <3>1. run'[q] = run[q] /\ writer'[q] = writer[q]
        BY <2>2, <1>6, <1>7
      <3>2. run[q].pc = "append" => writer[q].pc # "idle"
        BY <2>0 DEF DoneOnce
      <3> QED BY <2>0, <3>1, <3>2, <1>5, <1>6, DoneOnceKept
    <2> QED BY <2>1, <2>2
  <1> QED BY <1>4, <1>8, <1>9 DEF ChasersInv

LEMMA ChasersStutter == ASSUME ChasersInv, UNCHANGED vars PROVE ChasersInv'
  <1>1. LogInv'
    BY LogStutters DEF ChasersInv, vars
  <1>2. RunsTypeOK'
    BY DEF ChasersInv, RunsTypeOK, vars, chaserVars, logVars, Returned
  <1>3. \A r \in Writers : DoneOnce(r)'
    BY DEF ChasersInv, DoneOnce, Done, vars, chaserVars, logVars, Returned
  <1> QED BY <1>1, <1>2, <1>3 DEF ChasersInv

\* A run has one outcome for each record that it has taken.
THEOREM ChasersInvariance == Spec => []ChasersInv
  <1>1. Init => ChasersInv
    BY ChasersStart
  <1>2. ChasersInv /\ [Next]_vars => ChasersInv'
    BY ChasersStep, ChasersStutter
  <1> QED BY <1>1, <1>2, PTL DEF Spec

LEMMA OneOutcomePerRecord ==
    ASSUME NEW B, IsFiniteSet(B), NEW R, {e.record : e \in R} = B,
           \A e, f \in R : e.record = f.record => e = f
    PROVE  Cardinality(R) = Cardinality(B)
  <1> DEFINE g == [x \in B |-> CHOOSE e \in R : e.record = x]
  <1>1. \A x \in B : g[x] \in R /\ g[x].record = x
    OBVIOUS
  <1>2. g \in [B -> R]
    BY <1>1
  <1>3. \A x, y \in B : g[x] = g[y] => x = y
    BY <1>1
  <1>4. \A e \in R : \E x \in B : g[x] = e
    <2> TAKE e \in R
    <2>1. e.record \in B
      OBVIOUS
    <2> QED BY <1>1, <2>1
  <1> HIDE DEF g
  <1>5. g \in Bijection(B, R)
    BY <1>2, <1>3, <1>4, Fun_IsBij
  <1>6. ExistsBijection(B, R)
    BY <1>5 DEF ExistsBijection
  <1> QED BY <1>6, FS_Bijection

\* A summary that is written tells of each record of its batch once, and what it
\* counts is in the log.
THEOREM SummariesTell == Spec => SummaryTold
  <1>1. ChasersInv /\ [Next]_vars
          => [summary' \notin {summary, TornSummary} => \E r \in Writers : ToldOf(r)]_vars
    <2> SUFFICES ASSUME ChasersInv, Next, summary' \notin {summary, TornSummary}
                 PROVE  \E r \in Writers : ToldOf(r)
      OBVIOUS
    <2>1. PICK r \in Writers : RunNext(r)
      BY DEF Next
    <2>2. Summarize(r)
      BY <2>1 DEF RunNext, Start, ExecuteAction, KeepAppending, AppendReturns, AppendRaises,
                  SummarizeRaises, Killed, LogEvent, EventLogged, chaserVars
    <2>3. /\ run[r].pc = "loop" /\ run[r].todo = {}
          /\ summary' = Summary(kind, run[r].results)
      BY <2>2 DEF Summarize
    <2>4. DoneOnce(r) /\ LogInv
      BY DEF ChasersInv
    <2>5. Done(r) = run[r].results
      BY <2>3 DEF Done
    <2>6. summary'.total = run[r].results
      BY <2>3 DEF Summary
    <2>7. /\ IsFiniteSet(run[r].batch)
          /\ {e.record : e \in run[r].results} = run[r].batch
          /\ \A e, f \in run[r].results : e.record = f.record => e = f
      BY <2>3, <2>4, <2>5 DEF DoneOnce
    <2>8. Cardinality(run[r].results) = Cardinality(run[r].batch)
      BY <2>7, OneOutcomePerRecord
    <2>9. kills = 0 => run[r].results \subseteq LoggedEntries
      <3>1. locked /\ (kills = 0 => run[r].results \subseteq Returned)
        BY <2>3, <2>4 DEF DoneOnce
      <3>2. Committed = returned
        BY <2>4, <3>1, CommittedIsReturned
      <3>3. DOMAIN returned = 1..Len(returned)
        BY DEF ChasersInv, RunsTypeOK
      <3> QED BY <3>1, <3>2, <3>3 DEF LoggedEntries, Returned
    <2> QED BY <2>6, <2>7, <2>8, <2>9 DEF ToldOf
  <1> QED BY <1>1, ChasersInvariance, PTL DEF Spec, SummaryTold

-----------------------------------------------------------------------------
(* The ladder *)

\* Whoever has waited at least as long and owes at least as much is not chased
\* more gently: the gate takes one rung off, and only below an amount.
THEOREM LadderNeverDescends ==
    ASSUME NEW k \in Pipelines, NEW x, NEW y,
           x.wait \in Int, y.wait \in Int, x.amount \in Int, y.amount \in Int,
           x.wait <= y.wait, x.amount <= y.amount
    PROVE  Rung(k, x) \in 1..3 /\ Rung(k, y) \in 1..3 /\ Rung(k, x) <= Rung(k, y)
  <1>1. /\ Bucket(k, x) \in 1..3 /\ Bucket(k, y) \in 1..3
        /\ Bucket(k, x) <= Bucket(k, y)
    BY DEF Bucket, classify_invoice, classify_checkout
  <1>2. Policy(k).costly \in {2, 3} /\ Policy(k).min \in Nat
    BY DEF Policy, ReceivablesPolicy, CheckoutPolicy
  <1> QED BY <1>1, <1>2 DEF Rung, TooSmall

\* e is what decide_action makes of its record.
Decided(k, e) ==
    e.record \in Records[k] /\ e.action_type = Ladder(k)[Rung(k, e.record)]

\* Runs take records of their batch file, and what they append was decided so.
AllDecided ==
    kind \in Pipelines =>
        /\ \A r \in Writers : run[r].todo \subseteq Records[kind]
        /\ \A w \in Writers : writer[w].pc # "idle" => Decided(kind, writer[w].entry)
        /\ \A e \in Returned : Decided(kind, e)

\* An outcome is on the rung that its record is given.
LEMMA RungOfDecided ==
    ASSUME kind \in Pipelines, NEW e, Decided(kind, e)
    PROVE  RungOf(e) = Rung(kind, e.record)
  <1>1. e.record.wait \in Int /\ e.record.amount \in Int
    BY ChasersAssumption DEF Decided, Pipelines
  <1>2. Rung(kind, e.record) \in 1..3
    BY <1>1, LadderNeverDescends
  <1>3. \A i, j \in 1..3 : Ladder(kind)[i] = Ladder(kind)[j] => i = j
    BY DEF Ladder, Policy, ReceivablesPolicy, CheckoutPolicy, Pipelines
  <1>4. /\ Rung(kind, e.record) \in 1..3
        /\ Ladder(kind)[Rung(kind, e.record)] = e.action_type
        /\ \A i \in 1..3 : Ladder(kind)[i] = e.action_type => i = Rung(kind, e.record)
    BY <1>2, <1>3 DEF Decided
  <1> QED BY <1>4 DEF RungOf

\* A run that goes on takes no new record.
LEMMA TodoShrinks ==
    ASSUME RunsAreRuns, NEW r \in Writers, RunNext(r),
           ~ \E batch \in SUBSET Records[kind] : Start(r, batch)
    PROVE  run'[r].todo \subseteq run[r].todo
  <1>1. CASE UNCHANGED run
    BY <1>1
  <1>2. CASE \E pc, batch, todo, results :
               /\ todo \subseteq run[r].todo
               /\ run' = [run EXCEPT ![r] = Run(pc, batch, todo, results)]
    <2>1. PICK pc, batch, todo, results :
            /\ todo \subseteq run[r].todo
            /\ run' = [run EXCEPT ![r] = Run(pc, batch, todo, results)]
      BY <1>2
    <2>2. run'[r] = Run(pc, batch, todo, results)
      BY <2>1 DEF RunsAreRuns
    <2> QED BY <2>1, <2>2 DEF Run
  <1>3. CASE \E x \in run[r].todo : ExecuteAction(r, x)
    <2>1. PICK x \in run[r].todo :
            run' = [run EXCEPT ![r] = Run("append", run[r].batch, run[r].todo \ {x},
                                          run[r].results)]
      BY <1>3 DEF ExecuteAction
    <2> QED BY <1>2, <2>1, Zenon
  <1>4. CASE \/ AppendReturns(r) \/ AppendRaises(r) \/ Summarize(r)
             \/ SummarizeRaises(r) \/ Killed(r)
    BY <1>2, <1>4 DEF AppendReturns, AppendRaises, Summarize, SummarizeRaises, Killed, IdleRun
  <1>5. CASE KeepAppending(r) \/ EventLogged(r) \/ \E e \in Entries : LogEvent(r, e)
    BY <1>1, <1>5 DEF KeepAppending, EventLogged, LogEvent, chaserVars
  <1> QED BY <1>3, <1>4, <1>5 DEF RunNext

\* What a writer holds after a step was decided by run_pipeline.
LEMMA EntryDecided ==
    ASSUME LogInv, AllDecided, kind \in Pipelines, NEW r \in Writers, RunNext(r),
           kind' = kind, writer'[r].pc # "idle"
    PROVE  Decided(kind, writer'[r].entry)
  <1>w. WritersOK
    BY DEF LogInv, LogTypeOK
  <1>1. CASE \E x \in run[r].todo : ExecuteAction(r, x)
    <2>1. PICK x \in run[r].todo, responded \in BOOLEAN :
            BeginAppend(r, Outcome(kind, x, responded, appends))
      BY <1>1 DEF ExecuteAction
    <2>2. PICK o : o = Outcome(kind, x, responded, appends)
      OBVIOUS
    <2>3. writer' = [writer EXCEPT ![r] = Writer("wait", o, <<>>)]
      BY <2>1, <2>2 DEF BeginAppend
    <2>4. writer'[r].entry = o
      <3>1. writer'[r] = Writer("wait", o, <<>>)
        BY <1>w, <2>3 DEF WritersOK
      <3> QED BY <3>1 DEF Writer
    <2>5. o.record = x /\ o.action_type = Ladder(kind)[Rung(kind, x)]
      BY <2>2 DEF Outcome
    <2>6. x \in Records[kind]
      BY DEF AllDecided
    <2> QED BY <2>4, <2>5, <2>6 DEF Decided
  <1>2. CASE ~ \E x \in run[r].todo : ExecuteAction(r, x)
    <2>1. \/ UNCHANGED writer
          \/ \E pc \in {"open", "write"} : \E loaded :
               /\ writer' = [writer EXCEPT ![r] = Writer(pc, writer[r].entry, loaded)]
               /\ writer[r].pc # "idle"
          \/ writer' = [writer EXCEPT ![r] = Writer("idle", None, <<>>)]
      BY <1>2 DEF RunNext, Start, KeepAppending, AppendReturns, AppendRaises, Summarize,
                  SummarizeRaises, Killed, LogEvent, EventLogged, Load, Truncate, Write,
                  TimeOut, Kill, IdleWriter, Pipelines, logVars
    <2>2. CASE UNCHANGED writer
      BY <2>2 DEF AllDecided, Decided
    <2>3. CASE \E pc \in {"open", "write"} : \E loaded :
                 /\ writer' = [writer EXCEPT ![r] = Writer(pc, writer[r].entry, loaded)]
                 /\ writer[r].pc # "idle"
      <3>1. PICK pc, loaded :
              writer' = [writer EXCEPT ![r] = Writer(pc, writer[r].entry, loaded)]
        BY <2>3
      <3>2. writer'[r] = Writer(pc, writer[r].entry, loaded)
        BY <1>w, <3>1 DEF WritersOK
      <3>3. writer'[r].entry = writer[r].entry
        BY <3>2 DEF Writer
      <3> QED BY <2>3, <3>3 DEF AllDecided
    <2>4. CASE writer' = [writer EXCEPT ![r] = Writer("idle", None, <<>>)]
      <3>1. writer'[r] = Writer("idle", None, <<>>)
        BY <1>w, <2>4 DEF WritersOK
      <3> QED BY <3>1 DEF Writer
    <2> QED BY <2>1, <2>2, <2>3, <2>4
  <1> QED BY <1>1, <1>2

\* What is logged after a step was there before, or is what the writer held.
LEMMA ReturnedFrom ==
    ASSUME LogInv, returned \in Seq(Returned), NEW w \in Writers,
           WriterStep(w) \/ UNCHANGED logVars
    PROVE  \A e \in Returned' :
             \/ e \in Returned
             \/ writer[w].pc # "idle" /\ e = writer[w].entry
  <1>1. \/ returned' = returned
        \/ writer[w].pc # "idle" /\ returned' = Append(returned, writer[w].entry)
        \/ returned' = <<>>
    BY DEF WriterStep, LogStep, BeginAppend, Load, Truncate, Write, TimeOut, Kill, logVars
  <1>2. CASE returned' = returned
    <2>1. Returned' = Returned
      BY <1>2 DEF Returned
    <2> QED BY <2>1
  <1>3. CASE writer[w].pc # "idle" /\ returned' = Append(returned, writer[w].entry)
    <2>1. returned \in Seq(Elements(returned)) /\ Returned = Elements(returned)
          /\ Returned' = Elements(returned')
      BY DEF Returned, Elements
    <2>2. Elements(returned') = Elements(returned) \cup {writer[w].entry}
      BY <1>3, <2>1, AppendElements
    <2>3. Returned' = Returned \cup {writer[w].entry}
      BY <2>1, <2>2
    <2> QED BY <1>3, <2>3
  <1>4. CASE returned' = <<>>
    BY <1>4 DEF Returned
  <1> QED BY <1>1, <1>2, <1>3, <1>4

\* Every step keeps it.
LEMMA NextDecided ==
    ASSUME ChasersInv, AllDecided, [Next]_vars
    PROVE  AllDecided'
  <1>1. CASE UNCHANGED vars
    BY <1>1 DEF AllDecided, Decided, Returned, vars, chaserVars, logVars
  <1>2. ASSUME NEW r \in Writers, RunNext(r) PROVE AllDecided'
    <2>1. LogInv /\ RunsAreRuns /\ returned \in Seq(Returned)
      BY DEF ChasersInv, RunsTypeOK, RunsAreRuns
    <2>2. /\ kind' = kind /\ \A q \in Writers \ {r} : run'[q] = run[q]
          /\ WriterStep(r) \/ UNCHANGED logVars
      BY <1>2, <2>1, RunsAfter, StepOfTheLog
    <2> SUFFICES ASSUME kind \in Pipelines PROVE AllDecided'
      BY <2>2 DEF AllDecided
    <2>3. run'[r].todo \subseteq Records[kind]
      <3>1. CASE \E batch \in SUBSET Records[kind] : Start(r, batch)
        <4>1. PICK batch \in SUBSET Records[kind] :
                run' = [run EXCEPT ![r] = Run("loop", batch, batch, {})]
          BY <3>1 DEF Start
        <4>2. run'[r] = Run("loop", batch, batch, {})
          BY <2>1, <4>1 DEF RunsAreRuns
        <4> QED BY <4>2 DEF Run
      <3>2. CASE ~ \E batch \in SUBSET Records[kind] : Start(r, batch)
        BY <1>2, <2>1, <3>2, TodoShrinks DEF AllDecided
      <3> QED BY <3>1, <3>2
    <2>4. \A w \in Writers : writer'[w].pc # "idle" => Decided(kind, writer'[w].entry)
      <3>1. \A w \in Writers \ {r} : writer'[w] = writer[w]
        BY <2>1, <2>2, WriterStepOthers DEF LogInv, LogTypeOK
      <3> QED BY <1>2, <2>1, <2>2, <3>1, EntryDecided DEF AllDecided, Decided
    <2>5. \A e \in Returned' : Decided(kind, e)
      BY <2>1, <2>2, ReturnedFrom DEF AllDecided, Decided
    <2> QED BY <2>2, <2>3, <2>4, <2>5 DEF AllDecided
  <1> QED BY <1>1, <1>2 DEF Next

\* The ladder, for any records: of two outcomes in the log, the one of the case
\* that has waited at least as long and owes at least as much is no gentler.
THEOREM LadderIsClimbed == Spec => []LadderClimbs
  <1>1. Init => AllDecided
    BY DEF Init, LogInit, AllDecided, Returned, IdleRun, Run, IdleWriter, Writer
  <1>2. ChasersInv /\ AllDecided /\ [Next]_vars => AllDecided'
    BY NextDecided
  <1>3. ChasersInv /\ AllDecided => LadderClimbs
    <2> SUFFICES ASSUME ChasersInv, AllDecided, kind \in Pipelines,
                        NEW i \in DOMAIN returned, NEW j \in DOMAIN returned,
                        returned[i].record.wait <= returned[j].record.wait,
                        returned[i].record.amount <= returned[j].record.amount
                 PROVE  RungOf(returned[i]) <= RungOf(returned[j])
      BY DEF LadderClimbs
    <2>1. DOMAIN returned = 1..Len(returned)
      BY DEF ChasersInv, RunsTypeOK
    <2>2. Decided(kind, returned[i]) /\ Decided(kind, returned[j])
      BY <2>1 DEF AllDecided, Returned
    <2>3. /\ returned[i].record \in [wait : Int, amount : Int]
          /\ returned[j].record \in [wait : Int, amount : Int]
      BY <2>2, ChasersAssumption DEF Decided, Pipelines
    <2>4. Rung(kind, returned[i].record) <= Rung(kind, returned[j].record)
      BY <2>3, LadderNeverDescends
    <2> QED BY <2>2, <2>4, RungOfDecided
  <1> QED BY <1>1, <1>2, <1>3, ChasersInvariance, PTL DEF Spec

=============================================================================
