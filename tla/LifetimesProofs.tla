--------------------------- MODULE LifetimesProofs ----------------------------
(***************************************************************************)
(* Proofs about Lifetimes, for any files, levels and times, and any number *)
(* of lines that wait to be written.                                       *)
(***************************************************************************)
EXTENDS Lifetimes, TLAPS

------------------------------------------------------------------------------
\* Type correctness.

LEMMA NoLevel == Nowhere \notin Levels /\ Never \notin 0 .. MaxTime
BY LevelsAssumption, BoundsAssumption DEF Nowhere, Never

LEMMA LineType ==
    ASSUME TypeOK
    PROVE  /\ \A event \in {"moved", "trivial_move", "creation", "deletion"}, f \in Files,
                 level \in Levels \cup {Nowhere} : Line(event, f, level) \in Lines
           /\ Line("other", NoFile, Nowhere) \in Lines
BY DEF TypeOK, Line, Lines

\* The fields of a line.
LEMMA LineFields ==
    ASSUME NEW line \in Lines
    PROVE  /\ line.time \in 0 .. MaxTime /\ line.level \in Levels \cup {Nowhere}
           /\ line.event # "other" => line.file \in Files
BY DEF Lines

LEMMA LaterIs ==
    ASSUME NEW a \in Int, NEW b \in Int
    PROVE  Later(a, b) \in {a, b} /\ a <= Later(a, b) /\ b <= Later(a, b)
BY DEF Later

LEMMA ReadType ==
    ASSUME TypeOK, NEW line \in pending, Read(line)
    PROVE  /\ line \in Lines /\ pending' \subseteq Lines /\ final_time' \in 0 .. MaxTime
           /\ UNCHANGED <<now, where, born, died, moves, last, use_move_destination>>
<1>1. line \in Lines /\ line.time \in 0 .. MaxTime /\ final_time \in 0 .. MaxTime
  BY LineFields DEF TypeOK
<1>2. \A t \in 0 .. MaxTime : t \in Int
  OBVIOUS
<1>3. Later(final_time, line.time) \in {final_time, line.time}
  BY <1>1, <1>2, LaterIs
<1> QED
  BY <1>1, <1>3 DEF Read, TypeOK, database

LEMMA TypeInit == Init => TypeOK
<1> SUFFICES ASSUME Init PROVE TypeOK
  OBVIOUS
<1>1. 0 \in 0 .. MaxTime
  BY BoundsAssumption
<1>2. created \in [Files -> [time : 0 .. MaxTime, level : Levels \cup {Nowhere}] \cup {Unknown}]
  BY DEF Init
<1>3. use_move_destination \in BOOLEAN
  BY Zenon DEF Init
<1> QED
  BY <1>1, <1>2, <1>3 DEF Init, TypeOK

LEMMA TypeStep == TypeOK /\ [Next]_vars => TypeOK'
<1> SUFFICES ASSUME TypeOK, [Next]_vars PROVE TypeOK'
  OBVIOUS
<1>1. CASE Tick
  <2>1. now + 1 \in 0 .. MaxTime
    BY <1>1, BoundsAssumption DEF Tick, TypeOK
  <2> QED
    BY <1>1, <2>1 DEF Tick, TypeOK, tables
<1>2. CASE OtherEvent
  BY <1>2, LineType DEF OtherEvent, ToLog, TypeOK, tables
<1>3. ASSUME NEW f \in Files, NEW level \in Levels, CreateFile(f, level)
      PROVE  TypeOK'
  BY <1>3, LineType DEF CreateFile, ToLog, TypeOK, tables
<1>4. ASSUME NEW f \in Files, NEW level \in Levels,
             NEW lines \in SUBSET {"moved", "trivial_move"}, MoveFile(f, level, lines)
      PROVE  TypeOK'
  <2>1. \A event \in lines : Line(event, f, level) \in Lines
    BY LineType
  <2>2. pending' \subseteq Lines
    BY <1>4, <2>1 DEF MoveFile, ToLog, TypeOK
  <2> QED
    BY <1>4, <2>2 DEF MoveFile, TypeOK, tables
<1>5. ASSUME NEW f \in Files, DeleteFile(f)
      PROVE  TypeOK'
  BY <1>5, LineType DEF DeleteFile, ToLog, TypeOK, tables
<1>6. ASSUME NEW line \in pending, ParseMove(line)
      PROVE  TypeOK'
  BY <1>6, ReadType, LineFields DEF ParseMove, IsMove, TypeOK
<1>7. ASSUME NEW line \in pending, ParseCreation(line)
      PROVE  TypeOK'
  <2>1. [time |-> line.time, level |-> line.level]
            \in [time : 0 .. MaxTime, level : Levels \cup {Nowhere}]
    BY <1>7, ReadType, LineFields DEF ParseCreation
  <2> QED
    BY <1>7, <2>1, ReadType DEF ParseCreation, TypeOK
<1>8. ASSUME NEW line \in pending, ParseDeletion(line)
      PROVE  TypeOK'
  BY <1>8, ReadType, LineFields DEF ParseDeletion, TypeOK
<1>9. ASSUME NEW line \in pending, ParseOther(line)
      PROVE  TypeOK'
  BY <1>9, ReadType DEF ParseOther, TypeOK
<1>10. CASE UNCHANGED vars
  BY <1>10 DEF vars, database, tables, TypeOK
<1> QED
  BY <1>1, <1>2, <1>3, <1>4, <1>5, <1>6, <1>7, <1>8, <1>9, <1>10, Zenon DEF Next

------------------------------------------------------------------------------
\* The rest of the inductive invariant, one conjunct at a time.

LEMMA RestInit == Init => ClockInv /\ CreationInv /\ DeletionInv /\ MoveInv
<1> SUFFICES ASSUME Init PROVE ClockInv /\ CreationInv /\ DeletionInv /\ MoveInv
  OBVIOUS
<1>1. ClockInv
  BY DEF Init, ClockInv, Never
<1>2. CreationInv /\ DeletionInv /\ MoveInv
  BY DEF Init, CreationInv, DeletionInv, MoveInv, Pending, PendingMoves
<1> QED
  BY <1>1, <1>2

\* A line that something with a time is added.
LEMMA StampKeepsClock ==
    ASSUME TypeOK, ClockInv, NEW line, line.time = now, line.event # "moved",
           pending' = pending \cup {line}, last' = now,
           UNCHANGED <<now, final_time>>,
           \A f \in Files : /\ born'[f] = born[f] \/ (born'[f] = now /\ died[f] = Never)
                            /\ died'[f] = died[f] \/ died'[f] = now
    PROVE  ClockInv'
<1>1. last <= now /\ final_time <= now /\ now \in Nat /\ last \in Nat /\ final_time \in Nat
  BY DEF TypeOK, ClockInv
<1>2. \A l \in pending' : l.event # "moved" => l.time <= now
  <2>1. \A l \in pending : l.event # "moved" => l.time <= last /\ l.time \in Nat
    BY LineFields DEF ClockInv, TypeOK
  <2> QED
    BY <1>1, <2>1
<1>3. \A f \in Files : born'[f] <= now /\ (died'[f] # Never => born'[f] <= died'[f])
  <2> SUFFICES ASSUME NEW f \in Files
               PROVE  born'[f] <= now /\ (died'[f] # Never => born'[f] <= died'[f])
    OBVIOUS
  <2>1. born[f] <= last /\ (died[f] # Never => born[f] <= died[f]) /\ born[f] \in Int
    BY DEF ClockInv, TypeOK, Never
  <2> QED
    BY <1>1, <2>1
<1> QED
  BY <1>1, <1>2, <1>3 DEF ClockInv

\* Reading a line makes final_time at least its time.
LEMMA ReadKeepsClock ==
    ASSUME TypeOK, ClockInv, NEW line \in pending, Read(line)
    PROVE  ClockInv'
<1>1. UNCHANGED <<now, born, died, last>> /\ pending' = pending \ {line} /\ line \in Lines
  BY ReadType DEF Read, database
<1>2. line.time \in Int /\ final_time \in Int /\ last \in Int
  BY <1>1, LineFields DEF TypeOK
<1>3. CASE line.event = "moved"
  BY <1>1, <1>3 DEF ClockInv, Read
<1>4. CASE line.event # "moved"
  <2>1. final_time' = Later(final_time, line.time) /\ line.time <= last /\ final_time <= last
    BY <1>4 DEF Read, ClockInv
  <2>2. final_time' \in Int /\ final_time' <= last /\ final_time <= final_time' /\ line.time <= final_time'
    BY <1>2, <2>1, LaterIs
  <2>3. final_time' = last \/ \E l \in pending' : l.event # "moved" /\ l.time = last
    <3>1. CASE final_time = last
      BY <1>2, <2>2, <3>1
    <3>2. CASE \E l \in pending : l.event # "moved" /\ l.time = last
      <4>1. PICK l \in pending : l.event # "moved" /\ l.time = last
        BY <3>2
      <4>2. CASE l = line
        BY <1>2, <2>2, <4>1, <4>2
      <4> QED
        BY <1>1, <4>1, <4>2
    <3> QED
      BY <3>1, <3>2 DEF ClockInv
  <2> QED
    BY <1>1, <2>2, <2>3 DEF ClockInv
<1> QED
  BY <1>3, <1>4

LEMMA ClockStep == TypeOK /\ ClockInv /\ DeletionInv /\ [Next]_vars => ClockInv'
<1> SUFFICES ASSUME TypeOK, ClockInv, DeletionInv, [Next]_vars PROVE ClockInv'
  OBVIOUS
<1>1. CASE Tick
  BY <1>1 DEF Tick, TypeOK, ClockInv, tables
<1>2. CASE OtherEvent
  <2>1. Line("other", NoFile, Nowhere).time = now /\ Line("other", NoFile, Nowhere).event # "moved"
    BY DEF Line
  <2> QED
    BY <1>2, <2>1, StampKeepsClock DEF OtherEvent, ToLog, tables
<1>3. ASSUME NEW f \in Files, NEW level \in Levels, CreateFile(f, level)
      PROVE  ClockInv'
  <2>1. Line("creation", f, level).time = now /\ Line("creation", f, level).event # "moved"
    BY DEF Line
  <2>2. died[f] = Never
    BY <1>3 DEF DeletionInv, CreateFile
  <2>3. \A g \in Files : born'[g] = born[g] \/ (born'[g] = now /\ died[g] = Never)
    BY <1>3, <2>2 DEF CreateFile, TypeOK
  <2> QED
    BY <1>3, <2>1, <2>3, StampKeepsClock DEF CreateFile, ToLog, tables
<1>4. ASSUME NEW f \in Files, NEW level \in Levels,
             NEW lines \in SUBSET {"moved", "trivial_move"}, MoveFile(f, level, lines)
      PROVE  ClockInv'
  <2>1. UNCHANGED <<now, born, died, final_time>>
    BY <1>4 DEF MoveFile, tables
  <2>2. \A event \in lines : Line(event, f, level).time = now /\ Line(event, f, level).event = event
    BY DEF Line
  <2>3. pending' = pending \cup {Line(event, f, level) : event \in lines}
    BY <1>4 DEF MoveFile, ToLog
  <2>4. CASE "trivial_move" \in lines
    <3>1. last' = now
      BY <1>4, <2>4 DEF MoveFile
    <3>2. \A l \in pending : l.event # "moved" => l.time <= last /\ l.time \in Nat
      BY LineFields DEF ClockInv, TypeOK
    <3>3. last \in Nat /\ now \in Nat /\ final_time \in Nat /\ \A g \in Files : born[g] \in Int
      BY DEF TypeOK, Never
    <3>4. \A l \in pending' : l.event # "moved" => l.time <= now
      BY <2>2, <2>3, <3>2, <3>3 DEF ClockInv
    <3>5. \E l \in pending' : l.event # "moved" /\ l.time = now
      <4>1. Line("trivial_move", f, level) \in pending'
        BY <2>3, <2>4
      <4> QED
        BY <2>2, <2>4, <4>1
    <3> QED
      BY <2>1, <3>1, <3>3, <3>4, <3>5 DEF ClockInv
  <2>5. CASE "trivial_move" \notin lines
    <3>1. last' = last /\ \A event \in lines : event = "moved"
      BY <1>4, <2>5 DEF MoveFile
    <3>2. \A l \in pending' : l \in pending \/ l.event = "moved"
      BY <2>2, <2>3, <3>1
    <3> QED
      BY <2>1, <2>3, <3>1, <3>2 DEF ClockInv
  <2> QED
    BY <2>4, <2>5
<1>5. ASSUME NEW f \in Files, DeleteFile(f)
      PROVE  ClockInv'
  <2>1. Line("deletion", f, Nowhere).time = now /\ Line("deletion", f, Nowhere).event # "moved"
    BY DEF Line
  <2>2. \A g \in Files : died'[g] = died[g] \/ died'[g] = now
    BY <1>5 DEF DeleteFile, TypeOK
  <2> QED
    BY <1>5, <2>1, <2>2, StampKeepsClock DEF DeleteFile, ToLog, tables
<1>6. CASE \E line \in pending : Read(line)
  BY <1>6, ReadKeepsClock
<1>7. CASE UNCHANGED vars
  BY <1>7 DEF vars, database, tables, ClockInv
<1> QED
  BY <1>1, <1>2, <1>3, <1>4, <1>5, <1>6, <1>7, Zenon DEF Next, ParseMove, ParseCreation,
     ParseDeletion, ParseOther

\* Which lines of a file are pending after one was read.
LEMMA PendingReads ==
    ASSUME NEW line \in pending, Read(line)
    PROVE  /\ \A event, f : Pending(event, f)' = Pending(event, f) \ {line}
           /\ \A f : PendingMoves(f)' = PendingMoves(f) \ {line}
BY DEF Pending, PendingMoves, Read

LEMMA CreationStep == TypeOK /\ CreationInv /\ MoveInv /\ [Next]_vars => CreationInv'
<1> SUFFICES ASSUME TypeOK, CreationInv, MoveInv, [Next]_vars PROVE CreationInv'
  OBVIOUS
<1>1. CASE Tick
  BY <1>1 DEF Tick, tables, CreationInv, Pending
<1>2. CASE OtherEvent
  BY <1>2 DEF OtherEvent, ToLog, tables, CreationInv, Pending, Line
<1>3. ASSUME NEW f \in Files, NEW level \in Levels, CreateFile(f, level)
      PROVE  CreationInv'
  <2>1. /\ where[f] = Nowhere /\ where' = [where EXCEPT ![f] = level]
        /\ born' = [born EXCEPT ![f] = now] /\ UNCHANGED <<moves, created>>
        /\ pending' = pending \cup {Line("creation", f, level)}
    BY <1>3 DEF CreateFile, ToLog, tables
  <2>2. born[f] = Never /\ f \notin moves /\ created[f] = Unknown /\ Pending("creation", f) = {}
    BY <2>1 DEF CreationInv, MoveInv
  <2>3. now # Never /\ level # Nowhere
    BY NoLevel DEF TypeOK
  <2>4. /\ where'[f] = level /\ born'[f] = now
        /\ \A g \in Files : g # f => where'[g] = where[g] /\ born'[g] = born[g]
    BY <2>1 DEF TypeOK
  <2>5. /\ Pending("creation", f)' = {Line("creation", f, level)}
        /\ \A g \in Files : g # f => Pending("creation", g)' = Pending("creation", g)
    BY <2>1, <2>2 DEF Pending, Line
  <2>6. Line("creation", f, level).time = now /\ Line("creation", f, level).level = level
    BY DEF Line
  <2> QED
    BY <2>1, <2>2, <2>3, <2>4, <2>5, <2>6 DEF CreationInv
<1>4. ASSUME NEW f \in Files, NEW level \in Levels,
             NEW lines \in SUBSET {"moved", "trivial_move"}, MoveFile(f, level, lines)
      PROVE  CreationInv'
  <2>1. /\ where' = [where EXCEPT ![f] = level] /\ moves' = moves \cup {f}
        /\ UNCHANGED <<born, created>>
        /\ pending' = pending \cup {Line(event, f, level) : event \in lines}
    BY <1>4 DEF MoveFile, ToLog, tables
  <2>2. level # Nowhere
    BY NoLevel
  <2>3. \A g \in Files : Pending("creation", g)' = Pending("creation", g)
    BY <2>1 DEF Pending, Line
  <2> QED
    BY <2>1, <2>2, <2>3 DEF CreationInv, TypeOK
<1>5. ASSUME NEW f \in Files, DeleteFile(f)
      PROVE  CreationInv'
  BY <1>5 DEF DeleteFile, ToLog, tables, CreationInv, Pending, Line
<1>6. ASSUME NEW line \in pending, ParseCreation(line)
      PROVE  CreationInv'
  <2>1. /\ line.event = "creation" /\ line \in Lines /\ line.file \in Files
        /\ UNCHANGED <<where, born, moves>>
        /\ \A f : Pending("creation", f)' = Pending("creation", f) \ {line}
    BY <1>6, ReadType, PendingReads, LineFields DEF ParseCreation
  <2>2. line.time # Never
    BY <2>1, NoLevel, LineFields
  <2>3. \A f \in Files : f # line.file => created'[f] = created[f] /\ line \notin Pending("creation", f)
    BY <1>6 DEF ParseCreation, TypeOK, Pending
  <2>4. /\ created'[line.file] # Unknown
        /\ created'[line.file] \in {created[line.file], [time |-> line.time, level |-> line.level]}
        /\ created[line.file] = Unknown =>
              created'[line.file] = [time |-> line.time, level |-> line.level]
    BY <1>6, <2>1, <2>2 DEF ParseCreation, TypeOK, Unknown
  <2>5. line \in Pending("creation", line.file)
    BY <2>1 DEF Pending
  <2> QED
    BY <2>1, <2>3, <2>4, <2>5 DEF CreationInv
<1>7. ASSUME NEW line \in pending, ParseMove(line) \/ ParseDeletion(line) \/ ParseOther(line)
      PROVE  CreationInv'
  <2>1. /\ UNCHANGED <<where, born, moves, created>>
        /\ \A f : Pending("creation", f)' = Pending("creation", f) \ {line}
        /\ line.event # "creation"
    BY <1>7, ReadType, PendingReads DEF ParseMove, ParseDeletion, ParseOther, IsMove
  <2>2. \A f : line \notin Pending("creation", f)
    BY <2>1 DEF Pending
  <2> QED
    BY <2>1, <2>2 DEF CreationInv
<1>8. CASE UNCHANGED vars
  BY <1>8 DEF vars, database, tables, CreationInv, Pending
<1> QED
  BY <1>1, <1>2, <1>3, <1>4, <1>5, <1>6, <1>7, <1>8, Zenon DEF Next

LEMMA DeletionStep == TypeOK /\ DeletionInv /\ [Next]_vars => DeletionInv'
<1> SUFFICES ASSUME TypeOK, DeletionInv, [Next]_vars PROVE DeletionInv'
  OBVIOUS
<1>1. CASE Tick
  BY <1>1 DEF Tick, tables, DeletionInv, Pending
<1>2. CASE OtherEvent
  BY <1>2 DEF OtherEvent, ToLog, tables, DeletionInv, Pending, Line
<1>3. ASSUME NEW f \in Files, NEW level \in Levels, CreateFile(f, level)
      PROVE  DeletionInv'
  <2>1. level # Nowhere
    BY NoLevel
  <2>2. \A g \in Files : Pending("deletion", g)' = Pending("deletion", g)
    BY <1>3 DEF CreateFile, ToLog, Pending, Line
  <2> QED
    BY <1>3, <2>1, <2>2 DEF CreateFile, tables, DeletionInv, TypeOK
<1>4. ASSUME NEW f \in Files, NEW level \in Levels,
             NEW lines \in SUBSET {"moved", "trivial_move"}, MoveFile(f, level, lines)
      PROVE  DeletionInv'
  <2>1. level # Nowhere
    BY NoLevel
  <2>2. \A g \in Files : Pending("deletion", g)' = Pending("deletion", g)
    BY <1>4 DEF MoveFile, ToLog, Pending, Line
  <2> QED
    BY <1>4, <2>1, <2>2 DEF MoveFile, tables, DeletionInv, TypeOK
<1>5. ASSUME NEW f \in Files, DeleteFile(f)
      PROVE  DeletionInv'
  <2>1. /\ where[f] # Nowhere /\ died[f] = Never /\ died' = [died EXCEPT ![f] = now]
        /\ UNCHANGED <<where, deleted>>
        /\ pending' = pending \cup {Line("deletion", f, Nowhere)}
    BY <1>5 DEF DeleteFile, Exists, ToLog, tables
  <2>2. Pending("deletion", f) = {} /\ deleted[f] = Never
    BY <2>1 DEF DeletionInv
  <2>3. /\ Pending("deletion", f)' = {Line("deletion", f, Nowhere)}
        /\ \A g \in Files : g # f => Pending("deletion", g)' = Pending("deletion", g)
    BY <2>1, <2>2 DEF Pending, Line
  <2>4. Line("deletion", f, Nowhere).time = now /\ now # Never
    BY NoLevel DEF Line, TypeOK
  <2> QED
    BY <2>1, <2>2, <2>3, <2>4 DEF DeletionInv, TypeOK
<1>6. ASSUME NEW line \in pending, ParseDeletion(line)
      PROVE  DeletionInv'
  <2>1. /\ line.event = "deletion" /\ line.file \in Files
        /\ UNCHANGED <<where, died>>
        /\ \A f : Pending("deletion", f)' = Pending("deletion", f) \ {line}
    BY <1>6, ReadType, PendingReads, LineFields DEF ParseDeletion
  <2>2. line \in Pending("deletion", line.file)
    BY <2>1 DEF Pending
  <2>3. died[line.file] # Never /\ line.time = died[line.file]
    BY <2>1, <2>2 DEF DeletionInv
  <2>4. /\ deleted'[line.file] = line.time
        /\ \A f \in Files : f # line.file => deleted'[f] = deleted[f] /\ line \notin Pending("deletion", f)
    BY <1>6, <2>1 DEF ParseDeletion, TypeOK, Pending
  <2> QED
    BY <2>1, <2>3, <2>4 DEF DeletionInv
<1>7. ASSUME NEW line \in pending, ParseMove(line) \/ ParseCreation(line) \/ ParseOther(line)
      PROVE  DeletionInv'
  <2>1. /\ UNCHANGED <<where, died, deleted>>
        /\ \A f : Pending("deletion", f)' = Pending("deletion", f) \ {line}
        /\ line.event # "deletion"
    BY <1>7, ReadType, PendingReads DEF ParseMove, ParseCreation, ParseOther, IsMove
  <2>2. \A f : line \notin Pending("deletion", f)
    BY <2>1 DEF Pending
  <2> QED
    BY <2>1, <2>2 DEF DeletionInv
<1>8. CASE UNCHANGED vars
  BY <1>8 DEF vars, database, tables, DeletionInv, Pending
<1> QED
  BY <1>1, <1>2, <1>3, <1>4, <1>5, <1>6, <1>7, <1>8, Zenon DEF Next

LEMMA MoveStep == TypeOK /\ MoveInv /\ [Next]_vars => MoveInv'
<1> SUFFICES ASSUME TypeOK, MoveInv, [Next]_vars PROVE MoveInv'
  OBVIOUS
<1>1. CASE Tick
  BY <1>1 DEF Tick, tables, MoveInv, PendingMoves
<1>2. CASE OtherEvent
  BY <1>2 DEF OtherEvent, ToLog, tables, MoveInv, PendingMoves, Line, IsMove
<1>3. ASSUME NEW f \in Files, NEW level \in Levels, CreateFile(f, level)
      PROVE  MoveInv'
  <2>1. \A g \in Files : PendingMoves(g)' = PendingMoves(g)
    BY <1>3 DEF CreateFile, ToLog, PendingMoves, Line, IsMove
  <2>2. f \notin moves
    BY <1>3 DEF CreateFile, MoveInv
  <2> QED
    BY <1>3, <2>1, <2>2 DEF CreateFile, tables, MoveInv, TypeOK
<1>4. ASSUME NEW f \in Files, NEW level \in Levels,
             NEW lines \in SUBSET {"moved", "trivial_move"}, MoveFile(f, level, lines)
      PROVE  MoveInv'
  <2>1. /\ where' = [where EXCEPT ![f] = level] /\ moves' = moves \cup {f} /\ lines # {}
        /\ UNCHANGED <<moved, move_destination>>
        /\ pending' = pending \cup {Line(event, f, level) : event \in lines}
    BY <1>4 DEF MoveFile, ToLog, tables
  <2>2. level # Nowhere
    BY NoLevel
  <2>3. PendingMoves(f) = {}
    BY <1>4 DEF MoveFile, PendingMoves
  <2>4. /\ PendingMoves(f)' = {Line(event, f, level) : event \in lines}
        /\ \A g \in Files : g # f => PendingMoves(g)' = PendingMoves(g)
    <3>1. \A event \in lines :
              IsMove(Line(event, f, level)) /\ Line(event, f, level).file = f
      BY DEF Line, IsMove
    <3> QED
      BY <2>1, <2>3, <3>1 DEF PendingMoves
  <2>5. \A event : Line(event, f, level).level = level
    BY DEF Line
  <2>6. PendingMoves(f)' # {} /\ \A line \in PendingMoves(f)' : line.level = level
    BY <2>1, <2>4, <2>5
  <2>7. /\ where'[f] = level
        /\ \A g \in Files : g # f => where'[g] = where[g]
    BY <2>1 DEF TypeOK
  <2> QED
    BY <2>1, <2>2, <2>4, <2>6, <2>7 DEF MoveInv
<1>5. ASSUME NEW f \in Files, DeleteFile(f)
      PROVE  MoveInv'
  BY <1>5 DEF DeleteFile, ToLog, tables, MoveInv, PendingMoves, Line, IsMove
<1>6. ASSUME NEW line \in pending, ParseMove(line)
      PROVE  MoveInv'
  <2>1. /\ IsMove(line) /\ line.file \in Files
        /\ UNCHANGED <<where, moves>>
        /\ \A f : PendingMoves(f)' = PendingMoves(f) \ {line}
    BY <1>6, ReadType, PendingReads, LineFields DEF ParseMove, IsMove
  <2>2. line \in PendingMoves(line.file)
    BY <2>1 DEF PendingMoves
  <2>3. line.file \in moves /\ line.level = where[line.file]
    BY <2>1, <2>2 DEF MoveInv
  <2>4. /\ moved' = moved \cup {line.file} /\ move_destination'[line.file] = line.level
        /\ \A f \in Files : f # line.file =>
              move_destination'[f] = move_destination[f] /\ line \notin PendingMoves(f)
    BY <1>6, <2>1 DEF ParseMove, TypeOK, PendingMoves
  <2> QED
    BY <2>1, <2>3, <2>4 DEF MoveInv
<1>7. ASSUME NEW line \in pending, ParseCreation(line) \/ ParseDeletion(line) \/ ParseOther(line)
      PROVE  MoveInv'
  <2>1. /\ UNCHANGED <<where, moves, moved, move_destination>>
        /\ \A f : PendingMoves(f)' = PendingMoves(f) \ {line}
        /\ ~IsMove(line)
    BY <1>7, ReadType, PendingReads DEF ParseCreation, ParseDeletion, ParseOther, IsMove
  <2>2. \A f : line \notin PendingMoves(f)
    BY <2>1 DEF PendingMoves
  <2> QED
    BY <2>1, <2>2 DEF MoveInv
<1>8. CASE UNCHANGED vars
  BY <1>8 DEF vars, database, tables, MoveInv, PendingMoves
<1> QED
  BY <1>1, <1>2, <1>3, <1>4, <1>5, <1>6, <1>7, <1>8, Zenon DEF Next

------------------------------------------------------------------------------
\* Theorems.

\* At any time each creation, deletion and move is in the tables of parse_log or
\* in a line that is still to be read, and so is the time of the last event.
THEOREM LogInvariance == Spec => []IInv
<1>1. Init => IInv
  BY TypeInit, RestInit DEF IInv
<1>2. IInv /\ [Next]_vars => IInv'
  BY TypeStep, ClockStep, CreationStep, DeletionStep, MoveStep DEF IInv
<1> QED
  BY <1>1, <1>2, PTL DEF Spec

\* When everything is read, the tables hold what happened to f.
LEMMA TablesAreTrue ==
    ASSUME IInv, pending = {}, NEW f \in Files
    PROVE  /\ final_time = last
           /\ created[f] # Unknown <=> born[f] # Never
           /\ born[f] # Never => created[f].time = born[f]
           /\ deleted[f] = died[f]
           /\ f \in moved <=> f \in moves
           /\ f \in moves => move_destination[f] = where[f] /\ where[f] # Nowhere
           /\ f \notin moves => move_destination[f] = Nowhere
           /\ born[f] # Never /\ f \notin moves => created[f].level = where[f]
<1>1. PendingMoves(f) = {} /\ \A event : Pending(event, f) = {}
  BY DEF Pending, PendingMoves
<1>2. final_time = last
  BY DEF IInv, ClockInv
<1>3. /\ created[f] # Unknown <=> born[f] # Never
      /\ born[f] # Never => created[f].time = born[f]
      /\ born[f] # Never /\ f \notin moves => created[f].level = where[f]
  BY <1>1 DEF IInv, CreationInv
<1>4. deleted[f] = died[f]
  BY <1>1 DEF IInv, DeletionInv
<1>5. /\ f \in moved <=> f \in moves
      /\ f \in moves => move_destination[f] = where[f] /\ where[f] # Nowhere
      /\ f \notin moves => move_destination[f] = Nowhere
  BY <1>1 DEF IInv, MoveInv
<1> QED
  BY <1>2, <1>3, <1>4, <1>5

\* What the thresholds are taken from is true: after a log of any length, with
\* its lines in any order that the threads of the database can give them, the
\* samples of parse_log are the lifetimes of the files.
THEOREM SamplesAreTrue == Spec => []SamplesAreLifetimes
<1>1. IInv => SamplesAreLifetimes
  <2> SUFFICES ASSUME IInv, pending = {} PROVE Samples = Lifetimes
    BY DEF SamplesAreLifetimes
  <2> DEFINE Counted(g)  == /\ created[g] # Unknown /\ LevelOf(g) \in Measured
                            /\ use_move_destination \/ g \notin moved
                            /\ LifetimeOf(g) >= 0
             Lived(g)    == (IF died[g] = Never THEN last ELSE died[g]) - born[g]
             Expected(g) == /\ born[g] # Never /\ where[g] \in Measured
                            /\ use_move_destination \/ g \notin moves
  <2>1. ASSUME NEW g \in Files, born[g] # Never, use_move_destination \/ g \notin moves
        PROVE  LevelOf(g) = where[g] /\ LifetimeOf(g) = Lived(g) /\ Lived(g) >= 0
    <3>1. LevelOf(g) = where[g]
      BY <2>1, TablesAreTrue DEF LevelOf
    <3>2. LifetimeOf(g) = Lived(g)
      BY <2>1, TablesAreTrue DEF LifetimeOf
    <3>3. born[g] \in Int /\ died[g] \in Int /\ last \in Int
          /\ born[g] <= last /\ (died[g] # Never => born[g] <= died[g])
      BY DEF IInv, TypeOK, ClockInv, Never
    <3>4. Lived(g) >= 0
      BY <3>3
    <3> QED
      BY <3>1, <3>2, <3>4
  <2>2. \A g \in Files : Counted(g) <=> Expected(g)
    BY <2>1, TablesAreTrue
  <2>3. \A g \in Files : Expected(g) => LevelOf(g) = where[g] /\ LifetimeOf(g) = Lived(g)
    BY <2>1
  <2>4. Samples = {[file |-> f, level |-> LevelOf(f), lifetime |-> LifetimeOf(f)] :
                       f \in {g \in Files : Counted(g)}}
    BY DEF Samples
  <2>5. Lifetimes = {[file |-> f, level |-> where[f], lifetime |-> Lived(f)] :
                         f \in {g \in Files : Expected(g)}}
    BY DEF Lifetimes
  <2>6. {g \in Files : Counted(g)} = {g \in Files : Expected(g)}
    BY <2>2
  <2> HIDE DEF Counted, Lived, Expected
  <2> QED
    BY <2>3, <2>4, <2>5, <2>6
<1> QED
  BY <1>1, LogInvariance, PTL
===============================================================================
