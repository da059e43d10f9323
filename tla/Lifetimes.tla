------------------------------- MODULE Lifetimes -------------------------------
(***************************************************************************)
(* scripts/extract_p25_thresholds.py: the lifetimes of the files of each   *)
(* level, from the event log of a database.  The database creates, moves   *)
(* and deletes files in several threads; what happens is written to the    *)
(* log some time later, by whoever comes first, so that lines of different *)
(* events may change places.  The script reads the log once, from the      *)
(* first line to the last, and keeps four tables.                          *)
(***************************************************************************)
EXTENDS Integers, FiniteSets

CONSTANTS Files,    \* numbers of files
          Levels,   \* levels of the database
          MaxTime,  \* bound on the clock
          MaxLines  \* bound on the lines that are not written yet

ASSUME LevelsAssumption == Levels \subseteq Nat
ASSUME BoundsAssumption == MaxTime \in Nat /\ MaxLines \in Nat

Never == -1
Nowhere == -1
NoFile == "none"

VARIABLES now,
          where,    \* the level of each file, its last one when it is deleted
          born,     \* when it was created, if that is in the log, or Never
          died,     \* when it was deleted, or Never
          moves,    \* the files that were moved since the log began
          last,     \* the time of the last event that has a time
          pending,  \* the lines that are not written yet
          created, deleted, moved, move_destination, final_time,   \* of parse_log
          use_move_destination

database == <<now, where, born, died, moves, last>>
tables == <<created, deleted, moved, move_destination, final_time>>
vars == <<database, pending, tables, use_move_destination>>

Lines ==
    [event : {"moved", "trivial_move", "creation", "deletion"}, file : Files,
     level : Levels \cup {Nowhere}, time : 0 .. MaxTime]
    \cup [event : {"other"}, file : {NoFile}, level : {Nowhere}, time : 0 .. MaxTime]

Line(event, f, level) == [event |-> event, file |-> f, level |-> level, time |-> now]

ToLog(lines) == pending' = pending \cup lines /\ Cardinality(pending') <= MaxLines

Unknown == [time |-> Never, level |-> Nowhere]

Later(a, b) == IF a < b THEN b ELSE a

------------------------------------------------------------------------------
\* A log begins at some moment of the database's life.
Init ==
    /\ now = 0 /\ where \in [Files -> Levels \cup {Nowhere}]
    /\ born = [f \in Files |-> Never] /\ died = [f \in Files |-> Never]
    /\ moves = {} /\ last = 0 /\ pending = {}
    /\ created = [f \in Files |-> Unknown] /\ deleted = [f \in Files |-> Never]
    /\ moved = {} /\ move_destination = [f \in Files |-> Nowhere] /\ final_time = 0
    /\ use_move_destination \in BOOLEAN

Exists(f) == where[f] # Nowhere /\ died[f] = Never

Tick ==
    /\ now < MaxTime
    /\ now' = now + 1
    /\ UNCHANGED <<where, born, died, moves, last, pending, tables, use_move_destination>>

CreateFile(f, level) ==
    /\ where[f] = Nowhere
    /\ where' = [where EXCEPT ![f] = level] /\ born' = [born EXCEPT ![f] = now]
    /\ last' = now /\ ToLog({Line("creation", f, level)})
    /\ UNCHANGED <<now, died, moves, tables, use_move_destination>>

IsMove(line) == line.event \in {"moved", "trivial_move"}

\* A move is logged as a text, as an event, or as both; a file is not moved again
\* before.
MoveFile(f, level, lines) ==
    /\ Exists(f) /\ level > where[f]
    /\ \A line \in pending : ~(IsMove(line) /\ line.file = f)
    /\ lines # {}
    /\ where' = [where EXCEPT ![f] = level] /\ moves' = moves \cup {f}
    /\ last' = (IF "trivial_move" \in lines THEN now ELSE last)
    /\ ToLog({Line(event, f, level) : event \in lines})
    /\ UNCHANGED <<now, born, died, tables, use_move_destination>>

DeleteFile(f) ==
    /\ Exists(f)
    /\ died' = [died EXCEPT ![f] = now]
    /\ last' = now /\ ToLog({Line("deletion", f, Nowhere)})
    /\ UNCHANGED <<now, where, born, moves, tables, use_move_destination>>

\* A flush, a compaction, a change of gear.
OtherEvent ==
    /\ last' = now /\ ToLog({Line("other", NoFile, Nowhere)})
    /\ UNCHANGED <<now, where, born, died, moves, tables, use_move_destination>>

------------------------------------------------------------------------------
\* The next line of the log.

\* Mutant of Read: the time of the last line is taken for the last time.
ReadLast(line) ==
    /\ line \in pending
    /\ pending' = pending \ {line}
    /\ final_time' = (IF line.event = "moved" THEN final_time ELSE line.time)
    /\ UNCHANGED <<database, use_move_destination>>

\* The line itself, and its time if it has one.
Read(line) ==
    /\ line \in pending
    /\ pending' = pending \ {line}
    /\ final_time' = (IF line.event = "moved" THEN final_time ELSE Later(final_time, line.time))
    /\ UNCHANGED <<database, use_move_destination>>

ParseMove(line) ==
    /\ IsMove(line)
    /\ Read(line)
    /\ moved' = moved \cup {line.file}
    /\ move_destination' = [move_destination EXCEPT ![line.file] = line.level]
    /\ UNCHANGED <<created, deleted>>

ParseCreation(line) ==
    /\ line.event = "creation"
    /\ Read(line)
    /\ created' = IF created[line.file] = Unknown
                  THEN [created EXCEPT ![line.file] = [time |-> line.time, level |-> line.level]]
                  ELSE created
    /\ UNCHANGED <<deleted, moved, move_destination>>

ParseDeletion(line) ==
    /\ line.event = "deletion"
    /\ Read(line)
    /\ deleted' = [deleted EXCEPT ![line.file] = line.time]
    /\ UNCHANGED <<created, moved, move_destination>>

ParseOther(line) ==
    /\ line.event = "other"
    /\ Read(line)
    /\ UNCHANGED <<created, deleted, moved, move_destination>>

Next ==
    \/ Tick \/ OtherEvent
    \/ \E f \in Files :
        \/ \E level \in Levels :
            \/ CreateFile(f, level)
            \/ \E lines \in SUBSET {"moved", "trivial_move"} : MoveFile(f, level, lines)
        \/ DeleteFile(f)
    \/ \E line \in pending :
        ParseMove(line) \/ ParseCreation(line) \/ ParseDeletion(line) \/ ParseOther(line)

Spec == Init /\ [][Next]_vars

------------------------------------------------------------------------------
\* The samples, from the tables and from what happened.

Measured == 1 .. 5   \* range(1, 6)

\* The level that the lifetime of f counts for.
LevelOf(f) ==
    IF use_move_destination /\ move_destination[f] # Nowhere THEN move_destination[f]
                                                            ELSE created[f].level

LifetimeOf(f) == (IF deleted[f] = Never THEN final_time ELSE deleted[f]) - created[f].time

\* What parse_log returns.
Samples ==
    {[file |-> f, level |-> LevelOf(f), lifetime |-> LifetimeOf(f)] :
        f \in {g \in Files : /\ created[g] # Unknown /\ LevelOf(g) \in Measured
                             /\ use_move_destination \/ g \notin moved
                             /\ LifetimeOf(g) >= 0}}

\* The files that were created since the log began, each with its last level and
\* the time from its creation to its deletion, or to the end of the log; those
\* that were moved only if they count for where they were moved to.
Lifetimes ==
    {[file |-> f, level |-> where[f],
      lifetime |-> (IF died[f] = Never THEN last ELSE died[f]) - born[f]] :
        f \in {g \in Files : /\ born[g] # Never /\ where[g] \in Measured
                             /\ use_move_destination \/ g \notin moves}}

\* docs/SOURCES.md: "RocksDB logs are used to derive five lifetime thresholds for
\* levels L1 through L5": once the log is read, the samples that the thresholds
\* are taken from are the lifetimes of the files, in whatever order the lines
\* of different events got into the log.
SamplesAreLifetimes == pending = {} => Samples = Lifetimes

------------------------------------------------------------------------------
\* The inductive invariant: for each file, what happened is in the tables or in
\* a line that is not read yet.

TypeOK ==
    /\ now \in 0 .. MaxTime /\ where \in [Files -> Levels \cup {Nowhere}]
    /\ born \in [Files -> 0 .. MaxTime \cup {Never}]
    /\ died \in [Files -> 0 .. MaxTime \cup {Never}]
    /\ moves \subseteq Files /\ last \in 0 .. MaxTime /\ pending \subseteq Lines
    /\ created \in [Files -> [time : 0 .. MaxTime, level : Levels \cup {Nowhere}] \cup {Unknown}]
    /\ deleted \in [Files -> 0 .. MaxTime \cup {Never}]
    /\ moved \subseteq Files /\ move_destination \in [Files -> Levels \cup {Nowhere}]
    /\ final_time \in 0 .. MaxTime /\ use_move_destination \in BOOLEAN

Pending(event, f) == {line \in pending : line.event = event /\ line.file = f}
PendingMoves(f) == {line \in pending : IsMove(line) /\ line.file = f}

ClockInv ==
    /\ last <= now /\ final_time <= last
    /\ \A line \in pending : line.event # "moved" => line.time <= last
    /\ final_time = last \/ \E line \in pending : line.event # "moved" /\ line.time = last
    /\ \A f \in Files : born[f] <= last /\ (died[f] # Never => born[f] <= died[f])

CreationInv ==
    \A f \in Files :
        /\ born[f] # Never => where[f] # Nowhere
        /\ \A line \in Pending("creation", f) :
            born[f] # Never /\ line.time = born[f] /\ (f \notin moves => line.level = where[f])
        /\ created[f] # Unknown =>
            born[f] # Never /\ created[f].time = born[f]
            /\ (f \notin moves => created[f].level = where[f])
        /\ born[f] # Never => created[f] # Unknown \/ Pending("creation", f) # {}

DeletionInv ==
    \A f \in Files :
        /\ died[f] # Never => where[f] # Nowhere
        /\ \A line \in Pending("deletion", f) : died[f] # Never /\ line.time = died[f]
        /\ deleted[f] # Never => deleted[f] = died[f]
        /\ died[f] # Never => deleted[f] # Never \/ Pending("deletion", f) # {}

MoveInv ==
    /\ moved \subseteq moves
    /\ \A f \in Files :
        /\ \A line \in PendingMoves(f) : f \in moves /\ line.level = where[f]
        /\ f \in moves => where[f] # Nowhere
        /\ f \in moves => (f \in moved /\ move_destination[f] = where[f]) \/ PendingMoves(f) # {}
        /\ f \notin moved => move_destination[f] = Nowhere

IInv == TypeOK /\ ClockInv /\ CreationInv /\ DeletionInv /\ MoveInv
================================================================================
