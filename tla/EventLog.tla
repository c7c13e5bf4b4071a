------------------------------ MODULE EventLog ------------------------------
(***************************************************************************)
(* The process of the Rust server and its event table: main (main.rs,      *)
(* server.rs) opens the table and serves until the UI or a signal ends it, *)
(* the UI thread reads the table, tasks push to it, all under one mutex    *)
(* that a panic poisons, and `dumbtool events --clear` empties it while no *)
(* server has the database open.  What the tasks do is in DumbServer.      *)
(***************************************************************************)
EXTENDS Naturals, Sequences, FiniteSets, SequencesExt

CONSTANT
    MaxStarts       \* bound: starts of the server

VARIABLES
    proc,           \* "down", "starting", "bound", "up" or "closing"
    starts,         \* starts so far
    ui,             \* the UI thread: "runs", or "none": headless, or ended
    stored,         \* the keyspace: the event under each key, from key 0 on
    length,         \* EventsTable::len
    poisoned,       \* the mutex of EVENTS_TABLE
    cleared         \* history: code events that were cleared

procVars == <<proc, starts, ui>>
logVars == <<stored, length, poisoned, cleared>>

\* A code was given out, or anything else.
Events == {"code", "other"}

CodeKeys == {k \in 1..Len(stored) : stored[k] = "code"}

CodeEvents == Cardinality(CodeKeys)

LogInit ==
    /\ proc = "down" /\ starts = 0 /\ ui = "none"
    /\ stored = << >> /\ length = 0 /\ poisoned = FALSE /\ cleared = 0

\* EVENTS_TABLE was set.
Opened == proc \in {"bound", "up", "closing"}

-----------------------------------------------------------------------------
(* Event::dispatch                                                         *)

\* Keyspace::insert under the key `length`.
Inserted(k) == SubSeq(stored, 1, length) \o <<k>>
                   \o SubSeq(stored, length + 2, Len(stored))

Pushed(k) ==
    /\ ~poisoned
    /\ stored' = Inserted(k)
    /\ length' = length + 1
    /\ UNCHANGED <<poisoned, cleared>>

\* Mutant of Poisons: the panic is caught before the guard is dropped.
PoisonsNot == FALSE

\* A panic while the guard of the mutex is alive.
Poisons == TRUE

\* The mutex is poisoned, or the insert fails; the event may be stored all the
\* same, but is not counted.
Panicked(k) ==
    /\ poisoned' = (poisoned \/ Poisons)
    /\ \/ UNCHANGED stored
       \/ ~poisoned /\ stored' = Inserted(k)
    /\ UNCHANGED <<length, cleared>>

Dispatch(k) == Pushed(k) \/ Panicked(k)

-----------------------------------------------------------------------------
(* main                                                                    *)

\* The database is open and the UI thread is spawned.
Launch ==
    /\ proc = "down" /\ starts < MaxStarts
    /\ proc' = "starting" /\ starts' = starts + 1
    /\ ui' \in {"none", "runs"}
    /\ poisoned' = FALSE
    /\ UNCHANGED <<stored, length, cleared>>

\* Mutant of OpenedLength: a table always starts with its first key.
OpenedLengthZero == 0

\* EventsTable::open: Keyspace::len counts the keys.
OpenedLength == Len(stored)

\* server::main sets the tables and binds the port.
OpenTables ==
    /\ proc = "starting"
    /\ proc' = "bound"
    /\ length' = OpenedLength
    /\ UNCHANGED <<starts, ui, stored, poisoned, cleared>>

\* main ends, or panics, and all threads with it.
Exited == proc' = "down" /\ ui' = "none" /\ UNCHANGED starts

\* "Starting server", then axum::serve.
Serve ==
    /\ proc = "bound"
    /\ \/ Pushed("other") /\ proc' = "up" /\ UNCHANGED <<starts, ui>>
       \/ Panicked("other") /\ Exited

\* The UI's end, however it came, or a signal.
Shutdown ==
    /\ proc = "up"
    /\ proc' = "closing"
    /\ UNCHANGED <<starts, ui, logVars>>

\* The handlers have ended: "Shutting down server".
Finish ==
    /\ proc = "closing"
    /\ Dispatch("other")
    /\ Exited

\* A table cannot be opened, the port is taken, or the process is killed.
Killed ==
    /\ proc # "down"
    /\ Exited
    /\ UNCHANGED logVars

-----------------------------------------------------------------------------
(* The UI thread and the tool                                              *)

\* events_list_reload, when the events are opened or reloaded: it panics on a
\* table that is not set yet or poisoned, and on an event that it cannot
\* decode, then with the mutex locked.
UiReads ==
    /\ ui = "runs"
    /\ \/ /\ Opened /\ ~poisoned
          /\ UNCHANGED <<ui, poisoned>>
       \/ /\ ~Opened \/ poisoned
          /\ ui' = "none" /\ UNCHANGED poisoned
       \/ /\ Opened /\ length > 0
          /\ ui' = "none" /\ poisoned' = (poisoned \/ Poisons)
    /\ UNCHANGED <<proc, starts, stored, length, cleared>>

\* "Shutdown server", or the terminal is gone.
UiEnds ==
    /\ ui = "runs"
    /\ ui' = "none"
    /\ UNCHANGED <<proc, starts, logVars>>

\* dumbtool events --clear: the database is locked while a server has it open.
Clear ==
    /\ proc = "down" /\ stored # << >>
    /\ stored' = << >>
    /\ cleared' = cleared + CodeEvents
    /\ UNCHANGED <<procVars, length, poisoned>>

LogNext == \/ Launch \/ OpenTables \/ Serve \/ Shutdown
           \/ UiReads \/ UiEnds \/ Clear

-----------------------------------------------------------------------------

\* tables.rs:44, insert under `len` and then count: whatever is stored stays
\* as it is and where it is, however tasks, failed inserts, panics of the UI
\* and restarts, after which the keys are counted anew, follow each other.
EventsKept ==
    [][(proc # "down") => IsPrefix(stored, stored')]_<<stored, proc>>

=============================================================================
