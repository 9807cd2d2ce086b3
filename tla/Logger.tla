------------------------------- MODULE Logger -------------------------------
(***************************************************************************)
(* The per-thread log buffers and the log thread (core/src/log.cpp 30-123, *)
(* 308-345, mms/log/log.h).  Each thread appends to its own buffer without *)
(* a lock; the log thread, and the owner when its buffer is full or its    *)
(* thread ends, write the bytes between next_read and next_write to the    *)
(* file.  Every flush holds logger_list's mutex and then the logger's.     *)
(*                                                                         *)
(* A byte of an entry is <<number, i>>: the i-th byte of the thread's      *)
(* number-th entry.  Offsets stand for the pointers into the buffer.       *)
(***************************************************************************)
EXTENDS Integers, Sequences, FiniteSets

CONSTANTS Loggers,     \* the threads' loggers
          Cap,         \* init_log_memory
          EntrySizes,  \* sizeof(logger_logs_entry<...>)
          MaxEntries   \* bound: entries of one thread

\* An entry (at most 240 bytes) is far smaller than the buffer (1 MB).
ASSUME LoggerAssumption ==
  /\ Cap \in Nat /\ MaxEntries \in Nat /\ \A n \in EntrySizes : n \in 1..(Cap - 1)
  /\ "none" \notin Loggers /\ "log" \notin Loggers

VARIABLES
  memory, next_write, next_read,  \* per logger; memory is <<>> before the first entry
  logged,        \* per logger: all bytes of entries whose log() has returned
  owner,         \* per logger: what its thread is doing
  entry,         \* per logger: the bytes log() is about to copy
  logger_store,  \* loggers the list knows
  flushing,      \* the flush under way: by, of (a logger or "none"), upto, todo
  file,          \* sequence of <<logger, byte>>
  failed,        \* a write failed or was short
  thread,        \* the log thread
  log_thread_running,
  joining        \* destroy_log_thread waits in join

logVars == <<memory, next_write, next_read, logged, owner, entry, logger_store,
             flushing, file, failed, thread, log_thread_running, joining>>
buffers == <<memory, next_write, next_read>>
written == <<file, failed>>
threads == <<thread, log_thread_running, joining>>

Idle == [by |-> "none", of |-> "none", upto |-> 0, todo |-> {}]

LogInit ==
  /\ memory = [l \in Loggers |-> <<>>]
  /\ next_write = [l \in Loggers |-> 0] /\ next_read = [l \in Loggers |-> 0]
  /\ logged = [l \in Loggers |-> <<>>] /\ entry = [l \in Loggers |-> <<>>]
  /\ owner = [l \in Loggers |-> "new"] /\ logger_store = {}
  /\ flushing = Idle /\ file = <<>> /\ failed = FALSE
  /\ thread = "new" /\ log_thread_running = FALSE /\ joining = FALSE

-----------------------------------------------------------------------------
(***************************************************************************)
(* The owner.                                                              *)
(***************************************************************************)
Goes(l, from, to) == owner[l] = from /\ owner' = [owner EXCEPT ![l] = to]

\* logger::logger: logger_list::add under the list's mutex.
Construct(l) ==
  /\ Goes(l, "new", "idle") /\ flushing = Idle
  /\ logger_store' = logger_store \cup {l}
  /\ UNCHANGED <<buffers, logged, entry, flushing, written, threads>>

Count(l) == IF logged[l] = <<>> THEN 0 ELSE logged[l][Len(logged[l])][1]
Entry(l, n) == [i \in 1..n |-> <<Count(l) + 1, i>>]

\* log(): an enabled entry.  Without a buffer both pointers are null, and
\* new_next_write >= buffer_end.
Log(l) ==
  \E n \in EntrySizes :
    /\ Count(l) < MaxEntries
    /\ entry' = [entry EXCEPT ![l] = Entry(l, n)]
    /\ Goes(l, "idle", IF memory[l] = <<>> THEN "allocate"
                       ELSE IF next_write[l] + n >= Cap THEN "replinish" ELSE "copy")
    /\ UNCHANGED <<buffers, logged, logger_store, flushing, written, threads>>

\* replinish, first call: under the logger's mutex.
Allocate(l) ==
  /\ Goes(l, "allocate", "copy") /\ flushing.of # l
  /\ memory' = [memory EXCEPT ![l] = [i \in 1..Cap |-> <<0, 0>>]]
  /\ next_write' = [next_write EXCEPT ![l] = 0] /\ next_read' = [next_read EXCEPT ![l] = 0]
  /\ UNCHANGED <<logged, entry, logger_store, flushing, written, threads>>

\* logger_list::flush(this), from replinish and from ~logger.
FlushOwn(l) ==
  /\ \/ Goes(l, "replinish", "flushing")
     \/ Goes(l, "idle", "ending")
  /\ flushing = Idle /\ flushing' = [Idle EXCEPT !.by = l, !.todo = {l}]
  /\ UNCHANGED <<buffers, logged, entry, logger_store, written, threads>>

\* Mutated: the pointers are rewound without waiting for the flush.
RewindUnflushed(l) ==
  /\ owner[l] \in {"replinish", "rewind"} /\ flushing.of # l
  /\ owner' = [owner EXCEPT ![l] = "copy"]
  /\ next_write' = [next_write EXCEPT ![l] = 0] /\ next_read' = [next_read EXCEPT ![l] = 0]
  /\ UNCHANGED <<memory, logged, entry, logger_store, flushing, written, threads>>

\* replinish, after the flush: both pointers back to the start, under the mutex.
Rewind(l) ==
  /\ Goes(l, "rewind", "copy") /\ flushing.of # l
  /\ next_write' = [next_write EXCEPT ![l] = 0] /\ next_read' = [next_read EXCEPT ![l] = 0]
  /\ UNCHANGED <<memory, logged, entry, logger_store, flushing, written, threads>>

\* The bytes, and afterwards the pointer, without a lock.
Copy(l) ==
  /\ Goes(l, "copy", "advance")
  /\ memory' = [memory EXCEPT ![l] =
       [i \in 1..Cap |-> IF i - next_write[l] \in 1..Len(entry[l])
                         THEN entry[l][i - next_write[l]] ELSE @[i]]]
  /\ UNCHANGED <<next_write, next_read, logged, entry, logger_store, flushing, written, threads>>

Advance(l) ==
  /\ Goes(l, "advance", "idle")
  /\ next_write' = [next_write EXCEPT ![l] = @ + Len(entry[l])]
  /\ logged' = [logged EXCEPT ![l] = @ \o entry[l]] /\ entry' = [entry EXCEPT ![l] = <<>>]
  /\ UNCHANGED <<memory, next_read, logger_store, flushing, written, threads>>

\* ~logger, after its flush: logger_list::remove.
RemoveLogger(l) ==
  /\ Goes(l, "remove", "gone") /\ flushing = Idle
  /\ logger_store' = logger_store \ {l}
  /\ UNCHANGED <<buffers, logged, entry, flushing, written, threads>>

-----------------------------------------------------------------------------
(***************************************************************************)
(* logger::flush, for each logger of the flush under way.                  *)
(***************************************************************************)
\* The logger's mutex, and the end of what will be written.
FlushTake ==
  /\ flushing.of = "none"
  /\ \E l \in flushing.todo :
       flushing' = [flushing EXCEPT !.of = l, !.upto = next_write[l], !.todo = @ \ {l}]
  /\ UNCHANGED <<buffers, logged, owner, entry, logger_store, written, threads>>

Bytes(l, from, to) == [i \in 1..(to - from) |-> <<l, memory[l][from + i]>>]

\* write() and next_read: a failure is reported on the console, a short count
\* is not looked at, and next_read moves to the end in every case.
FlushWrite ==
  LET l == flushing.of
      all == Bytes(l, next_read[l], flushing.upto)
  IN  /\ l # "none"
      /\ \E n \in 0..Len(all) :
           file' = file \o SubSeq(all, 1, n) /\ failed' = (failed \/ n < Len(all))
      /\ next_read' = [next_read EXCEPT ![l] = flushing.upto]
      /\ flushing' = [flushing EXCEPT !.of = "none", !.upto = 0]
      /\ UNCHANGED <<memory, next_write, logged, owner, entry, logger_store, threads>>

\* The list's mutex is released and the caller goes on.
FlushDone ==
  /\ flushing.by # "none" /\ flushing.of = "none" /\ flushing.todo = {}
  /\ flushing' = Idle
  /\ owner' = [l \in Loggers |->
       IF flushing.by # l THEN owner[l] ELSE IF owner[l] = "flushing" THEN "rewind" ELSE "remove"]
  /\ thread' = (IF flushing.by # "log" THEN thread
                ELSE IF thread = "final" THEN "ended"
                ELSE IF log_thread_running THEN "sleep" ELSE "last")
  /\ UNCHANGED <<buffers, logged, entry, logger_store, written, log_thread_running, joining>>

-----------------------------------------------------------------------------
(***************************************************************************)
(* log_thread_function: a flush of all loggers every 200 ms, and one after *)
(* the loop.  destroy_log_thread clears the flag and joins.                *)
(***************************************************************************)
ThreadStarts ==
  /\ thread = "new" /\ thread' = "sleep" /\ log_thread_running' = TRUE
  /\ UNCHANGED <<buffers, logged, owner, entry, logger_store, flushing, written, joining>>

ThreadFlushes ==
  /\ \/ thread = "sleep" /\ thread' = "flush"
     \/ thread = "last" /\ thread' = "final"
  /\ flushing = Idle /\ flushing' = [Idle EXCEPT !.by = "log", !.todo = logger_store]
  /\ UNCHANGED <<buffers, logged, owner, entry, logger_store, written, log_thread_running, joining>>

destroy_log_thread ==
  /\ ~joining /\ joining' = TRUE /\ log_thread_running' = FALSE
  /\ UNCHANGED <<buffers, logged, owner, entry, logger_store, flushing, written, thread>>

LogNext ==
  \/ \E l \in Loggers : \/ Construct(l) \/ Log(l) \/ Allocate(l) \/ FlushOwn(l) \/ Rewind(l)
                        \/ Copy(l) \/ Advance(l) \/ RemoveLogger(l)
  \/ FlushTake \/ FlushWrite \/ FlushDone
  \/ ThreadStarts \/ ThreadFlushes \/ destroy_log_thread

LogSpec == LogInit /\ [][LogNext]_logVars

-----------------------------------------------------------------------------
\* How many bytes of a logger are in the file, and which of them the i-th byte of
\* the file is.
Sent(l) == Cardinality({j \in 1..Len(file) : file[j][1] = l})
Nth(i)  == Cardinality({j \in 1..i : file[j][1] = file[i][1]})
Waiting(l) == next_write[l] - next_read[l]

\* As long as every write to the file was complete, the file and the buffer
\* together hold every byte a thread has logged, once and in order, although the
\* owner appends without a lock while another thread flushes; a logger that is
\* gone has everything in the file; and the file never holds a part of an entry,
\* so a reader stays in step (log.h:246-265, log.cpp:88-123).
LogComplete ==
  ~failed =>
    /\ \A i \in 1..Len(file) : /\ Nth(i) <= Len(logged[file[i][1]])
                               /\ file[i][2] = logged[file[i][1]][Nth(i)]
    /\ \A l \in Loggers :
         /\ Sent(l) + Waiting(l) = Len(logged[l])
         /\ \A k \in 1..Waiting(l) : memory[l][next_read[l] + k] = logged[l][Sent(l) + k]
         /\ owner[l] = "gone" => Waiting(l) = 0
    /\ \A i \in 1..Len(file) : i = 1 \/ file[i - 1][1] # file[i][1] => file[i][2][2] = 1
=============================================================================
