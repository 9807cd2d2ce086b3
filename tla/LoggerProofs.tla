---------------------------- MODULE LoggerProofs ----------------------------
(***************************************************************************)
(* LogComplete and ReaderFaithful for every value of the constants.        *)
(*                                                                         *)
(* LogComplete is not inductive.  It needs                                 *)
(*   - Control: where the pointers of a logger stand at each point of its  *)
(*     owner and of the flush.  Everything waits in memory before          *)
(*     next_write; the entry fits behind it before Copy; a flush of l ends *)
(*     between next_read and next_write, and exactly at next_write when    *)
(*     the owner itself waits for it, which is why Rewind finds nothing    *)
(*     waiting;                                                            *)
(*   - EntryEnds: the file of a logger, and the flush that is about to     *)
(*     write, both stop at the end of an entry, because next_write moves   *)
(*     once per entry and only after the bytes are in place.               *)
(* FileOK counts the bytes of a logger in a prefix of the file; Upto is    *)
(* that count for any sequence, and UptoRun what appending does to it.     *)
(*                                                                         *)
(* ReaderFaithful is two claims.  A format string that compiles is read as *)
(* it was typed (ReadsTheTypes): one step of the reader is one of the type *)
(* list unless that adds a bad type (StepSame), and a bad type stays.  The *)
(* order of display needs ReaderInv: what waits is no older than what was  *)
(* shown, and until the file ends each entry shown has one in the file     *)
(* that is buffer_time later.                                              *)
(***************************************************************************)
EXTENDS Logger, LogReader, SequenceTheorems, FiniteSetTheorems, WellFoundedInduction, TLAPS

\* A byte of an entry, and where a thread can be.
Byte == Nat \X Nat
Owners == {"new", "idle", "allocate", "replinish", "flushing", "rewind", "copy", "advance",
           "ending", "remove", "gone"}

\* Types of the loggers, and of the flush under way.
LogTypes ==
  /\ DOMAIN memory = Loggers
  /\ next_write \in [Loggers -> Nat] /\ next_read \in [Loggers -> Nat]
  /\ logged \in [Loggers -> Seq(Byte)] /\ entry \in [Loggers -> Seq(Byte)]
  /\ owner \in [Loggers -> Owners]
  /\ logger_store \subseteq Loggers
  /\ DOMAIN flushing = {"by", "of", "upto", "todo"}
  /\ flushing.by \in Loggers \cup {"none", "log"}
  /\ flushing.of \in Loggers \cup {"none"} /\ flushing.upto \in Nat
  /\ flushing.todo \subseteq Loggers
  /\ failed \in BOOLEAN

\* An entry that is being logged: it fits into the buffer and starts with byte 1.
EntryOK(l) ==
  Len(entry[l]) \in 1..(Cap - 1) /\ entry[l][1][2] = 1

\* What a thread inside log() or ~logger knows of its buffer.
OwnerControl(l) ==
  /\ next_read[l] <= next_write[l]
  /\ memory[l] = <<>> => next_write[l] = 0
  /\ owner[l] = "allocate" => next_write[l] = 0
  /\ owner[l] \in {"allocate", "replinish", "flushing", "rewind", "copy", "advance"} => EntryOK(l)
  /\ owner[l] \in {"copy", "advance"} => next_write[l] + Len(entry[l]) <= Cap
  /\ owner[l] = "advance" =>
       /\ memory[l] # <<>>
       /\ \A k \in 1..Len(entry[l]) : memory[l][next_write[l] + k] = entry[l][k]
  /\ owner[l] \in {"rewind", "remove", "gone"} => next_read[l] = next_write[l]

\* Who waits for the flush under way, and how far it will get.
FlushControl(l) ==
  /\ owner[l] \in {"flushing", "ending"} <=> flushing.by = l
  /\ flushing.of = l => flushing.upto \in next_read[l]..next_write[l]
  /\ flushing.by = l /\ flushing.of = l => flushing.upto = next_write[l]
  /\ flushing.by = l /\ flushing.of # l /\ l \notin flushing.todo => next_read[l] = next_write[l]

\* What does not mention the bytes.
Control == LogTypes /\ \A l \in Loggers : OwnerControl(l) /\ FlushControl(l)

\* The p-th byte of a logger ends an entry.
EntryEnds(l, p) == p = Len(logged[l]) \/ logged[l][p + 1][2] = 1

\* The bytes of a logger, in the buffer and in the file.
BytesOK(l) ==
  /\ Sent(l) \in Nat /\ Sent(l) + Waiting(l) = Len(logged[l])
  /\ \A k \in 1..Waiting(l) : memory[l][next_read[l] + k] = logged[l][Sent(l) + k]
  /\ EntryEnds(l, Sent(l))
  /\ flushing.of = l => EntryEnds(l, Sent(l) + (flushing.upto - next_read[l]))

\* The bytes of the file are those the loggers logged, and a run of bytes of one
\* logger begins with an entry.
FileOK ==
  /\ file \in Seq(Loggers \X Byte)
  /\ \A i \in 1..Len(file) :
       /\ Nth(i) \in 1..Sent(file[i][1])
       /\ file[i][2] = logged[file[i][1]][Nth(i)]
       /\ i = 1 \/ file[i - 1][1] # file[i][1] => file[i][2][2] = 1

\* The inductive invariant.
LogInv == Control /\ (~failed => FileOK /\ \A l \in Loggers : BytesOK(l))

\* Initially nobody is inside log() and no flush is under way.
LEMMA InitControl == ASSUME LogInit PROVE Control
<1>1. <<>> \in Seq(Byte)
  OBVIOUS
<1>2. LogTypes
  BY <1>1, Zenon DEF LogInit, LogTypes, Idle, Owners
<1>3. ASSUME NEW l \in Loggers PROVE OwnerControl(l) /\ FlushControl(l)
  BY LoggerAssumption DEF LogInit, Idle, OwnerControl, FlushControl
<1> QED BY <1>2, <1>3 DEF Control

\* The number of an entry of a thread is a number.
LEMMA CountIsNat ==
  ASSUME LogTypes, NEW l \in Loggers
  PROVE  Count(l) \in Nat
<1>1. logged[l] \in Seq(Byte)
  BY DEF LogTypes
<1>2. CASE logged[l] = <<>>
  BY <1>2 DEF Count
<1>3. CASE logged[l] # <<>>
  <2>1. Len(logged[l]) \in 1..Len(logged[l])
    BY <1>1, <1>3, EmptySeq, LenProperties
  <2>2. logged[l][Len(logged[l])] \in Byte
    BY <1>1, <2>1, ElementOfSeq
  <2> QED BY <1>3, <2>2 DEF Count, Byte
<1> QED BY <1>2, <1>3

\* An entry that log() builds fits into the buffer and starts with its byte 1.
LEMMA EntryFacts ==
  ASSUME LogTypes, NEW l \in Loggers, NEW n \in EntrySizes, NEW e, e = Entry(l, n)
  PROVE  e \in Seq(Byte) /\ Len(e) = n /\ n \in 1..(Cap - 1) /\ e[1][2] = 1
<1>1. n \in Nat /\ n >= 1 /\ n \in 1..(Cap - 1)
  BY LoggerAssumption
<1>2. e = [i \in 1..n |-> <<Count(l) + 1, i>>]
  BY DEF Entry
<1>3. Count(l) + 1 \in Nat
  BY CountIsNat
<1>4. \A i \in 1..n : e[i] = <<Count(l) + 1, i>> /\ e[i] \in Byte
  BY <1>1, <1>2, <1>3 DEF Byte
<1>5. e \in [1..n -> Byte]
  BY <1>2, <1>4
<1>6. e \in Seq(Byte) /\ Len(e) = n
  BY <1>1, <1>5
<1> QED BY <1>1, <1>4, <1>6

\* A logger that a step does not touch keeps its control.
LEMMA OwnerSame ==
  ASSUME NEW k \in Loggers, OwnerControl(k),
         memory'[k] = memory[k], next_write'[k] = next_write[k], next_read'[k] = next_read[k],
         entry'[k] = entry[k], owner'[k] = owner[k]
  PROVE  OwnerControl(k)'
BY DEF OwnerControl, EntryOK

\* A logger whose pointers and owner a step does not touch, while the flush goes on.
LEMMA FlushSame ==
  ASSUME NEW k \in Loggers, FlushControl(k), flushing' = flushing, next_write'[k] = next_write[k],
         next_read'[k] = next_read[k], owner'[k] = owner[k]
  PROVE  FlushControl(k)'
BY DEF FlushControl

\* logger::logger keeps the control part.
LEMMA ConstructControl ==
  ASSUME Control, NEW l \in Loggers, Construct(l)
  PROVE  Control'
<1>1. /\ logger_store' = logger_store \cup {l} /\ flushing' = flushing
      /\ UNCHANGED <<memory, next_write, next_read, logged, entry, failed>>
      /\ owner[l] = "new" /\ owner' = [owner EXCEPT ![l] = "idle"]
  BY DEF Construct, Goes, buffers, written
<1>2. LogTypes'
  BY <1>1 DEF Control, LogTypes, Owners
<1>3. ASSUME NEW k \in Loggers PROVE OwnerControl(k)' /\ FlushControl(k)'
  <2>1. CASE k = l
    <3>1. owner'[k] = "idle"
      BY <1>1, <2>1 DEF Control, LogTypes
    <3> QED BY <1>1, <2>1, <3>1 DEF Control, OwnerControl, FlushControl, EntryOK
  <2>2. CASE k # l
    <3>1. owner'[k] = owner[k]
      BY <1>1, <2>2 DEF Control, LogTypes
    <3> QED BY <1>1, <3>1, OwnerSame, FlushSame DEF Control
  <2> QED BY <2>1, <2>2
<1> QED BY <1>2, <1>3 DEF Control

\* log() goes to the copy only when the entry fits behind next_write.
LEMMA LogControl ==
  ASSUME Control, NEW l \in Loggers, Log(l)
  PROVE  Control'
<1>1. PICK n \in EntrySizes :
        /\ entry' = [entry EXCEPT ![l] = Entry(l, n)]
        /\ owner[l] = "idle"
        /\ owner' = [owner EXCEPT ![l] = IF memory[l] = <<>> THEN "allocate"
                       ELSE IF next_write[l] + n >= Cap THEN "replinish" ELSE "copy"]
        /\ UNCHANGED <<memory, next_write, next_read, logged, logger_store, flushing, failed>>
  BY DEF Log, Goes, buffers, written
<1> DEFINE e == Entry(l, n)
<1> DEFINE to == IF memory[l] = <<>> THEN "allocate"
                 ELSE IF next_write[l] + n >= Cap THEN "replinish" ELSE "copy"
<1>2. e \in Seq(Byte) /\ Len(e) = n /\ n \in 1..(Cap - 1) /\ e[1][2] = 1 /\ Cap \in Nat
  BY EntryFacts, LoggerAssumption DEF Control
<1>3. /\ entry' = [entry EXCEPT ![l] = e] /\ owner' = [owner EXCEPT ![l] = to]
      /\ to \in {"allocate", "replinish", "copy"}
      /\ to = "allocate" => memory[l] = <<>>
      /\ to = "copy" => next_write[l] + n < Cap
  <2>1. next_write[l] \in Nat
    BY DEF Control, LogTypes
  <2>2. to = "copy" => ~(next_write[l] + n >= Cap)
    OBVIOUS
  <2>3. to = "copy" => next_write[l] + n < Cap
    <3> HIDE DEF to
    <3> QED BY <1>2, <2>1, <2>2
  <2> QED BY <1>1, <2>3
<1> HIDE DEF e, to
<1>4. LogTypes'
  BY <1>1, <1>2, <1>3 DEF Control, LogTypes, Owners
<1>5. ASSUME NEW k \in Loggers PROVE OwnerControl(k)' /\ FlushControl(k)'
  <2>1. CASE k = l
    <3>1. owner'[k] = to /\ entry'[k] = e
      BY <1>3, <2>1 DEF Control, LogTypes
    <3>2. EntryOK(k)'
      BY <1>2, <3>1 DEF EntryOK
    <3>3. OwnerControl(k)
      BY DEF Control
    <3>4. next_write[k] \in Nat
      BY DEF Control, LogTypes
    <3>5. OwnerControl(k)'
      BY <1>1, <1>2, <1>3, <2>1, <3>1, <3>2, <3>3, <3>4 DEF OwnerControl
    <3>6. FlushControl(k)'
      BY <1>1, <1>3, <2>1, <3>1 DEF Control, FlushControl
    <3> QED BY <3>5, <3>6
  <2>2. CASE k # l
    <3>1. owner'[k] = owner[k] /\ entry'[k] = entry[k]
      BY <1>3, <2>2 DEF Control, LogTypes
    <3> QED BY <1>1, <3>1, OwnerSame, FlushSame DEF Control
  <2> QED BY <2>1, <2>2
<1> QED BY <1>4, <1>5 DEF Control

\* The first buffer of a thread starts empty.
LEMMA AllocateControl ==
  ASSUME Control, NEW l \in Loggers, Allocate(l)
  PROVE  Control'
<1> DEFINE blank == [i \in 1..Cap |-> <<0, 0>>]
<1>1. /\ owner[l] = "allocate" /\ owner' = [owner EXCEPT ![l] = "copy"] /\ flushing.of # l
      /\ memory' = [memory EXCEPT ![l] = blank]
      /\ next_write' = [next_write EXCEPT ![l] = 0] /\ next_read' = [next_read EXCEPT ![l] = 0]
      /\ UNCHANGED <<logged, entry, logger_store, flushing, failed>>
  BY DEF Allocate, Goes, written
<1> HIDE DEF blank
<1>2. LogTypes'
  BY <1>1 DEF Control, LogTypes, Owners
<1>3. ASSUME NEW k \in Loggers PROVE OwnerControl(k)' /\ FlushControl(k)'
  <2>1. CASE k = l
    <3>1. owner'[k] = "copy" /\ next_write'[k] = 0 /\ next_read'[k] = 0 /\ entry'[k] = entry[k]
      BY <1>1, <2>1 DEF Control, LogTypes
    <3>2. EntryOK(k) /\ Cap \in Nat
      BY <1>1, <2>1, LoggerAssumption DEF Control, OwnerControl
    <3>3. EntryOK(k)' /\ Len(entry'[k]) <= Cap
      BY <3>1, <3>2 DEF EntryOK
    <3>4. OwnerControl(k)'
      BY <3>1, <3>3 DEF OwnerControl, EntryOK
    <3>5. FlushControl(k)'
      BY <1>1, <2>1, <3>1 DEF Control, FlushControl
    <3> QED BY <3>4, <3>5
  <2>2. CASE k # l
    <3>1. /\ owner'[k] = owner[k] /\ memory'[k] = memory[k]
          /\ next_write'[k] = next_write[k] /\ next_read'[k] = next_read[k]
      BY <1>1, <2>2 DEF Control, LogTypes
    <3> QED BY <1>1, <3>1, OwnerSame, FlushSame DEF Control
  <2> QED BY <2>1, <2>2
<1> QED BY <1>2, <1>3 DEF Control

\* The owner that starts a flush waits for it.
LEMMA FlushOwnControl ==
  ASSUME Control, NEW l \in Loggers, FlushOwn(l)
  PROVE  Control'
<1>1. /\ \/ owner[l] = "replinish" /\ owner' = [owner EXCEPT ![l] = "flushing"]
         \/ owner[l] = "idle" /\ owner' = [owner EXCEPT ![l] = "ending"]
      /\ flushing = Idle /\ flushing' = [Idle EXCEPT !.by = l, !.todo = {l}]
      /\ UNCHANGED <<memory, next_write, next_read, logged, entry, logger_store, failed>>
  BY DEF FlushOwn, Goes, buffers, written
<1>2. /\ DOMAIN flushing' = {"by", "of", "upto", "todo"}
      /\ flushing'.by = l /\ flushing'.of = "none" /\ flushing'.upto = 0 /\ flushing'.todo = {l}
      /\ flushing.by = "none" /\ flushing.of = "none"
  <2>1. flushing.by = "none" /\ flushing.of = "none"
    BY <1>1 DEF Idle
  <2>2. flushing' = [Idle EXCEPT !.by = l, !.todo = {l}]
    BY <1>1
  <2> QED BY <2>1, <2>2, Zenon DEF Idle
<1>3. LogTypes'
  BY <1>1, <1>2 DEF Control, LogTypes, Owners
<1>4. "none" \notin Loggers
  BY LoggerAssumption
<1>5. ASSUME NEW k \in Loggers PROVE OwnerControl(k)' /\ FlushControl(k)'
  <2>1. CASE k = l
    <3>1. owner'[k] \in {"flushing", "ending"} /\ (owner'[k] = "flushing" => owner[k] = "replinish")
      BY <1>1, <2>1 DEF Control, LogTypes
    <3>2. OwnerControl(k)'
      BY <1>1, <3>1 DEF Control, OwnerControl, EntryOK
    <3>3. FlushControl(k)'
      BY <1>2, <1>4, <2>1, <3>1 DEF FlushControl
    <3> QED BY <3>2, <3>3
  <2>2. CASE k # l
    <3>1. owner'[k] = owner[k]
      BY <1>1, <2>2 DEF Control, LogTypes
    <3>2. OwnerControl(k)'
      BY <1>1, <3>1, OwnerSame DEF Control
    <3>3. owner[k] \notin {"flushing", "ending"}
      BY <1>2, <1>4 DEF Control, FlushControl
    <3>4. FlushControl(k)'
      BY <1>2, <1>4, <2>2, <3>1, <3>3 DEF FlushControl
    <3> QED BY <3>2, <3>4
  <2> QED BY <2>1, <2>2
<1> QED BY <1>3, <1>5 DEF Control

\* After its own flush the owner puts back both pointers, and the entry fits.
LEMMA RewindControl ==
  ASSUME Control, NEW l \in Loggers, Rewind(l)
  PROVE  Control'
<1>1. /\ owner[l] = "rewind" /\ owner' = [owner EXCEPT ![l] = "copy"] /\ flushing.of # l
      /\ next_write' = [next_write EXCEPT ![l] = 0] /\ next_read' = [next_read EXCEPT ![l] = 0]
      /\ UNCHANGED <<memory, logged, entry, logger_store, flushing, failed>>
  BY DEF Rewind, Goes, written
<1>2. LogTypes'
  BY <1>1 DEF Control, LogTypes, Owners
<1>3. ASSUME NEW k \in Loggers PROVE OwnerControl(k)' /\ FlushControl(k)'
  <2>1. CASE k = l
    <3>1. owner'[k] = "copy" /\ next_write'[k] = 0 /\ next_read'[k] = 0
      BY <1>1, <2>1 DEF Control, LogTypes
    <3>2. EntryOK(k) /\ Cap \in Nat
      BY <1>1, <2>1, LoggerAssumption DEF Control, OwnerControl
    <3>3. EntryOK(k)' /\ Len(entry'[k]) <= Cap
      BY <1>1, <3>2 DEF EntryOK
    <3>4. OwnerControl(k)'
      BY <3>1, <3>3 DEF OwnerControl, EntryOK
    <3>5. FlushControl(k)'
      BY <1>1, <2>1, <3>1 DEF Control, FlushControl
    <3> QED BY <3>4, <3>5
  <2>2. CASE k # l
    <3>1. /\ owner'[k] = owner[k]
          /\ next_write'[k] = next_write[k] /\ next_read'[k] = next_read[k]
      BY <1>1, <2>2 DEF Control, LogTypes
    <3> QED BY <1>1, <3>1, OwnerSame, FlushSame DEF Control
  <2> QED BY <2>1, <2>2
<1> QED BY <1>2, <1>3 DEF Control

\* Copy puts the entry behind next_write and nothing before it.
LEMMA CopyFacts ==
  ASSUME Control, NEW l \in Loggers, Copy(l)
  PROVE  /\ owner[l] = "copy" /\ owner' = [owner EXCEPT ![l] = "advance"]
         /\ UNCHANGED <<next_write, next_read, logged, entry, logger_store, flushing, file, failed>>
         /\ DOMAIN memory' = Loggers /\ \A k \in Loggers : k # l => memory'[k] = memory[k]
         /\ memory'[l] # <<>>
         /\ \A k \in 1..Len(entry[l]) : memory'[l][next_write[l] + k] = entry[l][k]
         /\ \A i \in 1..next_write[l] : memory'[l][i] = memory[l][i]
<1> DEFINE e == entry[l]
<1> DEFINE w == next_write[l]
<1> DEFINE old == memory[l]
<1> DEFINE new == [i \in 1..Cap |-> IF i - w \in 1..Len(e) THEN e[i - w] ELSE old[i]]
<1>1. /\ owner[l] = "copy" /\ owner' = [owner EXCEPT ![l] = "advance"]
      /\ UNCHANGED <<next_write, next_read, logged, entry, logger_store, flushing, file, failed>>
  BY DEF Copy, Goes, written
<1>2. memory' = [memory EXCEPT ![l] = new]
  BY DEF Copy
<1>3. w \in Nat /\ Cap \in Nat /\ Len(e) \in 1..(Cap - 1) /\ w + Len(e) <= Cap
  BY <1>1, LoggerAssumption DEF Control, LogTypes, OwnerControl, EntryOK
<1>4. /\ DOMAIN new = 1..Cap
      /\ \A i \in 1..Cap : new[i] = IF i - w \in 1..Len(e) THEN e[i - w] ELSE old[i]
  OBVIOUS
<1>5. new # <<>>
  <2>1. 1 \in DOMAIN new /\ DOMAIN <<>> = {}
    BY <1>3, <1>4
  <2> HIDE DEF new
  <2> QED BY <2>1
<1>6. DOMAIN memory = Loggers
  BY DEF Control, LogTypes
<1> HIDE DEF new
<1>7. DOMAIN memory' = Loggers /\ memory'[l] = new /\ \A k \in Loggers : k # l => memory'[k] = memory[k]
  BY <1>2, <1>6
<1> HIDE DEF e, w, old
<1>8. ASSUME NEW k \in 1..Len(e) PROVE new[w + k] = e[k]
  <2>1. w + k \in 1..Cap /\ (w + k) - w = k
    BY <1>3
  <2> QED BY <1>4, <2>1
<1>9. ASSUME NEW i \in 1..w PROVE new[i] = old[i]
  <2>1. i \in 1..Cap /\ i - w \notin 1..Len(e)
    BY <1>3
  <2> QED BY <1>4, <2>1
<1> QED BY <1>1, <1>5, <1>7, <1>8, <1>9 DEF e, w, old

\* After the copy the entry lies behind next_write.
LEMMA CopyControl ==
  ASSUME Control, NEW l \in Loggers, Copy(l)
  PROVE  Control'
<1>1. /\ owner[l] = "copy" /\ owner' = [owner EXCEPT ![l] = "advance"]
      /\ UNCHANGED <<next_write, next_read, logged, entry, logger_store, flushing, file, failed>>
      /\ DOMAIN memory' = Loggers /\ \A k \in Loggers : k # l => memory'[k] = memory[k]
      /\ memory'[l] # <<>>
      /\ \A k \in 1..Len(entry[l]) : memory'[l][next_write[l] + k] = entry[l][k]
  BY CopyFacts
<1>2. LogTypes'
  BY <1>1 DEF Control, LogTypes, Owners
<1>3. ASSUME NEW k \in Loggers PROVE OwnerControl(k)' /\ FlushControl(k)'
  <2>1. CASE k = l
    <3>1. owner'[k] = "advance"
      BY <1>1, <2>1 DEF Control, LogTypes
    <3>2. OwnerControl(k) /\ FlushControl(k)
      BY DEF Control
    <3>3. OwnerControl(k)'
      BY <1>1, <2>1, <3>1, <3>2 DEF OwnerControl, EntryOK
    <3>4. FlushControl(k)'
      BY <1>1, <2>1, <3>1, <3>2 DEF FlushControl
    <3> QED BY <3>3, <3>4
  <2>2. CASE k # l
    <3>1. owner'[k] = owner[k]
      BY <1>1, <2>2 DEF Control, LogTypes
    <3> QED BY <1>1, <2>2, <3>1, OwnerSame, FlushSame DEF Control
  <2> QED BY <2>1, <2>2
<1> QED BY <1>2, <1>3 DEF Control

\* Advance makes the copied entry part of what was logged.
LEMMA AdvanceFacts ==
  ASSUME Control, NEW l \in Loggers, Advance(l)
  PROVE  /\ owner[l] = "advance" /\ owner' = [owner EXCEPT ![l] = "idle"]
         /\ next_write' = [next_write EXCEPT ![l] = next_write[l] + Len(entry[l])]
         /\ UNCHANGED <<memory, next_read, logger_store, flushing, file, failed>>
         /\ logged' = [logged EXCEPT ![l] = logged[l] \o entry[l]]
         /\ entry' = [entry EXCEPT ![l] = <<>>]
         /\ Len(entry[l]) \in Nat /\ Len(entry[l]) >= 1
BY DEF Advance, Goes, written, Control, OwnerControl, EntryOK

\* Advance moves next_write away from a flush that has already fixed its end.
LEMMA AdvanceControl ==
  ASSUME Control, NEW l \in Loggers, Advance(l)
  PROVE  Control'
<1>1. /\ owner[l] = "advance" /\ owner' = [owner EXCEPT ![l] = "idle"]
      /\ next_write' = [next_write EXCEPT ![l] = next_write[l] + Len(entry[l])]
      /\ UNCHANGED <<memory, next_read, logger_store, flushing, file, failed>>
      /\ logged' = [logged EXCEPT ![l] = logged[l] \o entry[l]]
      /\ entry' = [entry EXCEPT ![l] = <<>>]
      /\ Len(entry[l]) \in Nat /\ Len(entry[l]) >= 1
  BY AdvanceFacts
<1>2. LogTypes'
  <2>1. logged[l] \in Seq(Byte) /\ entry[l] \in Seq(Byte) /\ <<>> \in Seq(Byte)
    BY DEF Control, LogTypes
  <2>2. PICK t : t = logged[l] \o entry[l]
    OBVIOUS
  <2>3. t \in Seq(Byte)
    BY <2>1, <2>2, ConcatProperties
  <2>4. logged' = [logged EXCEPT ![l] = t] /\ entry' = [entry EXCEPT ![l] = <<>>]
    BY <1>1, <2>2
  <2>5. logged \in [Loggers -> Seq(Byte)] /\ entry \in [Loggers -> Seq(Byte)]
    BY DEF Control, LogTypes
  <2>6. logged' \in [Loggers -> Seq(Byte)] /\ entry' \in [Loggers -> Seq(Byte)]
    BY ONLY <2>1, <2>3, <2>4, <2>5
  <2>7. owner' \in [Loggers -> Owners]
    BY <1>1 DEF Control, LogTypes, Owners
  <2>8. next_write' \in [Loggers -> Nat]
    <3>1. PICK n : n = Len(entry[l])
      OBVIOUS
    <3>2. n \in Nat /\ next_write' = [next_write EXCEPT ![l] = next_write[l] + n]
      BY <1>1, <3>1
    <3> QED BY <3>2 DEF Control, LogTypes
  <2> QED BY <1>1, <2>6, <2>7, <2>8 DEF Control, LogTypes
<1>3. ASSUME NEW k \in Loggers PROVE OwnerControl(k)' /\ FlushControl(k)'
  <2>1. CASE k = l
    <3>1. /\ owner'[k] = "idle" /\ next_write'[k] = next_write[k] + Len(entry[k])
          /\ next_write[k] \in Nat /\ next_read[k] \in Nat
      BY <1>1, <2>1 DEF Control, LogTypes
    <3>2. next_read[k] <= next_write[k] /\ memory[k] # <<>> /\ flushing.by # k
      BY <1>1, <2>1 DEF Control, OwnerControl, FlushControl
    <3>3. next_read[k] <= next_write'[k] /\ memory'[k] # <<>>
      BY <1>1, <2>1, <3>1, <3>2
    <3>4. OwnerControl(k)'
      BY <1>1, <3>1, <3>3 DEF OwnerControl
    <3>5. flushing.of = k => flushing.upto \in next_read[k]..next_write'[k]
      BY <1>1, <2>1, <3>1 DEF Control, FlushControl
    <3>6. FlushControl(k)'
      BY <1>1, <3>1, <3>2, <3>5 DEF FlushControl
    <3> QED BY <3>4, <3>6
  <2>2. CASE k # l
    <3>1. owner'[k] = owner[k] /\ next_write'[k] = next_write[k] /\ entry'[k] = entry[k]
      BY <1>1, <2>2 DEF Control, LogTypes
    <3> QED BY <1>1, <3>1, OwnerSame, FlushSame DEF Control
  <2> QED BY <2>1, <2>2
<1> QED BY <1>2, <1>3 DEF Control

\* ~logger removes a logger whose buffer is flushed.
LEMMA RemoveLoggerControl ==
  ASSUME Control, NEW l \in Loggers, RemoveLogger(l)
  PROVE  Control'
<1>1. /\ logger_store' = logger_store \ {l} /\ flushing' = flushing
      /\ UNCHANGED <<memory, next_write, next_read, logged, entry, failed>>
      /\ owner[l] = "remove" /\ owner' = [owner EXCEPT ![l] = "gone"]
  BY DEF RemoveLogger, Goes, buffers, written
<1>2. LogTypes'
  BY <1>1 DEF Control, LogTypes, Owners
<1>3. ASSUME NEW k \in Loggers PROVE OwnerControl(k)' /\ FlushControl(k)'
  <2>1. CASE k = l
    <3>1. owner'[k] = "gone"
      BY <1>1, <2>1 DEF Control, LogTypes
    <3> QED BY <1>1, <2>1, <3>1 DEF Control, OwnerControl, FlushControl, EntryOK
  <2>2. CASE k # l
    <3>1. owner'[k] = owner[k]
      BY <1>1, <2>2 DEF Control, LogTypes
    <3> QED BY <1>1, <3>1, OwnerSame, FlushSame DEF Control
  <2> QED BY <2>1, <2>2
<1> QED BY <1>2, <1>3 DEF Control

\* FlushTake fixes the end of what will be written.
LEMMA TakeFacts ==
  ASSUME Control, FlushTake
  PROVE  /\ flushing.of = "none" /\ DOMAIN flushing' = {"by", "of", "upto", "todo"}
         /\ flushing'.by = flushing.by
         /\ \E l \in Loggers : /\ l \in flushing.todo /\ flushing'.of = l /\ flushing'.upto = next_write[l]
                               /\ flushing'.todo = flushing.todo \ {l}
         /\ UNCHANGED <<memory, next_write, next_read, logged, owner, entry, logger_store, file, failed>>
<1>1. PICK l \in flushing.todo :
        flushing' = [flushing EXCEPT !.of = l, !.upto = next_write[l], !.todo = flushing.todo \ {l}]
  BY DEF FlushTake
<1>2. DOMAIN flushing = {"by", "of", "upto", "todo"} /\ l \in Loggers
  BY DEF Control, LogTypes
<1>3. /\ DOMAIN flushing' = {"by", "of", "upto", "todo"}
      /\ flushing'.by = flushing.by /\ flushing'.of = l /\ flushing'.upto = next_write[l]
      /\ flushing'.todo = flushing.todo \ {l}
  BY <1>1, <1>2
<1>4. /\ flushing.of = "none"
      /\ UNCHANGED <<memory, next_write, next_read, logged, owner, entry, logger_store, file, failed>>
  BY DEF FlushTake, buffers, written
<1> QED BY <1>2, <1>3, <1>4

\* The end of the flush lies between the pointers of its logger.
LEMMA FlushTakeControl ==
  ASSUME Control, FlushTake
  PROVE  Control'
<1>1. /\ flushing.of = "none" /\ DOMAIN flushing' = {"by", "of", "upto", "todo"}
      /\ flushing'.by = flushing.by
      /\ UNCHANGED <<memory, next_write, next_read, logged, owner, entry, logger_store, file, failed>>
  BY TakeFacts
<1>2. PICK l \in Loggers : /\ l \in flushing.todo /\ flushing'.of = l /\ flushing'.upto = next_write[l]
                           /\ flushing'.todo = flushing.todo \ {l}
  BY TakeFacts
<1>3. LogTypes'
  BY <1>1, <1>2 DEF Control, LogTypes
<1>4. ASSUME NEW k \in Loggers PROVE OwnerControl(k)' /\ FlushControl(k)'
  <2>1. OwnerControl(k)'
    BY <1>1, OwnerSame DEF Control
  <2>2. next_read[k] <= next_write[k] /\ next_read[k] \in Nat /\ next_write[k] \in Nat /\ FlushControl(k)
    BY DEF Control, LogTypes, OwnerControl
  <2>3. next_write[k] \in next_read[k]..next_write[k] /\ flushing.of # k
    BY <1>1, <2>2, LoggerAssumption
  <2>4. FlushControl(k)'
    BY <1>1, <1>2, <2>2, <2>3 DEF FlushControl
  <2> QED BY <2>1, <2>4
<1> QED BY <1>3, <1>4 DEF Control

\* FlushWrite moves next_read to that end.
LEMMA WriteFacts ==
  ASSUME Control, FlushWrite
  PROVE  \E l \in Loggers :
           /\ flushing.of = l
           /\ next_read' = [next_read EXCEPT ![l] = flushing.upto]
           /\ DOMAIN flushing' = {"by", "of", "upto", "todo"}
           /\ flushing'.by = flushing.by /\ flushing'.of = "none" /\ flushing'.upto = 0
           /\ flushing'.todo = flushing.todo
           /\ \E n \in 0..Len(Bytes(l, next_read[l], flushing.upto)) :
                LET all == Bytes(l, next_read[l], flushing.upto) IN
                file' = file \o SubSeq(all, 1, n) /\ failed' = (failed \/ n < Len(all))
           /\ UNCHANGED <<memory, next_write, logged, owner, entry, logger_store>>
<1> DEFINE l == flushing.of
<1>1. /\ l # "none" /\ next_read' = [next_read EXCEPT ![l] = flushing.upto]
      /\ flushing' = [flushing EXCEPT !.of = "none", !.upto = 0]
      /\ \E n \in 0..Len(Bytes(l, next_read[l], flushing.upto)) :
           /\ file' = file \o SubSeq(Bytes(l, next_read[l], flushing.upto), 1, n)
           /\ failed' = (failed \/ n < Len(Bytes(l, next_read[l], flushing.upto)))
      /\ UNCHANGED <<memory, next_write, logged, owner, entry, logger_store>>
  BY DEF FlushWrite
<1>2. DOMAIN flushing = {"by", "of", "upto", "todo"} /\ l \in Loggers
  BY <1>1 DEF Control, LogTypes
<1>3. /\ DOMAIN flushing' = {"by", "of", "upto", "todo"}
      /\ flushing'.by = flushing.by /\ flushing'.of = "none" /\ flushing'.upto = 0
      /\ flushing'.todo = flushing.todo
  BY <1>1, <1>2
<1> QED BY <1>1, <1>2, <1>3

\* next_read never passes next_write, and meets it when the owner flushed.
LEMMA FlushWriteControl ==
  ASSUME Control, FlushWrite
  PROVE  Control'
<1>1. PICK l \in Loggers :
        /\ flushing.of = l
        /\ next_read' = [next_read EXCEPT ![l] = flushing.upto]
        /\ DOMAIN flushing' = {"by", "of", "upto", "todo"}
        /\ flushing'.by = flushing.by /\ flushing'.of = "none" /\ flushing'.upto = 0
        /\ flushing'.todo = flushing.todo
        /\ failed' \in BOOLEAN
        /\ UNCHANGED <<memory, next_write, logged, owner, entry, logger_store>>
  <2>1. failed' \in BOOLEAN
    BY DEF FlushWrite
  <2> QED BY <2>1, WriteFacts
<1>2. LogTypes'
  BY <1>1 DEF Control, LogTypes
<1>3. ASSUME NEW k \in Loggers PROVE OwnerControl(k)' /\ FlushControl(k)'
  <2>1. OwnerControl(k) /\ FlushControl(k) /\ next_read[k] \in Nat /\ next_write[k] \in Nat /\ k # "none"
    BY LoggerAssumption DEF Control, LogTypes
  <2>2. CASE k = l
    <3>1. /\ next_read'[k] = flushing.upto /\ flushing.upto \in next_read[k]..next_write[k]
          /\ flushing.by = k => flushing.upto = next_write[k]
      BY <1>1, <2>1, <2>2 DEF Control, LogTypes, FlushControl
    <3>2. next_read'[k] <= next_write[k] /\ next_read'[k] \in Nat
      BY <2>1, <3>1
    <3>3. next_read[k] = next_write[k] => next_read'[k] = next_write[k]
      BY <2>1, <3>1
    <3>4. OwnerControl(k)'
      BY <1>1, <2>1, <3>2, <3>3 DEF OwnerControl, EntryOK
    <3>5. FlushControl(k)'
      BY <1>1, <2>1, <3>1 DEF FlushControl
    <3> QED BY <3>4, <3>5
  <2>3. CASE k # l
    <3>1. next_read'[k] = next_read[k]
      BY <1>1, <2>3 DEF Control, LogTypes
    <3>2. OwnerControl(k)'
      BY <1>1, <3>1, OwnerSame DEF Control
    <3>3. FlushControl(k)'
      BY <1>1, <2>1, <2>3, <3>1 DEF FlushControl
    <3> QED BY <3>2, <3>3
  <2> QED BY <2>2, <2>3
<1> QED BY <1>2, <1>3 DEF Control

\* The owner goes on only when its buffer is empty.
LEMMA FlushDoneControl ==
  ASSUME Control, FlushDone
  PROVE  Control'
<1>1. /\ flushing.by # "none" /\ flushing.of = "none" /\ flushing.todo = {} /\ flushing' = Idle
      /\ owner' = [l \in Loggers |-> IF flushing.by # l THEN owner[l]
                                     ELSE IF owner[l] = "flushing" THEN "rewind" ELSE "remove"]
      /\ UNCHANGED <<memory, next_write, next_read, logged, entry, logger_store, failed>>
  BY DEF FlushDone, buffers, written
<1>2. /\ DOMAIN flushing' = {"by", "of", "upto", "todo"} /\ flushing'.by = "none"
      /\ flushing'.of = "none" /\ flushing'.upto = 0 /\ flushing'.todo = {}
  BY <1>1 DEF Idle
<1>3. owner' \in [Loggers -> Owners]
  BY <1>1 DEF Control, LogTypes, Owners
<1>4. LogTypes'
  BY <1>1, <1>2, <1>3 DEF Control, LogTypes
<1>5. ASSUME NEW k \in Loggers PROVE OwnerControl(k)' /\ FlushControl(k)'
  <2>1. OwnerControl(k) /\ FlushControl(k) /\ k # "none"
    BY LoggerAssumption DEF Control
  <2>2. CASE flushing.by = k
    <3>1. /\ owner[k] \in {"flushing", "ending"} /\ next_read[k] = next_write[k]
          /\ owner'[k] = IF owner[k] = "flushing" THEN "rewind" ELSE "remove"
      BY <1>1, <2>1, <2>2 DEF FlushControl
    <3>2. OwnerControl(k)'
      BY <1>1, <2>1, <3>1 DEF OwnerControl, EntryOK
    <3>3. FlushControl(k)'
      BY <1>2, <2>1, <3>1 DEF FlushControl
    <3> QED BY <3>2, <3>3
  <2>3. CASE flushing.by # k
    <3>1. owner'[k] = owner[k]
      BY <1>1, <2>3
    <3>2. OwnerControl(k)'
      BY <1>1, <3>1, OwnerSame DEF Control
    <3>3. FlushControl(k)'
      BY <1>2, <2>1, <2>3, <3>1 DEF FlushControl
    <3> QED BY <3>2, <3>3
  <2> QED BY <2>2, <2>3
<1> QED BY <1>4, <1>5 DEF Control

\* The log thread flushes what the list knows.
LEMMA ThreadFlushesControl ==
  ASSUME Control, ThreadFlushes
  PROVE  Control'
<1>1. /\ flushing = Idle /\ flushing' = [Idle EXCEPT !.by = "log", !.todo = logger_store]
      /\ UNCHANGED <<memory, next_write, next_read, logged, owner, entry, logger_store, failed>>
  BY DEF ThreadFlushes, buffers, written
<1>2. /\ DOMAIN flushing' = {"by", "of", "upto", "todo"} /\ flushing'.by = "log"
      /\ flushing'.of = "none" /\ flushing'.upto = 0 /\ flushing'.todo = logger_store
      /\ flushing.by = "none"
  BY <1>1 DEF Idle
<1>3. LogTypes'
  BY <1>1, <1>2 DEF Control, LogTypes
<1>4. ASSUME NEW k \in Loggers PROVE OwnerControl(k)' /\ FlushControl(k)'
  <2>1. OwnerControl(k)'
    BY <1>1, OwnerSame DEF Control
  <2>2. FlushControl(k) /\ k # "none" /\ k # "log"
    BY LoggerAssumption DEF Control
  <2>3. FlushControl(k)'
    BY <1>1, <1>2, <2>2 DEF FlushControl
  <2> QED BY <2>1, <2>3
<1> QED BY <1>3, <1>4 DEF Control

\* Every step keeps the control part.
LEMMA ControlStep ==
  ASSUME Control, [LogNext]_logVars
  PROVE  Control'
<1>1. CASE \E l \in Loggers : Construct(l) \/ Log(l) \/ Allocate(l) \/ FlushOwn(l) \/ Rewind(l)
                              \/ Copy(l) \/ Advance(l) \/ RemoveLogger(l)
  BY <1>1, ConstructControl, LogControl, AllocateControl, FlushOwnControl, RewindControl,
     CopyControl, AdvanceControl, RemoveLoggerControl
<1>2. CASE FlushTake \/ FlushWrite \/ FlushDone \/ ThreadFlushes
  BY <1>2, FlushTakeControl, FlushWriteControl, FlushDoneControl, ThreadFlushesControl
<1>3. CASE ThreadStarts \/ destroy_log_thread \/ UNCHANGED logVars
  <2>1. UNCHANGED <<memory, next_write, next_read, logged, owner, entry, logger_store, flushing, failed>>
    BY <1>3 DEF ThreadStarts, destroy_log_thread, logVars, buffers, written
  <2>2. LogTypes'
    BY <2>1 DEF Control, LogTypes
  <2>3. ASSUME NEW k \in Loggers PROVE OwnerControl(k)' /\ FlushControl(k)'
    BY <2>1, OwnerSame, FlushSame DEF Control
  <2> QED BY <2>2, <2>3 DEF Control
<1> QED BY <1>1, <1>2, <1>3 DEF LogNext

\* The bytes of l among the first n of s.
Upto(s, n, l) == Cardinality({j \in 1..n : s[j][1] = l})

\* The bytes of a logger in a prefix of the file can be counted.
LEMMA UptoNat ==
  ASSUME NEW s, NEW n \in Nat, NEW l
  PROVE  /\ IsFiniteSet({j \in 1..n : s[j][1] = l}) /\ Upto(s, n, l) \in Nat
<1>1. IsFiniteSet(1..n)
  BY FS_Interval
<1>2. IsFiniteSet({j \in 1..n : s[j][1] = l})
  BY <1>1, FS_Subset
<1> QED BY <1>2, FS_CardinalityType DEF Upto

\* Sequences with the same beginning have the same counts there.
LEMMA UptoSame ==
  ASSUME NEW s, NEW t, NEW n, \A i \in 1..n : t[i] = s[i], NEW l
  PROVE  Upto(t, n, l) = Upto(s, n, l)
<1>1. {j \in 1..n : t[j][1] = l} = {j \in 1..n : s[j][1] = l}
  OBVIOUS
<1> QED BY <1>1 DEF Upto

\* t starts with the first n elements of s, followed by m bytes of l.
Runs(s, t, n, m, l) == (\A i \in 1..n : t[i] = s[i]) /\ (\A k \in 1..m : t[n + k][1] = l)
\* t holds m bytes of l more than s, and as many of every other logger.
UptoMore(s, t, n, m, l) ==
  /\ Upto(t, n + m, l) = Upto(s, n, l) + m
  /\ \A k : k # l => Upto(t, n + m, k) = Upto(s, n, k)

\* Appending bytes of one logger raises its count and no other.
LEMMA UptoRun ==
  ASSUME NEW s, NEW t, NEW n \in Nat, NEW m \in Nat, NEW l, Runs(s, t, n, m, l)
  PROVE  UptoMore(s, t, n, m, l)
<1> USE DEF Runs
<1> DEFINE A == {j \in 1..n : s[j][1] = l}
<1> DEFINE B == (n + 1)..(n + m)
<1>1. \A j \in B : t[j][1] = l
  <2> SUFFICES ASSUME NEW j \in B PROVE t[j][1] = l
    OBVIOUS
  <2>1. j - n \in 1..m /\ n + (j - n) = j
    OBVIOUS
  <2> QED BY <2>1
<1>2. 1..(n + m) = (1..n) \cup B /\ (1..n) \cap B = {}
  OBVIOUS
<1>3. {j \in 1..(n + m) : t[j][1] = l} = A \cup B /\ A \cap B = {}
  <2> HIDE DEF B
  <2> QED BY <1>1, <1>2
<1>4. IsFiniteSet(A) /\ IsFiniteSet(B) /\ Cardinality(B) = m /\ Cardinality(A) \in Nat
  <2>1. IsFiniteSet(A) /\ Cardinality(A) \in Nat
    <3>1. IsFiniteSet(1..n) /\ A \subseteq 1..n
      BY FS_Interval
    <3> HIDE DEF A
    <3> QED BY <3>1, FS_Subset, FS_CardinalityType
  <2>2. IsFiniteSet(B) /\ Cardinality(B) = IF n + 1 > n + m THEN 0 ELSE (n + m) - (n + 1) + 1
    BY FS_Interval
  <2>3. Cardinality(B) = m
    BY <2>2
  <2> QED BY <2>1, <2>2, <2>3
<1>5. Cardinality(A \cup B) = Cardinality(A) + m
  <2>1. Cardinality(A \cup B) = Cardinality(A) + Cardinality(B) - Cardinality(A \cap B)
    BY <1>4, FS_Union
  <2>2. Cardinality(A \cap B) = 0
    BY <1>3, FS_EmptySet
  <2> HIDE DEF A, B
  <2> QED BY <1>4, <2>1, <2>2
<1>6. ASSUME NEW k, k # l PROVE Upto(t, n + m, k) = Upto(s, n, k)
  <2>1. {j \in 1..(n + m) : t[j][1] = k} = {j \in 1..n : s[j][1] = k}
    <3> HIDE DEF B
    <3> QED BY <1>1, <1>2, <1>6
  <2> QED BY <2>1 DEF Upto
<1> QED BY <1>3, <1>5, <1>6 DEF Upto, UptoMore

\* The file is a sequence of bytes of known loggers.
LEMMA FileLen ==
  ASSUME FileOK
  PROVE  /\ Len(file) \in Nat /\ \A i \in 1..Len(file) : file[i][1] \in Loggers
         /\ \A l : Sent(l) \in Nat
<1>1. file \in Seq(Loggers \X Byte)
  BY DEF FileOK
<1>2. Len(file) \in Nat /\ \A i \in 1..Len(file) : file[i] \in Loggers \X Byte
  BY <1>1, LenProperties, ElementOfSeq
<1>3. ASSUME NEW l PROVE Sent(l) \in Nat
  <2>1. Upto(file, Len(file), l) \in Nat
    BY <1>2, UptoNat
  <2> QED BY <2>1 DEF Sent, Upto
<1> QED BY <1>2, <1>3

\* A logger whose bytes a step does not touch.
LEMMA BytesSame ==
  ASSUME NEW k \in Loggers, BytesOK(k), file' = file,
         memory'[k] = memory[k], next_write'[k] = next_write[k], next_read'[k] = next_read[k],
         logged'[k] = logged[k], flushing'.of = k => flushing.of = k /\ flushing'.upto = flushing.upto
  PROVE  BytesOK(k)'
BY DEF BytesOK, Sent, Waiting, EntryEnds

\* While nothing is logged, what is in the file stays right.
LEMMA FileSame ==
  ASSUME FileOK, file' = file, logged' = logged
  PROVE  FileOK'
BY DEF FileOK, Sent, Nth

\* A step that moves no byte.
LEMMA StillOK ==
  ASSUME LogInv, UNCHANGED <<memory, next_write, next_read, logged, file, failed>>,
         \/ flushing' = flushing
         \/ "none" = flushing'.of
  PROVE  ~failed' => FileOK' /\ \A l \in Loggers : BytesOK(l)'
<1> SUFFICES ASSUME ~failed PROVE FileOK' /\ \A l \in Loggers : BytesOK(l)'
  OBVIOUS
<1>1. FileOK'
  BY FileSame DEF LogInv
<1>2. ASSUME NEW k \in Loggers PROVE BytesOK(k)'
  <2>1. BytesOK(k) /\ k # "none"
    BY LoggerAssumption DEF LogInv
  <2>2. flushing'.of = k => flushing.of = k /\ flushing'.upto = flushing.upto
    BY <2>1
  <2> QED BY <2>1, <2>2, BytesSame
<1> QED BY <1>1, <1>2

\* Initially the file and all buffers are empty.
LEMMA InitInv == ASSUME LogInit PROVE LogInv
<1>1. file = <<>> /\ flushing.of = "none" /\ \A l \in Loggers :
        logged[l] = <<>> /\ next_write[l] = 0 /\ next_read[l] = 0 /\ l # "none"
  BY LoggerAssumption DEF LogInit, Idle
<1>2. ASSUME NEW l \in Loggers PROVE BytesOK(l)
  <2>1. {j \in 1..Len(file) : file[j][1] = l} = {}
    BY <1>1
  <2>2. Sent(l) = 0
    BY <2>1, FS_EmptySet DEF Sent
  <2> QED BY <1>1, <2>2 DEF BytesOK, Waiting, EntryEnds
<1>3. FileOK
  BY <1>1 DEF FileOK
<1> QED BY <1>2, <1>3, InitControl DEF LogInv

\* A step that puts both pointers of a logger back when nothing is waiting.
LEMMA RewoundOK ==
  ASSUME LogInv, ~failed, NEW l \in Loggers, next_read[l] = next_write[l], flushing.of # l,
         next_write' = [next_write EXCEPT ![l] = 0], next_read' = [next_read EXCEPT ![l] = 0],
         \A k \in Loggers : k # l => memory'[k] = memory[k],
         UNCHANGED <<logged, flushing, file>>
  PROVE  FileOK' /\ \A k \in Loggers : BytesOK(k)'
<1>1. FileOK'
  BY FileSame DEF LogInv
<1>2. next_write \in [Loggers -> Nat] /\ next_read \in [Loggers -> Nat]
  BY DEF LogInv, Control, LogTypes
<1>3. ASSUME NEW k \in Loggers PROVE BytesOK(k)'
  <2>1. BytesOK(k)
    BY DEF LogInv
  <2>2. CASE k = l
    <3>1. next_write'[k] = 0 /\ next_read'[k] = 0 /\ next_read[k] = next_write[k]
      BY <1>2, <2>2
    <3>2. Waiting(k)' = 0
      BY <3>1 DEF Waiting
    <3>3. Waiting(k) = 0
      BY <1>2, <3>1 DEF Waiting
    <3>4. Sent(k)' = Sent(k)
      BY DEF Sent
    <3> QED BY <2>1, <2>2, <3>2, <3>3, <3>4 DEF BytesOK, EntryEnds
  <2>3. CASE k # l
    <3>1. next_write'[k] = next_write[k] /\ next_read'[k] = next_read[k]
      BY <1>2, <2>3
    <3> QED BY <2>1, <2>3, <3>1, BytesSame
  <2> QED BY <2>2, <2>3
<1> QED BY <1>1, <1>3

\* The first buffer of a thread: nothing was waiting before.
LEMMA AllocateOK ==
  ASSUME LogInv, ~failed, NEW l \in Loggers, Allocate(l)
  PROVE  FileOK' /\ \A k \in Loggers : BytesOK(k)'
<1>1. /\ owner[l] = "allocate" /\ flushing.of # l
      /\ next_write' = [next_write EXCEPT ![l] = 0] /\ next_read' = [next_read EXCEPT ![l] = 0]
      /\ UNCHANGED <<logged, flushing, file>>
      /\ \A k \in Loggers : k # l => memory'[k] = memory[k]
  BY DEF Allocate, Goes, written, LogInv, Control, LogTypes
<1>2. next_read[l] \in Nat /\ next_read[l] <= next_write[l] /\ next_write[l] = 0
  BY <1>1 DEF LogInv, Control, LogTypes, OwnerControl
<1>3. next_read[l] = next_write[l]
  BY <1>2
<1> QED BY <1>1, <1>3, RewoundOK

\* replinish rewinds only after the flush has taken everything.
LEMMA RewindOK ==
  ASSUME LogInv, ~failed, NEW l \in Loggers, Rewind(l)
  PROVE  FileOK' /\ \A k \in Loggers : BytesOK(k)'
<1>1. /\ owner[l] = "rewind" /\ flushing.of # l
      /\ next_write' = [next_write EXCEPT ![l] = 0] /\ next_read' = [next_read EXCEPT ![l] = 0]
      /\ UNCHANGED <<memory, logged, flushing, file>>
  BY DEF Rewind, Goes, written
<1>2. next_read[l] = next_write[l]
  BY <1>1 DEF LogInv, Control, OwnerControl
<1> QED BY <1>1, <1>2, RewoundOK

\* The bytes Copy writes lie behind those that wait, so a flush that runs
\* meanwhile reads the same.
LEMMA CopyOK ==
  ASSUME LogInv, ~failed, NEW l \in Loggers, Copy(l)
  PROVE  FileOK' /\ \A k \in Loggers : BytesOK(k)'
<1>1. /\ UNCHANGED <<next_write, next_read, logged, flushing, file>>
      /\ \A k \in Loggers : k # l => memory'[k] = memory[k]
      /\ \A i \in 1..next_write[l] : memory'[l][i] = memory[l][i]
  BY CopyFacts DEF LogInv
<1>2. FileOK'
  BY <1>1, FileSame DEF LogInv
<1>3. ASSUME NEW k \in Loggers PROVE BytesOK(k)'
  <2>1. BytesOK(k) /\ next_read[k] \in Nat /\ next_write[k] \in Nat
    BY DEF LogInv, Control, LogTypes
  <2>2. CASE k = l
    <3>1. ASSUME NEW i \in 1..Waiting(k)
          PROVE  memory'[k][next_read[k] + i] = memory[k][next_read[k] + i]
      <4>1. next_read[k] + i \in 1..next_write[k]
        BY <2>1 DEF Waiting
      <4> QED BY <1>1, <2>2, <4>1
    <3>2. Sent(k)' = Sent(k) /\ Waiting(k)' = Waiting(k)
      BY <1>1 DEF Sent, Waiting
    <3> QED BY <1>1, <2>1, <3>1, <3>2 DEF BytesOK, EntryEnds
  <2>3. CASE k # l
    BY <1>1, <2>1, <2>3, BytesSame
  <2> QED BY <2>2, <2>3
<1> QED BY <1>2, <1>3

\* What is appended to a sequence leaves its elements where they are.
LEMMA ConcatLow ==
  ASSUME NEW s \in Seq(Byte), NEW e \in Seq(Byte), NEW n \in 1..Len(s)
  PROVE  (s \o e)[n] = s[n]
<1>1. Len(s) \in Nat /\ Len(e) \in Nat
  OBVIOUS
<1>2. n \in 1..(Len(s) + Len(e)) /\ n <= Len(s)
  BY <1>1
<1> QED BY <1>2, ConcatProperties

\* A place where an entry ended still is one when a further entry is logged.
LEMMA EndsConcat ==
  ASSUME NEW s \in Seq(Byte), NEW e \in Seq(Byte), Len(e) >= 1, e[1][2] = 1,
         NEW p \in 0..Len(s), p = Len(s) \/ s[p + 1][2] = 1
  PROVE  (s \o e)[p + 1][2] = 1
<1>1. Len(s) \in Nat /\ Len(e) \in Nat
  OBVIOUS
<1>2. \A i \in 1..(Len(s) + Len(e)) : (s \o e)[i] = IF i <= Len(s) THEN s[i] ELSE e[i - Len(s)]
  BY ConcatProperties
<1>3. CASE p = Len(s)
  <2>1. p + 1 \in 1..(Len(s) + Len(e)) /\ ~(p + 1 <= Len(s)) /\ p + 1 - Len(s) = 1
    BY <1>1, <1>3
  <2> QED BY <1>2, <2>1
<1>4. CASE p # Len(s)
  <2>1. p + 1 \in 1..(Len(s) + Len(e)) /\ p + 1 <= Len(s)
    BY <1>1, <1>4
  <2> QED BY <1>2, <1>4, <2>1
<1> QED BY <1>3, <1>4

\* Advance: the bytes that wait are followed by those of the entry.
LEMMA AdvanceBytes ==
  ASSUME LogInv, ~failed, NEW l \in Loggers, Advance(l)
  PROVE  BytesOK(l)'
<1>1. /\ owner[l] = "advance"
      /\ next_write' = [next_write EXCEPT ![l] = next_write[l] + Len(entry[l])]
      /\ UNCHANGED <<memory, next_read, flushing, file>>
      /\ logged' = [logged EXCEPT ![l] = logged[l] \o entry[l]]
      /\ Len(entry[l]) \in Nat /\ Len(entry[l]) >= 1
  BY AdvanceFacts DEF LogInv
<1>2. PICK s : s = logged[l]
  OBVIOUS
<1>3. PICK e : e = entry[l]
  OBVIOUS
<1>4. PICK n : n = Sent(l)
  OBVIOUS
<1>5. PICK r : r = next_read[l]
  OBVIOUS
<1>6. PICK w : w = next_write[l]
  OBVIOUS
<1>7. /\ s \in Seq(Byte) /\ e \in Seq(Byte) /\ Len(e) >= 1 /\ e[1][2] = 1
      /\ n \in Nat /\ r \in Nat /\ w \in Nat /\ r <= w /\ Len(s) \in Nat /\ Len(e) \in Nat
      /\ n + (w - r) = Len(s)
  <2>1. s \in Seq(Byte) /\ e \in Seq(Byte) /\ r \in Nat /\ w \in Nat
    BY <1>2, <1>3, <1>5, <1>6 DEF LogInv, Control, LogTypes
  <2>2. Len(s) \in Nat /\ Len(e) \in Nat /\ Len(e) >= 1
    BY <1>1, <1>3, <2>1
  <2>3. e[1][2] = 1 /\ r <= w
    BY <1>1, <1>3, <1>5, <1>6 DEF LogInv, Control, OwnerControl, EntryOK
  <2>4. n \in Nat /\ n + (w - r) = Len(s)
    BY <1>2, <1>4, <1>5, <1>6 DEF LogInv, BytesOK, Waiting
  <2> QED BY <2>1, <2>2, <2>3, <2>4
<1>8. PICK t : t = s \o e
  OBVIOUS
<1>9. /\ logged'[l] = t /\ next_write'[l] = w + Len(e) /\ next_read'[l] = r
      /\ Sent(l)' = n /\ memory'[l] = memory[l]
  <2>1. Sent(l)' = Sent(l)
    BY <1>1 DEF Sent
  <2> QED BY <1>1, <1>2, <1>3, <1>4, <1>5, <1>6, <1>8, <2>1 DEF LogInv, Control, LogTypes
<1>10. /\ Len(t) = Len(s) + Len(e)
       /\ \A i \in 1..(Len(s) + Len(e)) : t[i] = IF i <= Len(s) THEN s[i] ELSE e[i - Len(s)]
  BY <1>7, <1>8, ConcatProperties
<1>11. Waiting(l)' = (w + Len(e)) - r
  BY <1>7, <1>9 DEF Waiting
<1>12. \A k \in 1..(w - r) : memory[l][r + k] = s[n + k]
  BY <1>2, <1>4, <1>5, <1>6 DEF LogInv, BytesOK, Waiting
<1>13. \A k \in 1..Len(e) : memory[l][w + k] = e[k]
  BY <1>1, <1>3, <1>6 DEF LogInv, Control, OwnerControl
<1>14. ASSUME NEW k \in 1..(w + Len(e) - r) PROVE memory[l][r + k] = t[n + k]
  <2>1. CASE k <= w - r
    <3>1. k \in 1..(w - r) /\ n + k \in 1..(Len(s) + Len(e)) /\ n + k <= Len(s)
      BY <1>7, <2>1
    <3> QED BY <1>10, <1>12, <3>1
  <2>2. CASE ~(k <= w - r)
    <3> DEFINE j == k - (w - r)
    <3> DEFINE i == n + k
    <3>1. j \in 1..Len(e) /\ r + k = w + j /\ i \in 1..(Len(s) + Len(e)) /\ ~(i <= Len(s))
      BY <1>7, <2>2
    <3>2. i - Len(s) = j
      BY <1>7, <2>2
    <3> HIDE DEF i, j
    <3>3. t[i] = e[j]
      BY <1>10, <3>1, <3>2
    <3>4. memory[l][w + j] = e[j]
      BY <1>13, <3>1
    <3> QED BY <3>1, <3>3, <3>4 DEF i
  <2> QED BY <2>1, <2>2
<1>15. \A p \in 0..Len(s) : p = Len(s) \/ s[p + 1][2] = 1 => t[p + 1][2] = 1
  BY <1>7, <1>8, EndsConcat
<1>16. t[n + 1][2] = 1
  <2>1. n \in 0..Len(s)
    BY <1>7
  <2>2. n = Len(s) \/ s[n + 1][2] = 1
    BY <1>2, <1>4 DEF LogInv, BytesOK, EntryEnds
  <2> QED BY <1>15, <2>1, <2>2
<1>17. ASSUME flushing.of = l PROVE t[n + (flushing.upto - r) + 1][2] = 1
  <2>1. PICK u : u = flushing.upto
    OBVIOUS
  <2>2. u \in r..w
    BY <1>5, <1>6, <1>17, <2>1 DEF LogInv, Control, FlushControl
  <2>3. PICK p : p = n + (u - r)
    OBVIOUS
  <2>4. p \in 0..Len(s)
    BY <1>7, <2>2, <2>3
  <2>5. EntryEnds(l, p)
    BY <1>4, <1>5, <1>17, <2>1, <2>3 DEF LogInv, BytesOK
  <2>6. p = Len(s) \/ s[p + 1][2] = 1
    BY <1>2, <2>5 DEF EntryEnds
  <2>7. t[p + 1][2] = 1
    BY <1>15, <2>4, <2>6
  <2> QED BY <2>1, <2>3, <2>7
<1>18. n + (w + Len(e) - r) = Len(t)
  <2>1. Len(t) = Len(s) + Len(e)
    BY <1>10
  <2> QED BY <1>7, <2>1
<1>19. EntryEnds(l, Sent(l))'
  BY <1>9, <1>16 DEF EntryEnds
<1>20. flushing'.of = l => EntryEnds(l, Sent(l) + (flushing.upto - next_read[l]))'
  BY <1>1, <1>9, <1>17 DEF EntryEnds
<1>21. /\ Sent(l)' \in Nat /\ Sent(l)' + Waiting(l)' = Len(logged'[l])
       /\ \A k \in 1..Waiting(l)' : memory'[l][next_read'[l] + k] = logged'[l][Sent(l)' + k]
  BY <1>7, <1>9, <1>11, <1>14, <1>18
<1> QED BY <1>19, <1>20, <1>21 DEF BytesOK

\* What is in the file was logged before, and logging more does not change it.
LEMMA AdvanceOK ==
  ASSUME LogInv, ~failed, NEW l \in Loggers, Advance(l)
  PROVE  FileOK' /\ \A k \in Loggers : BytesOK(k)'
<1>1. /\ next_write' = [next_write EXCEPT ![l] = next_write[l] + Len(entry[l])]
      /\ UNCHANGED <<memory, next_read, flushing, file>>
      /\ logged' = [logged EXCEPT ![l] = logged[l] \o entry[l]]
  BY AdvanceFacts DEF LogInv
<1>2. logged \in [Loggers -> Seq(Byte)] /\ entry \in [Loggers -> Seq(Byte)] /\ FileOK
  BY DEF LogInv, Control, LogTypes
<1>3. ASSUME NEW k \in Loggers PROVE BytesOK(k)'
  <2>1. CASE k # l
    <3>1. logged'[k] = logged[k] /\ next_write'[k] = next_write[k]
      BY <1>1, <2>1 DEF LogInv, Control, LogTypes
    <3>2. BytesOK(k)
      BY DEF LogInv
    <3> QED BY <1>1, <3>1, <3>2, BytesSame
  <2> QED BY <2>1, AdvanceBytes
<1>4. ASSUME NEW k \in Loggers, NEW n \in 1..Len(logged[k]) PROVE logged'[k][n] = logged[k][n]
  <2>1. CASE k = l
    <3>1. logged'[k] = logged[k] \o entry[k] /\ logged[k] \in Seq(Byte) /\ entry[k] \in Seq(Byte)
      BY <1>1, <1>2, <2>1
    <3> QED BY <3>1, ConcatLow
  <2>2. CASE k # l
    BY <1>1, <1>2, <2>2
  <2> QED BY <2>1, <2>2
<1>5. ASSUME NEW i \in 1..Len(file) PROVE logged'[file[i][1]][Nth(i)] = logged[file[i][1]][Nth(i)]
  <2>1. PICK k : k = file[i][1]
    OBVIOUS
  <2>2. k \in Loggers
    BY <1>2, <2>1, FileLen
  <2>3. Nth(i) \in 1..Sent(k) /\ BytesOK(k) /\ next_read[k] <= next_write[k]
        /\ next_read[k] \in Nat /\ next_write[k] \in Nat
    BY <1>2, <2>1, <2>2 DEF FileOK, LogInv, Control, LogTypes, OwnerControl
  <2>4. Nth(i) \in 1..Len(logged[k])
    <3>1. Len(logged[k]) \in Nat
      BY <1>2, <2>2
    <3> QED BY <2>3, <3>1 DEF BytesOK, Waiting
  <2> QED BY <1>4, <2>1, <2>2, <2>4
<1>6. FileOK'
  <2>1. \A i \in 1..Len(file) : Nth(i)' = Nth(i)
    BY <1>1 DEF Nth
  <2>2. \A k \in Loggers : Sent(k)' = Sent(k)
    BY <1>1 DEF Sent
  <2>3. \A i \in 1..Len(file) : file[i][1] \in Loggers
    BY <1>2, FileLen
  <2> QED BY <1>1, <1>2, <1>5, <2>1, <2>2, <2>3 DEF FileOK
<1> QED BY <1>3, <1>6

\* FlushTake ends what will be written where the last entry ends.
LEMMA FlushTakeOK ==
  ASSUME LogInv, ~failed, FlushTake
  PROVE  FileOK' /\ \A k \in Loggers : BytesOK(k)'
<1>1. UNCHANGED <<memory, next_write, next_read, logged, file>> /\ flushing.of = "none"
  BY TakeFacts DEF LogInv
<1>2. PICK l \in Loggers : flushing'.of = l /\ flushing'.upto = next_write[l]
  BY TakeFacts DEF LogInv
<1>3. FileOK'
  BY <1>1, FileSame DEF LogInv
<1>4. ASSUME NEW k \in Loggers PROVE BytesOK(k)'
  <2>1. BytesOK(k)
    BY DEF LogInv
  <2>2. CASE k = l
    <3>1. Sent(k)' = Sent(k) /\ Waiting(k)' = Waiting(k)
      BY <1>1 DEF Sent, Waiting
    <3>2. Sent(k) + (next_write[k] - next_read[k]) = Len(logged[k])
      BY <2>1 DEF BytesOK, Waiting
    <3>3. EntryEnds(k, Sent(k) + (flushing.upto - next_read[k]))'
      BY <1>1, <1>2, <2>2, <3>1, <3>2 DEF EntryEnds
    <3>4. EntryEnds(k, Sent(k))'
      BY <1>1, <2>1, <3>1 DEF BytesOK, EntryEnds
    <3> QED BY <1>1, <2>1, <3>1, <3>3, <3>4 DEF BytesOK
  <2>3. CASE k # l
    BY <1>1, <1>2, <2>1, <2>3, BytesSame
  <2> QED BY <2>2, <2>3
<1> QED BY <1>3, <1>4

\* The bytes that logger::flush hands to write(): the next ones of the logger.
LEMMA WrittenBytes ==
  ASSUME LogInv, ~failed, NEW l \in Loggers, flushing.of = l,
         NEW all, all = Bytes(l, next_read[l], flushing.upto),
         NEW n, n = Sent(l), NEW m, m = flushing.upto - next_read[l]
  PROVE  /\ m \in Nat /\ n \in Nat /\ m <= Waiting(l)
         /\ all \in Seq(Loggers \X Byte) /\ Len(all) = m
         /\ \A k \in 1..m : all[k][1] = l /\ all[k][2] = logged[l][n + k]
<1>1. PICK r : r = next_read[l]
  OBVIOUS
<1>2. PICK s : s = logged[l]
  OBVIOUS
<1>3. /\ r \in Nat /\ next_write[l] \in Nat /\ flushing.upto \in r..next_write[l]
      /\ s \in Seq(Byte)
  BY <1>1, <1>2 DEF LogInv, Control, LogTypes, FlushControl
<1>4. m \in Nat /\ m <= Waiting(l) /\ Waiting(l) \in Nat
  BY <1>1, <1>3 DEF Waiting
<1>5. /\ n \in Nat /\ n + Waiting(l) = Len(s)
      /\ \A k \in 1..Waiting(l) : memory[l][r + k] = s[n + k]
  BY <1>1, <1>2 DEF LogInv, BytesOK
<1>6. all = [i \in 1..m |-> <<l, memory[l][r + i]>>]
  BY <1>1 DEF Bytes
<1>7. ASSUME NEW k \in 1..m
      PROVE  all[k] = <<l, s[n + k]>> /\ all[k] \in Loggers \X Byte
  <2>1. k \in 1..Waiting(l)
    BY <1>4
  <2>2. n + k \in 1..Len(s)
    BY <1>4, <1>5, <2>1
  <2>3. s[n + k] \in Byte
    BY <1>3, <2>2, ElementOfSeq
  <2>4. memory[l][r + k] = s[n + k]
    BY <1>5, <2>1
  <2>5. all[k] = <<l, memory[l][r + k]>>
    BY <1>6
  <2> QED BY <2>3, <2>4, <2>5
<1>8. all \in [1..m -> Loggers \X Byte]
  BY <1>6, <1>7
<1>9. all \in Seq(Loggers \X Byte) /\ Len(all) = m
  BY <1>4, <1>8
<1> QED BY <1>2, <1>4, <1>5, <1>7, <1>9

\* A complete write appends those bytes to the file.
LEMMA FlushWriteOK ==
  ASSUME LogInv, ~failed, ~failed', FlushWrite
  PROVE  FileOK' /\ \A k \in Loggers : BytesOK(k)'
<1>1. PICK l \in Loggers :
           /\ flushing.of = l
           /\ next_read' = [next_read EXCEPT ![l] = flushing.upto]
           /\ flushing'.of = "none"
           /\ \E i \in 0..Len(Bytes(l, next_read[l], flushing.upto)) :
                LET bytes == Bytes(l, next_read[l], flushing.upto) IN
                file' = file \o SubSeq(bytes, 1, i) /\ failed' = (failed \/ i < Len(bytes))
           /\ UNCHANGED <<memory, next_write, logged>>
  BY WriteFacts DEF LogInv
<1>2. PICK all : all = Bytes(l, next_read[l], flushing.upto)
  OBVIOUS
<1>3. PICK n : n = Sent(l)
  OBVIOUS
<1>4. PICK m : m = flushing.upto - next_read[l]
  OBVIOUS
<1>5. /\ m \in Nat /\ n \in Nat /\ m <= Waiting(l)
      /\ all \in Seq(Loggers \X Byte) /\ Len(all) = m
      /\ \A k \in 1..m : all[k][1] = l /\ all[k][2] = logged[l][n + k]
  BY <1>1, <1>2, <1>3, <1>4, WrittenBytes
<1>6. file' = file \o all
  <2>1. PICK i \in 0..Len(all) : file' = file \o SubSeq(all, 1, i) /\ failed' = (failed \/ i < Len(all))
    BY <1>1, <1>2
  <2>2. ~(i < Len(all))
    BY <2>1, Zenon
  <2>3. i = Len(all)
    <3>1. Len(all) \in Nat /\ i \in 0..Len(all)
      BY <1>5
    <3> QED BY <2>2, <3>1
  <2>4. SubSeq(all, 1, Len(all)) = all
    BY <1>5, SubSeqFull
  <2> QED BY <2>1, <2>3, <2>4
<1>7. PICK f : f = file
  OBVIOUS
<1>8. PICK g : g = file \o all
  OBVIOUS
<1>9. PICK z : z = Len(f)
  OBVIOUS
<1>10. /\ f \in Seq(Loggers \X Byte) /\ z \in Nat /\ g \in Seq(Loggers \X Byte) /\ Len(g) = z + m
       /\ \A i \in 1..(z + m) : g[i] = IF i <= z THEN f[i] ELSE all[i - z]
  <2>1. f \in Seq(Loggers \X Byte)
    BY <1>7 DEF LogInv, FileOK
  <2>2. g = f \o all /\ z = Len(f) /\ m = Len(all) /\ all \in Seq(Loggers \X Byte)
    BY <1>5, <1>7, <1>8, <1>9
  <2>3. z \in Nat
    BY <2>1, <2>2, LenProperties
  <2>4. /\ g \in Seq(Loggers \X Byte) /\ Len(g) = z + m
        /\ \A i \in 1..(z + m) : g[i] = IF i <= z THEN f[i] ELSE all[i - z]
    BY ONLY <2>1, <2>2, ConcatProperties
  <2> QED BY <2>1, <2>3, <2>4
<1>11. \A i \in 1..z : g[i] = f[i]
  <2> SUFFICES ASSUME NEW i \in 1..z PROVE g[i] = f[i]
    OBVIOUS
  <2>1. i \in 1..(z + m) /\ i <= z
    BY <1>5, <1>10
  <2> QED BY <1>10, <2>1
<1>12. \A k \in 1..m : g[z + k] = all[k]
  <2> SUFFICES ASSUME NEW k \in 1..m PROVE g[z + k] = all[k]
    OBVIOUS
  <2> DEFINE i == z + k
  <2>1. i \in 1..(z + m) /\ ~(i <= z) /\ i - z = k
    BY <1>5, <1>10
  <2> HIDE DEF i
  <2>2. g[i] = all[k]
    BY <1>10, <2>1
  <2> QED BY <2>2 DEF i
<1>13. \A k : Sent(k) = Upto(f, z, k) /\ Sent(k)' = Upto(g, z + m, k)
  BY <1>6, <1>7, <1>8, <1>9, <1>10 DEF Sent, Upto
<1>14. Sent(l)' = n + m /\ \A k : k # l => Sent(k)' = Sent(k)
  <2>1. \A k \in 1..m : g[z + k][1] = l
    BY <1>5, <1>12
  <2>2. z \in Nat /\ m \in Nat
    BY <1>5, <1>10
  <2>3. Runs(f, g, z, m, l)
    BY ONLY <1>11, <2>1 DEF Runs
  <2>4. UptoMore(f, g, z, m, l)
    BY ONLY <2>2, <2>3, UptoRun
  <2> QED BY <1>3, <1>13, <2>4 DEF UptoMore
<1>15. /\ \A i \in 1..z : Nth(i)' = Nth(i)
       /\ \A k \in 1..m : Nth(z + k)' = n + k
  <2>1. \A i : Nth(i) = Upto(f, i, f[i][1]) /\ Nth(i)' = Upto(g, i, g[i][1])
    BY <1>6, <1>7, <1>8 DEF Nth, Upto
  <2>2. ASSUME NEW i \in 1..z PROVE Nth(i)' = Nth(i)
    <3>1. \A j \in 1..i : g[j] = f[j]
      BY <1>10, <1>11
    <3>2. Upto(g, i, f[i][1]) = Upto(f, i, f[i][1])
      BY ONLY <3>1, UptoSame
    <3> QED BY <1>11, <2>1, <3>2
  <2>3. ASSUME NEW k \in 1..m PROVE Nth(z + k)' = n + k
    <3>1. \A j \in 1..k : g[z + j][1] = l
      <4> SUFFICES ASSUME NEW j \in 1..k PROVE g[z + j][1] = l
        OBVIOUS
      <4>1. j \in 1..m
        BY <1>5
      <4> QED BY <1>5, <1>12, <4>1
    <3>2. z \in Nat /\ k \in Nat /\ k \in 1..k
      BY <1>5, <1>10
    <3>3. Runs(f, g, z, k, l)
      BY ONLY <1>11, <3>1 DEF Runs
    <3>4. UptoMore(f, g, z, k, l)
      BY ONLY <3>2, <3>3, UptoRun
    <3>5. g[z + k][1] = l
      BY <3>1, <3>2
    <3> QED BY <1>3, <1>13, <2>1, <3>4, <3>5 DEF UptoMore
  <2> QED BY <2>2, <2>3
<1>16. ASSUME NEW k \in Loggers PROVE BytesOK(k)'
  <2>1. BytesOK(k) /\ next_read[k] \in Nat /\ next_write[k] \in Nat /\ k # "none"
        /\ DOMAIN next_read = Loggers
    BY LoggerAssumption DEF LogInv, Control, LogTypes
  <2>2. flushing'.of # k
    BY <1>1, <2>1
  <2>3. CASE k = l
    <3>1. next_read'[k] = flushing.upto /\ flushing.upto \in Nat
      BY <1>1, <2>1, <2>3 DEF LogInv, Control, LogTypes
    <3>2. flushing.upto = next_read[k] + m
      BY <1>4, <2>1, <2>3, <3>1
    <3>3. Waiting(k)' = Waiting(k) - m /\ Waiting(k) \in Int
      BY <1>1, <1>5, <2>1, <3>1, <3>2 DEF Waiting
    <3>4. Sent(k)' = n + m /\ n + Waiting(k) = Len(logged[k])
      BY <1>3, <1>14, <2>1, <2>3 DEF BytesOK
    <3>5. Sent(k)' \in Nat /\ Sent(k)' + Waiting(k)' = Len(logged'[k])
      BY <1>1, <1>5, <3>3, <3>4
    <3>6. ASSUME NEW j \in 1..Waiting(k)'
          PROVE  memory'[k][next_read'[k] + j] = logged'[k][Sent(k)' + j]
      <4>1. m + j \in 1..Waiting(k) /\ next_read[k] + (m + j) = flushing.upto + j
            /\ n + (m + j) = (n + m) + j
        BY <1>5, <2>1, <3>2, <3>3
      <4>2. memory[k][next_read[k] + (m + j)] = logged[k][n + (m + j)]
        BY <1>3, <2>1, <2>3, <4>1 DEF BytesOK
      <4> QED BY <1>1, <3>1, <3>4, <4>1, <4>2
    <3>7. EntryEnds(k, n + m)
      BY <1>1, <1>3, <1>4, <2>1, <2>3 DEF BytesOK
    <3>8. EntryEnds(k, Sent(k))'
      BY <1>1, <3>4, <3>7 DEF EntryEnds
    <3> QED BY <2>2, <3>5, <3>6, <3>8 DEF BytesOK
  <2>4. CASE k # l
    <3>1. Sent(k)' = Sent(k) /\ Waiting(k)' = Waiting(k) /\ next_read'[k] = next_read[k]
      BY <1>1, <1>14, <2>1, <2>4 DEF Waiting
    <3> QED BY <1>1, <2>1, <2>2, <3>1 DEF BytesOK, EntryEnds
  <2> QED BY <2>3, <2>4
<1>17. file' = g /\ logged' = logged /\ \A k \in Loggers : Sent(k)' \in Nat
  BY <1>1, <1>6, <1>7, <1>8, <1>16 DEF BytesOK
<1> DEFINE P(i) == /\ Nth(i)' \in 1..Sent(g[i][1])'
                   /\ g[i][2] = logged[g[i][1]][Nth(i)']
                   /\ i = 1 \/ g[i - 1][1] # g[i][1] => g[i][2][2] = 1
<1>18. ASSUME NEW i \in 1..z PROVE P(i)
  <2>1. PICK k : k = f[i][1]
    OBVIOUS
  <2>2. /\ k \in Loggers /\ Nth(i) \in 1..Sent(k) /\ f[i][2] = logged[k][Nth(i)]
        /\ i = 1 \/ f[i - 1][1] # k => f[i][2][2] = 1
    <3>1. FileOK
      BY DEF LogInv
    <3> QED BY <1>7, <1>9, <2>1, <3>1, FileLen DEF FileOK
  <2>3. g[i] = f[i] /\ Nth(i)' = Nth(i)
    BY <1>11, <1>15
  <2>4. i # 1 => g[i - 1] = f[i - 1]
    <3>1. i # 1 => i - 1 \in 1..z
      BY <1>10
    <3> QED BY <1>11, <3>1
  <2>5. Sent(k) \in Nat /\ Sent(k)' \in Nat /\ Sent(k) <= Sent(k)'
    <3>1. Sent(k) \in Nat
      BY <2>2 DEF LogInv, BytesOK
    <3> QED BY <1>3, <1>5, <1>14, <1>17, <2>2, <3>1
  <2>6. Nth(i) \in 1..Sent(k)'
    BY <2>2, <2>5
  <2> QED BY <2>1, <2>2, <2>3, <2>4, <2>6
<1>19. ASSUME NEW k \in 1..m PROVE P(z + k)
  <2>1. g[z + k][1] = l /\ g[z + k][2] = logged[l][n + k] /\ Nth(z + k)' = n + k
    BY <1>5, <1>12, <1>15
  <2>2. n + k \in 1..(n + m)
    BY <1>5
  <2>3. CASE k = 1
    <3>1. EntryEnds(l, n) /\ n + Waiting(l) = Len(logged[l])
      BY <1>3 DEF LogInv, BytesOK
    <3>2. Waiting(l) \in Int
      BY DEF LogInv, Control, LogTypes, Waiting
    <3>3. n # Len(logged[l])
      BY <1>5, <2>3, <3>1, <3>2
    <3>4. logged[l][n + k][2] = 1
      BY <2>3, <3>1, <3>3 DEF EntryEnds
    <3> QED BY <1>14, <2>1, <2>2, <3>4
  <2>4. CASE k # 1
    <3>1. PICK i : i = z + k
      OBVIOUS
    <3>2. Nth(i)' = n + k /\ g[i][1] = l /\ g[i][2] = logged[l][n + k]
      BY <2>1, <3>1
    <3>3. i # 1 /\ g[i - 1][1] = l
      <4>1. k \in Nat /\ z \in Nat /\ k - 1 \in 1..m /\ i - 1 = z + (k - 1)
        BY <1>5, <1>10, <2>4, <3>1
      <4>2. g[z + (k - 1)][1] = l
        BY <1>5, <1>12, <4>1
      <4> QED BY <4>1, <4>2
    <3>4. Sent(g[i][1])' = n + m
      BY <1>14, <3>2 DEF Sent
    <3>5. P(i)
      BY <2>2, <3>2, <3>3, <3>4
    <3> HIDE DEF P
    <3> QED BY <3>1, <3>5
  <2> QED BY <2>3, <2>4
<1>20. ASSUME NEW i \in 1..(z + m) PROVE P(i)
  <2>1. CASE i <= z
    <3>1. i \in 1..z
      BY <1>10, <2>1
    <3> QED BY <1>18, <3>1
  <2>2. CASE ~(i <= z)
    <3>1. PICK k : k = i - z
      OBVIOUS
    <3>2. k \in 1..m /\ i = z + k
      BY <1>5, <1>10, <2>2, <3>1
    <3> HIDE DEF P
    <3>3. P(z + k)
      BY <1>19, <3>2
    <3> QED BY <3>2, <3>3
  <2> QED BY <2>1, <2>2
<1>21. FileOK'
  <2>1. g \in Seq(Loggers \X Byte) /\ Len(g) = z + m
    BY <1>10
  <2> QED BY <1>17, <1>20, <2>1 DEF FileOK
<1> QED BY <1>16, <1>21

\* Every step keeps the inductive invariant.
LEMMA LogInvStep ==
  ASSUME LogInv, [LogNext]_logVars
  PROVE  LogInv'
<1>1. Control'
  BY ControlStep DEF LogInv
<1>2. SUFFICES ASSUME ~failed' PROVE FileOK' /\ \A k \in Loggers : BytesOK(k)'
  BY <1>1 DEF LogInv
<1>3. CASE \E l \in Loggers : Construct(l) \/ Log(l) \/ FlushOwn(l) \/ RemoveLogger(l)
  <2>1. /\ UNCHANGED <<memory, next_write, next_read, logged, file, failed>>
        /\ flushing' = flushing \/ "none" = flushing'.of
    BY <1>3 DEF Construct, Log, FlushOwn, RemoveLogger, buffers, written, Idle
  <2> QED BY <1>2, <2>1, StillOK
<1>4. CASE \E l \in Loggers : Allocate(l) \/ Rewind(l) \/ Copy(l) \/ Advance(l)
  <2>1. ~failed
    BY <1>2, <1>4 DEF Allocate, Rewind, Copy, Advance, written
  <2> QED BY <1>4, <2>1, AllocateOK, RewindOK, CopyOK, AdvanceOK
<1>5. CASE FlushTake
  <2>1. ~failed
    BY <1>2, <1>5 DEF FlushTake, written
  <2> QED BY <1>5, <2>1, FlushTakeOK
<1>6. CASE FlushWrite
  <2>1. ~failed
    <3>1. PICK i : failed' = (failed \/ i < Len(Bytes(flushing.of, next_read[flushing.of], flushing.upto)))
      BY <1>6 DEF FlushWrite
    <3> QED BY <1>2, <3>1, Zenon
  <2> QED BY <1>2, <1>6, <2>1, FlushWriteOK
<1>7. CASE FlushDone \/ ThreadFlushes \/ ThreadStarts \/ destroy_log_thread \/ UNCHANGED logVars
  <2>1. UNCHANGED <<memory, next_write, next_read, logged, file, failed>>
    BY <1>7 DEF FlushDone, ThreadFlushes, ThreadStarts, destroy_log_thread, logVars, buffers, written
  <2>2. CASE FlushDone \/ ThreadFlushes
    <3>1. "none" = flushing'.of
      <4>1. CASE FlushDone
        BY <4>1 DEF FlushDone, Idle
      <4>2. CASE ThreadFlushes
        <5>1. flushing' = [Idle EXCEPT !.by = "log", !.todo = logger_store]
          BY <4>2 DEF ThreadFlushes
        <5> QED BY <5>1 DEF Idle
      <4> QED BY <2>2, <4>1, <4>2
    <3> QED BY <1>2, <2>1, <3>1, StillOK
  <2>3. CASE ThreadStarts \/ destroy_log_thread \/ UNCHANGED logVars
    <3>1. flushing' = flushing
      BY <2>3 DEF ThreadStarts, destroy_log_thread, logVars
    <3> QED BY <1>2, <2>1, <3>1, StillOK
  <2> QED BY <1>7, <2>2, <2>3
<1> QED BY <1>3, <1>4, <1>5, <1>6, <1>7 DEF LogNext

\* The inductive invariant implies what the run checks.
LEMMA LogInvComplete == ASSUME LogInv PROVE LogComplete
<1> SUFFICES ASSUME ~failed
             PROVE  /\ \A i \in 1..Len(file) : /\ Nth(i) <= Len(logged[file[i][1]])
                                               /\ file[i][2] = logged[file[i][1]][Nth(i)]
                    /\ \A l \in Loggers :
                         /\ Sent(l) + Waiting(l) = Len(logged[l])
                         /\ \A k \in 1..Waiting(l) : memory[l][next_read[l] + k] = logged[l][Sent(l) + k]
                         /\ owner[l] = "gone" => Waiting(l) = 0
                    /\ \A i \in 1..Len(file) :
                         i = 1 \/ file[i - 1][1] # file[i][1] => file[i][2][2] = 1
  BY DEF LogComplete
<1>1. FileOK /\ \A l \in Loggers : BytesOK(l)
  BY DEF LogInv
<1>2. ASSUME NEW l \in Loggers
      PROVE  /\ Waiting(l) \in Nat /\ Sent(l) \in Nat
             /\ owner[l] = "gone" => Waiting(l) = 0
  <2>1. /\ next_read[l] \in Nat /\ next_write[l] \in Nat /\ next_read[l] <= next_write[l]
        /\ owner[l] = "gone" => next_read[l] = next_write[l]
    BY DEF LogInv, Control, LogTypes, OwnerControl
  <2>2. Sent(l) \in Nat
    BY <1>1 DEF BytesOK
  <2> QED BY <2>1, <2>2 DEF Waiting
<1>3. ASSUME NEW i \in 1..Len(file) PROVE Nth(i) <= Len(logged[file[i][1]])
  <2>1. PICK l : l = file[i][1]
    OBVIOUS
  <2>2. l \in Loggers
    BY <1>1, <2>1, FileLen
  <2>3. Nth(i) \in 1..Sent(l) /\ Sent(l) + Waiting(l) = Len(logged[l])
    BY <1>1, <2>1, <2>2 DEF FileOK, BytesOK
  <2> QED BY <1>2, <2>1, <2>2, <2>3
<1> QED BY <1>1, <1>2, <1>3 DEF FileOK, BytesOK

\* The pointers of every logger stay in order, and whatever the interleaving of
\* owners, log thread and flushes, file and buffers hold what was logged.
THEOREM LogInvariance == LogSpec => []LogInv
<1>1. LogInit => LogInv
  BY InitInv
<1>2. LogInv /\ [LogNext]_logVars => LogInv'
  BY LogInvStep
<1> QED BY <1>1, <1>2, PTL DEF LogSpec

\* For any number of threads, any buffer size and any entries that fit: no byte
\* logged is lost, doubled, reordered or torn as long as no write fails
\* (log.cpp:88-123, log.h:246-265).
THEOREM LogIsComplete == LogSpec => []LogComplete
<1>1. LogInv => LogComplete
  BY LogInvComplete
<1> QED BY <1>1, LogInvariance, PTL

-----------------------------------------------------------------------------
\* Every set of naturals that is not empty has a least element.
LEMMA Smallest ==
  ASSUME NEW T, T \subseteq Nat, T # {}
  PROVE  \E m \in T : \A k \in T : m <= k
<1> DEFINE Less == {p \in Nat \X Nat : p[1] < p[2]}
<1>1. IsWellFoundedOn(Less, Nat)
  <2>1. Less = OpToRel(<, Nat)
    BY DEF OpToRel
  <2> QED BY <2>1, NatLessThanWellFounded
<1>2. PICK m \in T : \A k \in T : <<k, m>> \notin Less
  <2> HIDE DEF Less
  <2> QED BY <1>1, WFMin
<1>3. ASSUME NEW k \in T PROVE m <= k
  <2>1. k \in Nat /\ m \in Nat
    OBVIOUS
  <2>2. k < m => <<k, m>> \in Less
    BY <2>1
  <2> QED BY <1>2, <2>1, <2>2
<1> QED BY <1>3

\* Induction over the naturals, for a set.
LEMMA Induction ==
  ASSUME NEW S, 0 \in S, \A n \in Nat : n \in S => n + 1 \in S
  PROVE  Nat \subseteq S
<1> SUFFICES ASSUME ~(Nat \subseteq S) PROVE FALSE
  OBVIOUS
<1> DEFINE T == Nat \ S
<1>1. PICK m \in T : \A k \in T : m <= k
  BY Smallest
<1>2. m - 1 \in Nat /\ m - 1 \notin T
  BY <1>1
<1> QED BY <1>1, <1>2

\* The types that the tables name, and the states of a scan of a format string.
Types == {Custom[c] : c \in DOMAIN Custom} \cup {"bad_type", "double_t", "float_t"}
           \cup UNION {{Conversion[c][m] : m \in DOMAIN Conversion[c]} : c \in DOMAIN Conversion}
Mods == {"NONE", "h", "hh", "l", "ll"}
States == [state : {"COPY", "SPECIFIER", "CUSTOM"}, mod : Mods, types : Seq(Types)]
Clean(a) == type_list_check(a.types)

\* What the parts of a step do to a state.
LEMMA EntersIs ==
  ASSUME NEW a \in States, NEW st \in {"COPY", "SPECIFIER", "CUSTOM"}
  PROVE  Enters(a, st) \in States /\ Enters(a, st).state = st /\ Enters(a, st).mod = a.mod
         /\ Enters(a, st).types = a.types
BY DEF Enters, States

\* A percent sign begins a conversion without a modifier.
LEMMA BeginsIs ==
  ASSUME NEW a \in States
  PROVE  Begins(a) \in States /\ Begins(a).types = a.types
BY DEF Begins, States, Mods

\* A modifier leaves the types alone.
LEMMA ModifiesIs ==
  ASSUME NEW a \in States, NEW c \in {"h", "l"}
  PROVE  Modifies(a, c) \in States /\ Modifies(a, c).types = a.types
<1>1. Modified(a.mod, c) \in Mods
  BY DEF Modified, Mods
<1> QED BY <1>1 DEF Modifies, States

\* A type is added at the end: what is clean now was clean before.
LEMMA AddsIs ==
  ASSUME NEW a \in States, NEW type \in Types
  PROVE  /\ Adds(a, type) \in States /\ Adds(a, type).state = a.state
         /\ Clean(Adds(a, type)) => Clean(a) /\ type # "bad_type"
<1>1. PICK t \in Seq(Types) : t = a.types
  BY DEF States
<1>2. PICK u \in Seq(Types) : u = Append(t, type)
  <2>1. Append(t, type) \in Seq(Types)
    OBVIOUS
  <2> QED BY <2>1
<1>3. Adds(a, type) \in States /\ Adds(a, type).state = a.state /\ Adds(a, type).types = u
  BY <1>1, <1>2 DEF Adds, States
<1>5. Len(u) = Len(t) + 1 /\ u[Len(t) + 1] = type /\ \A i \in 1..Len(t) : u[i] = t[i]
  BY <1>2
<1>7. ASSUME Clean(Adds(a, type)) PROVE Clean(a) /\ type # "bad_type"
  <2>1. \A i \in 1..Len(u) : u[i] # "bad_type"
    BY <1>3, <1>7 DEF Clean, type_list_check
  <2>2. \A i \in 1..Len(t) : t[i] # "bad_type"
    BY <1>5, <2>1
  <2>3. u[Len(t) + 1] # "bad_type"
    BY <1>5, <2>1
  <2> QED BY <1>1, <1>5, <2>2, <2>3 DEF Clean, type_list_check
<1> QED BY <1>3, <1>7

\* A conversion adds its type and is over.
LEMMA TakesIs ==
  ASSUME NEW a \in States, NEW type \in Types
  PROVE  /\ Takes(a, type) \in States /\ Takes(a, type).state = "COPY"
         /\ Clean(Takes(a, type)) => Clean(a) /\ type # "bad_type"
<1>1. PICK b \in States : b = Enters(a, "COPY") /\ b.state = "COPY" /\ b.types = a.types
  BY EntersIs
<1>2. Clean(b) => Clean(a)
  BY <1>1 DEF Clean
<1> QED BY <1>1, <1>2, AddsIs DEF Takes

\* The tables hold names of types.
LEMMA TablesHoldTypes ==
  /\ DOMAIN Conversion = {"d", "u", "c", "f", "F"}
  /\ "0" \notin DOMAIN Custom /\ "bad_type" \in Types
  /\ \A c \in DOMAIN Custom : Custom[c] \in Types
  /\ \A c \in DOMAIN Conversion : \A m \in DOMAIN Conversion[c] : Conversion[c][m] \in Types
<1>1. DOMAIN Conversion = {"d", "u", "c", "f", "F"}
  BY DEF Conversion
<1>2. DOMAIN Custom = {"n", "i", "p", "e", "E", "g", "v", "c", "m", "l"}
  BY DEF Custom
<1>3. "bad_type" \in Types /\ \A c \in DOMAIN Custom : Custom[c] \in Types
  BY DEF Types
<1>4. \A c \in DOMAIN Conversion : \A m \in DOMAIN Conversion[c] : Conversion[c][m] \in Types
  BY DEF Types
<1> QED BY <1>1, <1>2, <1>3, <1>4

\* Converting keeps what was clean, whatever the modifier.
LEMMA ConvertedIs ==
  ASSUME NEW a \in States, NEW c \in DOMAIN Conversion
  PROVE  /\ TypeConverted(a, c) \in States
         /\ Clean(TypeConverted(a, c)) => Clean(a)
<1>1. ASSUME a.mod \in DOMAIN Conversion[c] PROVE Conversion[c][a.mod] \in Types
  BY <1>1, TablesHoldTypes
<1>2. Enters(a, "COPY") \in States /\ (Clean(Enters(a, "COPY")) => Clean(a))
  BY EntersIs DEF Clean
<1>3. CASE a.mod \in DOMAIN Conversion[c]
  BY <1>1, <1>3, TakesIs DEF TypeConverted
<1>4. CASE a.mod \notin DOMAIN Conversion[c]
  BY <1>2, <1>4, TakesIs, TablesHoldTypes DEF TypeConverted
<1> QED BY <1>3, <1>4

\* A step of the type list keeps what it has, and the reader takes the same step unless a
\* bad type is added.
LEMMA StepSame ==
  ASSUME NEW a \in States, NEW c
  PROVE  /\ TypeStep(a, c) \in States
         /\ Clean(TypeStep(a, c)) => Clean(a)
         /\ Clean(TypeStep(a, c)) /\ c \notin {"f", "F", "c"} => TypeStep(a, c) = ReadStep(a, c)
         /\ c = "0" /\ Clean(TypeStep(a, c)) => a.state = "COPY" /\ TypeStep(a, c) = a
<1>1. a.state \in {"COPY", "SPECIFIER", "CUSTOM"}
  BY DEF States
<1>2. CASE a.state = "COPY"
  <2>1. TypeStep(a, c) = IF c = "%" THEN Begins(a) ELSE a
    BY <1>2 DEF TypeStep
  <2>2. ReadStep(a, c) = IF c = "%" THEN Begins(a) ELSE a
    BY <1>2 DEF ReadStep
  <2>3. Clean(Begins(a)) => Clean(a)
    BY BeginsIs DEF Clean
  <2> QED BY <1>2, <2>1, <2>2, <2>3, BeginsIs
<1>3. CASE a.state = "CUSTOM"
  <2>1. TypeStep(a, c) = Takes(a, IF c \in DOMAIN Custom THEN Custom[c] ELSE "bad_type")
    BY <1>3 DEF TypeStep
  <2>2. ReadStep(a, c) = IF c \in DOMAIN Custom THEN Takes(a, Custom[c]) ELSE Enters(a, "COPY")
    BY <1>3 DEF ReadStep
  <2>3. CASE c \in DOMAIN Custom
    <3>1. Custom[c] \in Types /\ c # "0"
      BY <2>3, TablesHoldTypes DEF Custom
    <3> QED BY <2>1, <2>2, <2>3, <3>1, TakesIs
  <2>4. CASE c \notin DOMAIN Custom
    BY <2>1, <2>4, TakesIs, TablesHoldTypes
  <2> QED BY <2>3, <2>4
<1>4. CASE a.state = "SPECIFIER"
  <2>1. CASE c = "%"
    <3>1. TypeStep(a, c) = Enters(a, "COPY") /\ ReadStep(a, c) = Enters(a, "COPY")
      BY <1>4, <2>1 DEF TypeStep, ReadStep, Conversion
    <3>2. Clean(Enters(a, "COPY")) => Clean(a)
      BY EntersIs DEF Clean
    <3> QED BY <2>1, <3>1, <3>2, EntersIs
  <2>2. CASE c \in DOMAIN Conversion
    <3>1. c \in {"d", "u", "c", "f", "F"}
      BY <2>2, TablesHoldTypes
    <3>2. TypeStep(a, c) = TypeConverted(a, c)
      BY <1>4, <2>2, <3>1 DEF TypeStep
    <3>3. c \in {"d", "u"} => ReadStep(a, c) = ReadsInteger(a, c)
      BY <1>4 DEF ReadStep
    <3>4. c \in {"d", "u"} => ReadsInteger(a, c) = TypeConverted(a, c)
      BY DEF ReadsInteger, TypeConverted
    <3> QED BY <2>2, <3>1, <3>2, <3>3, <3>4, ConvertedIs
  <2>3. CASE c = "v" /\ a.mod = "NONE"
    <3>1. TypeStep(a, c) = Enters(a, "CUSTOM") /\ ReadStep(a, c) = Enters(a, "CUSTOM")
      BY <1>4, <2>3 DEF TypeStep, ReadStep, Conversion
    <3>2. Clean(Enters(a, "CUSTOM")) => Clean(a)
      BY EntersIs DEF Clean
    <3> QED BY <2>3, <3>1, <3>2, EntersIs
  <2>4. CASE c \in {"h", "l"} /\ a.mod \in {"NONE", c}
    <3>1. TypeStep(a, c) = Modifies(a, c) /\ ReadStep(a, c) = Modifies(a, c)
      BY <1>4, <2>4 DEF TypeStep, ReadStep, Conversion
    <3>2. Clean(Modifies(a, c)) => Clean(a)
      BY <2>4, ModifiesIs DEF Clean
    <3> QED BY <2>4, <3>1, <3>2, ModifiesIs
  <2>5. CASE /\ c # "%" /\ c \notin DOMAIN Conversion /\ ~(c = "v" /\ a.mod = "NONE")
             /\ ~(c \in {"h", "l"} /\ a.mod \in {"NONE", c})
    <3>1. TypeStep(a, c) = Adds(a, "bad_type")
      BY <1>4, <2>5 DEF TypeStep
    <3> QED BY <3>1, AddsIs, TablesHoldTypes
  <2> QED BY <2>1, <2>2, <2>3, <2>4, <2>5
<1> QED BY <1>1, <1>2, <1>3, <1>4
\* The states of TypeStates are those of its recursion.
LEMMA TypeStatesDef ==
  ASSUME NEW C, NEW s \in Seq(C)
  PROVE  /\ TypeStates(s)[0] = Start
         /\ \A i \in 1..Len(s) : TypeStates(s)[i] = TypeStep(TypeStates(s)[i - 1], s[i])
<1> DEFINE B(f, i) == IF i = 0 THEN Start ELSE TypeStep(f[i - 1], s[i])
           F(f) == f = [i \in 0..Len(s) |-> B(f, i)]
           S == {k \in Nat : \E f : \A i \in 0..Len(s) : i < k => f[i] = B(f, i)}
<1>1. Len(s) \in Nat
  OBVIOUS
<1>2. 0 \in S
  <2>1. \A i \in 0..Len(s) : i < 0 => {}[i] = B({}, i)
    BY <1>1
  <2> HIDE DEF B
  <2> QED BY <2>1
<1>3. ASSUME NEW k \in Nat, k \in S PROVE k + 1 \in S
  <2>1. PICK f : \A i \in 0..Len(s) : i < k => f[i] = B(f, i)
    BY <1>3
  <2>2. PICK b : b = B(f, k)
    OBVIOUS
  <2>3. PICK g : g = [i \in 0..Len(s) |-> IF i = k THEN b ELSE f[i]]
    OBVIOUS
  <2>4. ASSUME NEW i \in 0..Len(s), i < k + 1 PROVE g[i] = B(g, i)
    <3>1. i # 0 => g[i - 1] = f[i - 1]
      BY <1>1, <2>3, <2>4
    <3>2. B(g, i) = B(f, i)
      BY <3>1, Zenon
    <3> HIDE DEF B
    <3>3. CASE i = k
      BY <2>2, <2>3, <3>2, <3>3
    <3>4. CASE i # k
      BY <1>1, <2>1, <2>3, <2>4, <3>2, <3>4
    <3> QED BY <3>3, <3>4
  <2> HIDE DEF B
  <2> QED BY <2>4
<1>4. Len(s) + 1 \in S
  <2>1. \A k \in Nat : k \in S => k + 1 \in S
    BY <1>3
  <2> HIDE DEF S
  <2> QED BY <1>1, <1>2, <2>1, Induction
<1>5. \E f : F(f)
  <2>1. PICK f : \A i \in 0..Len(s) : i < Len(s) + 1 => f[i] = B(f, i)
    BY <1>4
  <2>2. PICK g : g = [i \in 0..Len(s) |-> f[i]]
    OBVIOUS
  <2>3. ASSUME NEW i \in 0..Len(s) PROVE g[i] = B(g, i)
    <3>1. i # 0 => g[i - 1] = f[i - 1]
      BY <1>1, <2>2
    <3>2. B(g, i) = B(f, i)
      BY <3>1, Zenon
    <3> HIDE DEF B
    <3> QED BY <1>1, <2>1, <2>2, <3>2
  <2>4. F(g)
    <3> HIDE DEF B
    <3> QED BY <2>2, <2>3
  <2> HIDE DEF F
  <2> QED BY <2>4
<1>6. TypeStates(s) = CHOOSE f : F(f)
  BY Zenon DEF TypeStates
<1>7. F(TypeStates(s))
  <2> HIDE DEF F
  <2> QED BY <1>5, <1>6
<1>8. PICK f : f = TypeStates(s)
  OBVIOUS
<1>9. f = [i \in 0..Len(s) |-> B(f, i)]
  BY <1>7, <1>8, Zenon
<1>10. f[0] = Start
  BY <1>1, <1>9
<1>11. ASSUME NEW i \in 1..Len(s) PROVE f[i] = TypeStep(f[i - 1], s[i])
  BY <1>1, <1>9
<1> QED BY <1>8, <1>10, <1>11

\* The states of ReadStates are those of its recursion.
LEMMA ReadStatesDef ==
  ASSUME NEW C, NEW s \in Seq(C)
  PROVE  /\ ReadStates(s)[0] = Start
         /\ \A i \in 1..Len(s) : ReadStates(s)[i] = ReadStep(ReadStates(s)[i - 1], s[i])
<1> DEFINE B(f, i) == IF i = 0 THEN Start ELSE ReadStep(f[i - 1], s[i])
           F(f) == f = [i \in 0..Len(s) |-> B(f, i)]
           S == {k \in Nat : \E f : \A i \in 0..Len(s) : i < k => f[i] = B(f, i)}
<1>1. Len(s) \in Nat
  OBVIOUS
<1>2. 0 \in S
  <2>1. \A i \in 0..Len(s) : i < 0 => {}[i] = B({}, i)
    BY <1>1
  <2> HIDE DEF B
  <2> QED BY <2>1
<1>3. ASSUME NEW k \in Nat, k \in S PROVE k + 1 \in S
  <2>1. PICK f : \A i \in 0..Len(s) : i < k => f[i] = B(f, i)
    BY <1>3
  <2>2. PICK b : b = B(f, k)
    OBVIOUS
  <2>3. PICK g : g = [i \in 0..Len(s) |-> IF i = k THEN b ELSE f[i]]
    OBVIOUS
  <2>4. ASSUME NEW i \in 0..Len(s), i < k + 1 PROVE g[i] = B(g, i)
    <3>1. i # 0 => g[i - 1] = f[i - 1]
      BY <1>1, <2>3, <2>4
    <3>2. B(g, i) = B(f, i)
      BY <3>1, Zenon
    <3> HIDE DEF B
    <3>3. CASE i = k
      BY <2>2, <2>3, <3>2, <3>3
    <3>4. CASE i # k
      BY <1>1, <2>1, <2>3, <2>4, <3>2, <3>4
    <3> QED BY <3>3, <3>4
  <2> HIDE DEF B
  <2> QED BY <2>4
<1>4. Len(s) + 1 \in S
  <2>1. \A k \in Nat : k \in S => k + 1 \in S
    BY <1>3
  <2> HIDE DEF S
  <2> QED BY <1>1, <1>2, <2>1, Induction
<1>5. \E f : F(f)
  <2>1. PICK f : \A i \in 0..Len(s) : i < Len(s) + 1 => f[i] = B(f, i)
    BY <1>4
  <2>2. PICK g : g = [i \in 0..Len(s) |-> f[i]]
    OBVIOUS
  <2>3. ASSUME NEW i \in 0..Len(s) PROVE g[i] = B(g, i)
    <3>1. i # 0 => g[i - 1] = f[i - 1]
      BY <1>1, <2>2
    <3>2. B(g, i) = B(f, i)
      BY <3>1, Zenon
    <3> HIDE DEF B
    <3> QED BY <1>1, <2>1, <2>2, <3>2
  <2>4. F(g)
    <3> HIDE DEF B
    <3> QED BY <2>2, <2>3
  <2> HIDE DEF F
  <2> QED BY <2>4
<1>6. ReadStates(s) = CHOOSE f : F(f)
  BY Zenon DEF ReadStates
<1>7. F(ReadStates(s))
  <2> HIDE DEF F
  <2> QED BY <1>5, <1>6
<1>8. PICK f : f = ReadStates(s)
  OBVIOUS
<1>9. f = [i \in 0..Len(s) |-> B(f, i)]
  BY <1>7, <1>8, Zenon
<1>10. f[0] = Start
  BY <1>1, <1>9
<1>11. ASSUME NEW i \in 1..Len(s) PROVE f[i] = ReadStep(f[i - 1], s[i])
  BY <1>1, <1>9
<1> QED BY <1>8, <1>10, <1>11

\* A format string that compiles is read as it was typed.
LEMMA ReadsTheTypes ==
  ASSUME NEW C, NEW s \in Seq(C), Compiles(s), ~\E i \in 1..Len(s) : s[i] \in {"f", "F", "c"}
  PROVE  createLogsString(s) = formatstring_type_list(Append(s, "0"))
<1>1. PICK n \in Nat : n = Len(s)
  OBVIOUS
<1>2. PICK z : z = Append(s, "0")
  OBVIOUS
<1>3. z \in Seq(C \cup {"0"}) /\ Len(z) = n + 1 /\ z[n + 1] = "0" /\ \A i \in 1..n : z[i] = s[i]
  BY <1>1, <1>2
<1>4. PICK T : T = TypeStates(z)
  OBVIOUS
<1>5. PICK R : R = ReadStates(s)
  OBVIOUS
<1>6. T[0] = Start /\ \A i \in 1..(n + 1) : T[i] = TypeStep(T[i - 1], z[i])
  BY <1>3, <1>4, TypeStatesDef
<1>7. R[0] = Start /\ \A i \in 1..n : R[i] = ReadStep(R[i - 1], s[i])
  BY <1>1, <1>5, ReadStatesDef
\* Every state of the list is one.
<1>8. \A i \in 0..(n + 1) : T[i] \in States
  <2> DEFINE S == {k \in Nat : k <= n + 1 => T[k] \in States}
  <2>1. Start \in States
    BY DEF Start, States, Mods
  <2>2. 0 \in S
    BY <1>6, <2>1
  <2>3. ASSUME NEW k \in Nat, k \in S PROVE k + 1 \in S
    <3>1. SUFFICES ASSUME k + 1 <= n + 1 PROVE T[k + 1] \in States
      OBVIOUS
    <3>2. T[k] \in States /\ T[k + 1] = TypeStep(T[(k + 1) - 1], z[k + 1])
      BY <1>6, <2>3, <3>1
    <3>3. TypeStep(T[k], z[k + 1]) \in States
      BY <3>2, StepSame
    <3> QED BY <3>2, <3>3
  <2>4. Nat \subseteq S
    <3> HIDE DEF S
    <3> QED BY <2>2, <2>3, Induction
  <2> QED BY <2>4
\* What is clean at the end was clean all the time.
<1>9. Clean(T[n + 1]) /\ formatstring_type_list(z) = T[n + 1].types
  <2>1. PICK end : end = T[n + 1]
    OBVIOUS
  <2>2. end \in States
    BY <1>8, <2>1
  <2>3. formatstring_type_list(z) = IF end.state = "COPY" THEN end.types ELSE Adds(end, "bad_type").types
    BY <1>3, <1>4, <2>1, Zenon DEF formatstring_type_list
  <2>4. type_list_check(formatstring_type_list(z))
    BY <1>2 DEF Compiles
  <2>5. CASE end.state = "COPY"
    BY <2>1, <2>3, <2>4, <2>5 DEF Clean
  <2>6. CASE end.state # "COPY"
    <3>1. Clean(Adds(end, "bad_type"))
      BY <2>3, <2>4, <2>6 DEF Clean
    <3> QED BY <2>2, <3>1, AddsIs, TablesHoldTypes
  <2> QED BY <2>5, <2>6
<1>10. \A i \in 0..(n + 1) : Clean(T[i])
  <2> DEFINE S == {k \in Nat : k <= n + 1 => Clean(T[n + 1 - k])}
  <2>1. 0 \in S
    BY <1>9
  <2>2. ASSUME NEW k \in Nat, k \in S PROVE k + 1 \in S
    <3>1. SUFFICES ASSUME k + 1 <= n + 1 PROVE Clean(T[n + 1 - (k + 1)])
      OBVIOUS
    <3>2. PICK i \in 1..(n + 1) : i = n + 1 - k
      BY <3>1
    <3>3. Clean(T[i]) /\ T[i] = TypeStep(T[i - 1], z[i]) /\ T[i - 1] \in States
      BY <1>6, <1>8, <2>2, <3>1, <3>2
    <3>4. Clean(T[i - 1])
      BY <3>3, StepSame
    <3>5. n + 1 - (k + 1) = i - 1
      BY <3>2
    <3> QED BY <3>4, <3>5
  <2>3. Nat \subseteq S
    <3> HIDE DEF S
    <3> QED BY <2>1, <2>2, Induction
  <2>4. ASSUME NEW i \in 0..(n + 1) PROVE Clean(T[i])
    <3>1. PICK k \in Nat : k = n + 1 - i
      OBVIOUS
    <3>2. k \in S
      BY <2>3, <3>1
    <3>3. k <= n + 1 /\ n + 1 - k = i
      BY <3>1
    <3>4. Clean(T[n + 1 - k])
      BY <3>2, <3>3
    <3> QED BY <3>3, <3>4
  <2> QED BY <2>4
\* The reader is in the same state.
<1>11. R[n] = T[n]
  <2> DEFINE S == {k \in Nat : k <= n => R[k] = T[k]}
  <2>1. 0 \in S
    BY <1>6, <1>7
  <2>2. ASSUME NEW k \in Nat, k \in S PROVE k + 1 \in S
    <3>1. SUFFICES ASSUME k + 1 <= n PROVE R[k + 1] = T[k + 1]
      OBVIOUS
    <3>2. PICK i \in 1..n : i = k + 1
      BY <3>1
    <3>3. i - 1 = k /\ i \in 1..(n + 1) /\ i \in 0..(n + 1) /\ k \in 0..(n + 1)
      BY <3>2
    <3>4. T[i] = TypeStep(T[k], z[i]) /\ R[i] = ReadStep(R[k], s[i]) /\ R[k] = T[k] /\ z[i] = s[i]
      BY <1>3, <1>6, <1>7, <2>2, <3>1, <3>3
    <3>5. Clean(T[i]) /\ T[k] \in States /\ s[i] \notin {"f", "F", "c"}
      BY <1>1, <1>8, <1>10, <3>3
    <3>6. TypeStep(T[k], s[i]) = ReadStep(T[k], s[i])
      BY <3>4, <3>5, StepSame
    <3> QED BY <3>2, <3>4, <3>6
  <2>3. Nat \subseteq S
    <3> HIDE DEF S
    <3> QED BY <2>1, <2>2, Induction
  <2> QED BY <2>3
\* The terminating zero changes nothing.
<1>13. T[n + 1] = T[n]
  <2>1. T[n + 1] = TypeStep(T[(n + 1) - 1], "0") /\ n + 1 \in 0..(n + 1) /\ n \in 0..(n + 1)
    BY <1>3, <1>6
  <2>2. (n + 1) - 1 = n
    OBVIOUS
  <2>3. Clean(TypeStep(T[n], "0")) /\ T[n] \in States
    BY <1>8, <1>10, <2>1, <2>2
  <2> QED BY <2>1, <2>2, <2>3, StepSame
<1>12. createLogsString(s) = R[n].types
  BY <1>1, <1>5, Zenon DEF createLogsString
<1> QED BY <1>2, <1>9, <1>11, <1>13, <1>12
-----------------------------------------------------------------------------
\* The oldest entry of the queue.
LEMMA TopIs ==
  ASSUME NEW q, q \subseteq Nat \X Nat, q # {}
  PROVE  Top(q) \in q /\ \A x \in q : Top(q)[1] <= x[1]
<1> DEFINE T == {e[1] : e \in q}
<1>1. PICK m \in T : \A k \in T : m <= k
  <2>1. T \subseteq Nat /\ T # {}
    OBVIOUS
  <2> HIDE DEF T
  <2> QED BY <2>1, Smallest
<1> DEFINE N == {e[2] : e \in {x \in q : x[1] = m}}
<1>2. PICK n \in N : \A k \in N : n <= k
  <2>1. N \subseteq Nat /\ N # {}
    OBVIOUS
  <2> HIDE DEF N
  <2> QED BY <2>1, Smallest
<1>3. PICK e \in q : e[1] = m /\ e[2] = n
  OBVIOUS
<1>4. ASSUME NEW x \in q PROVE e[1] < x[1] \/ (e[1] = x[1] /\ e[2] <= x[2])
  <2>1. e[1] <= x[1] /\ e[1] \in Nat /\ x[1] \in Nat
    BY <1>1, <1>3
  <2>2. e[1] = x[1] => e[2] <= x[2]
    BY <1>2, <1>3
  <2> QED BY <2>1, <2>2
<1>5. PICK o : o = Top(q)
  OBVIOUS
<1>6. o \in q /\ \A x \in q : o[1] < x[1] \/ (o[1] = x[1] /\ o[2] <= x[2])
  BY <1>4, <1>5, Zenon DEF Top
<1>7. ASSUME NEW x \in q PROVE o[1] <= x[1]
  <2>1. o[1] \in Nat /\ x[1] \in Nat
    BY <1>6
  <2> QED BY <1>6, <2>1
<1> QED BY <1>5, <1>6, <1>7

\* Entries of the file are less than buffer_time out of order.
InWindow(times) == \A i, j \in 1..Len(times) : i < j => times[i] - times[j] < buffer_time
Sorted(times) == \A i, j \in 1..Len(times) : i < j => times[i] <= times[j]

\* What was shown is no later than what waits.
ShownFirst == \A i \in 1..Len(shown) : \A e \in priqueue : shown[i] <= e[1]

\* Before the end of the file an entry is shown only after one that is
\* buffer_time later: what is still to come is no older.
ShownLate == \A i \in 1..Len(shown) : \E j \in 1..Len(seen) : shown[i] + buffer_time <= seen[j]

ReaderInv ==
  /\ fmt \in Seq(Letters) /\ seen \in Seq(Times) /\ shown \in Seq(Times)
  /\ priqueue \subseteq {<<seen[i], i - 1>> : i \in 1..Len(seen)}
  /\ InWindow(seen) => /\ Sorted(shown) /\ ShownFirst
                       /\ Len(seen) < MaxRead => ShownLate

\* A further entry leaves the file before it in the window, and none is
\* buffer_time later.
LEMMA WindowFacts ==
  ASSUME NEW s \in Seq(Times), NEW x \in Times, InWindow(Append(s, x))
  PROVE  InWindow(s) /\ \A i \in 1..Len(s) : s[i] - x < buffer_time
<1>1. PICK f \in Seq(Times) : f = Append(s, x)
  <2>1. Append(s, x) \in Seq(Times)
    OBVIOUS
  <2> QED BY <2>1
<1>2. Len(f) = Len(s) + 1 /\ f[Len(s) + 1] = x /\ \A i \in 1..Len(s) : f[i] = s[i]
  BY <1>1
<1>3. \A i, j \in 1..Len(f) : i < j => f[i] - f[j] < buffer_time
  BY <1>1 DEF InWindow
<1>4. Len(s) \in Nat
  OBVIOUS
<1>5. ASSUME NEW i \in 1..Len(s), NEW j \in 1..Len(s), i < j PROVE s[i] - s[j] < buffer_time
  BY <1>2, <1>3, <1>4, <1>5
<1>6. ASSUME NEW i \in 1..Len(s) PROVE s[i] - x < buffer_time
  <2>1. i \in 1..Len(f) /\ Len(s) + 1 \in 1..Len(f) /\ i < Len(s) + 1
    BY <1>2, <1>4
  <2> QED BY <1>2, <1>3, <2>1
<1> QED BY <1>5, <1>6 DEF InWindow

\* Showing what is no earlier than the rest keeps the order.
LEMMA SortedAppend ==
  ASSUME NEW s \in Seq(Times), NEW x \in Times, Sorted(s), \A i \in 1..Len(s) : s[i] <= x
  PROVE  Sorted(Append(s, x))
<1>1. PICK f \in Seq(Times) : f = Append(s, x)
  <2>1. Append(s, x) \in Seq(Times)
    OBVIOUS
  <2> QED BY <2>1
<1>2. Len(f) = Len(s) + 1 /\ f[Len(s) + 1] = x /\ \A i \in 1..Len(s) : f[i] = s[i]
  BY <1>1
<1>3. Len(s) \in Nat
  OBVIOUS
<1>4. ASSUME NEW i \in 1..Len(f), NEW j \in 1..Len(f), i < j PROVE f[i] <= f[j]
  <2>1. i \in 1..Len(s) /\ f[i] = s[i]
    BY <1>2, <1>3, <1>4
  <2>2. CASE j = Len(s) + 1
    BY <1>2, <2>1, <2>2
  <2>3. CASE j # Len(s) + 1
    <3>1. j \in 1..Len(s) /\ f[j] = s[j]
      BY <1>2, <1>3, <2>3
    <3> QED BY <1>4, <2>1, <3>1 DEF Sorted
  <2> QED BY <2>2, <2>3
<1> QED BY <1>1, <1>4 DEF Sorted

\* The queue holds entries of the file.
LEMMA QueueIs ==
  ASSUME ReaderInv
  PROVE  priqueue \subseteq Times \X Nat /\ Times \subseteq Nat
BY ReaderAssumption DEF ReaderInv

\* Another entry of the file.
LEMMA ReadEntryInv == ASSUME ReaderInv, ReadEntry PROVE ReaderInv'
<1>1. PICK x \in Times :
        LET q == priqueue \cup {<<x, Len(seen)>>}
            away == priqueue # {} /\ Distance(Top(priqueue)[1], x) >= buffer_time
        IN  /\ seen' = Append(seen, x)
            /\ priqueue' = (IF away THEN q \ {Top(q)} ELSE q)
            /\ shown' = (IF away THEN Append(shown, Top(q)[1]) ELSE shown)
  BY DEF ReadEntry
<1>2. PICK q : q = priqueue \cup {<<x, Len(seen)>>}
  OBVIOUS
<1>3. PICK away \in BOOLEAN :
        away <=> priqueue # {} /\ Distance(Top(priqueue)[1], x) >= buffer_time
  OBVIOUS
<1>4. /\ seen' = Append(seen, x)
      /\ priqueue' = (IF away THEN q \ {Top(q)} ELSE q)
      /\ shown' = (IF away THEN Append(shown, Top(q)[1]) ELSE shown)
  BY <1>1, <1>2, <1>3, Zenon
<1>5. /\ seen \in Seq(Times) /\ shown \in Seq(Times) /\ Times \subseteq Nat /\ buffer_time \in Nat
      /\ priqueue \subseteq {<<seen[i], i - 1>> : i \in 1..Len(seen)}
      /\ priqueue \subseteq Times \X Nat /\ Len(seen) \in Nat
  BY QueueIs, ReaderAssumption DEF ReaderInv
<1>6. seen' \in Seq(Times) /\ Len(seen') = Len(seen) + 1 /\ seen'[Len(seen) + 1] = x
      /\ \A i \in 1..Len(seen) : seen'[i] = seen[i]
  BY <1>4, <1>5
<1>7. q \subseteq Times \X Nat /\ q # {} /\ q \subseteq Nat \X Nat
  <2>1. <<x, Len(seen)>> \in Times \X Nat
    BY <1>5
  <2>2. q \subseteq Times \X Nat /\ q # {}
    BY <1>2, <1>5, <2>1
  <2> QED BY <1>5, <2>2
<1>8. PICK o \in q : o = Top(q) /\ \A e \in q : o[1] <= e[1]
  BY <1>7, TopIs
<1>9. o[1] \in Times
  BY <1>7
<1>10. fmt' \in Seq(Letters) /\ shown' \in Seq(Times)
  <2>1. CASE away
    BY <1>4, <1>5, <1>8, <1>9, <2>1 DEF ReadEntry, ReaderInv
  <2>2. CASE ~away
    BY <1>4, <1>5, <2>2 DEF ReadEntry, ReaderInv
  <2> QED BY <2>1, <2>2
<1>11. priqueue' \subseteq {<<seen'[i], i - 1>> : i \in 1..Len(seen')}
  <2>1. ASSUME NEW e \in q PROVE \E i \in 1..(Len(seen) + 1) : e = <<seen'[i], i - 1>>
    <3>1. CASE e \in priqueue
      <4>1. PICK i \in 1..Len(seen) : e = <<seen[i], i - 1>>
        BY <1>5, <3>1
      <4>2. i \in 1..(Len(seen) + 1) /\ seen'[i] = seen[i]
        BY <1>5, <1>6
      <4> QED BY <4>1, <4>2
    <3>2. CASE e = <<x, Len(seen)>>
      <4>1. PICK i \in 1..(Len(seen) + 1) : i = Len(seen) + 1
        BY <1>5
      <4>2. seen'[i] = x /\ i - 1 = Len(seen)
        BY <1>5, <1>6, <4>1
      <4> QED BY <3>2, <4>2
    <3> QED BY <1>2, <3>1, <3>2
  <2>2. priqueue' \subseteq q
    BY <1>4
  <2> QED BY <1>6, <2>1, <2>2
<1>12. /\ \A i \in 1..Len(shown) : shown[i] \in Nat
       /\ \A i \in 1..Len(seen) : seen[i] \in Nat
       /\ x \in Nat
  <2>1. Times \subseteq Nat /\ shown \in Seq(Times) /\ seen \in Seq(Times)
    BY <1>5
  <2>2. \A i \in 1..Len(shown) : shown[i] \in Times
    BY <2>1
  <2>3. \A i \in 1..Len(seen) : seen[i] \in Times
    BY <2>1
  <2> QED BY <2>1, <2>2, <2>3
<1>13. ASSUME InWindow(seen') PROVE Sorted(shown') /\ ShownFirst' /\ ShownLate'
  <2>1. InWindow(seen) /\ \A i \in 1..Len(seen) : seen[i] - x < buffer_time
    BY <1>4, <1>5, <1>13, WindowFacts
  <2>2. Sorted(shown) /\ ShownFirst /\ ShownLate
    BY <2>1 DEF ReaderInv, ReadEntry
  <2>3. ASSUME NEW i \in 1..Len(shown) PROVE shown[i] < x
    <3>1. PICK j \in 1..Len(seen) : shown[i] + buffer_time <= seen[j]
      BY <2>2 DEF ShownLate
    <3>2. seen[j] - x < buffer_time
      BY <2>1
    <3>3. shown[i] \in Nat /\ seen[j] \in Nat /\ x \in Nat
      BY <1>12
    <3> QED BY <1>5, <3>1, <3>2, <3>3
  <2>4. ASSUME NEW i \in 1..Len(shown), NEW e \in q PROVE shown[i] <= e[1]
    <3>1. CASE e \in priqueue
      BY <2>2, <3>1 DEF ShownFirst
    <3>2. CASE e = <<x, Len(seen)>>
      <4>1. shown[i] \in Nat /\ x \in Nat
        BY <1>12
      <4>2. shown[i] < x /\ e[1] = x
        BY <2>3, <3>2
      <4> QED BY <4>1, <4>2
    <3> QED BY <1>2, <3>1, <3>2
  <2>5. ASSUME NEW i \in 1..Len(shown)
        PROVE  \E j \in 1..Len(seen') : shown[i] + buffer_time <= seen'[j]
    <3>1. PICK j \in 1..Len(seen) : shown[i] + buffer_time <= seen[j]
      BY <2>2 DEF ShownLate
    <3>2. j \in 1..Len(seen') /\ seen'[j] = seen[j]
      BY <1>5, <1>6
    <3> QED BY <3>1, <3>2
  <2>6. CASE ~away
    <3>1. shown' = shown /\ priqueue' = q
      BY <1>4, <2>6
    <3>2. ShownFirst'
      BY <2>4, <3>1 DEF ShownFirst
    <3>3. ShownLate'
      BY <2>5, <3>1 DEF ShownLate
    <3> QED BY <2>2, <3>1, <3>2, <3>3
  <2>7. CASE away
    <3>1. PICK p \in priqueue : p = Top(priqueue)
      <4>1. priqueue # {} /\ priqueue \subseteq Nat \X Nat
        BY <1>3, <1>5, <2>7
      <4> QED BY <4>1, TopIs
    <3>2. p[1] + buffer_time <= x
      <4>1. PICK k \in 1..Len(seen) : p = <<seen[k], k - 1>>
        BY <1>5
      <4>2. PICK y \in Nat : y = p[1] /\ y - x < buffer_time
        <5>1. p[1] = seen[k] /\ seen[k] \in Nat /\ seen[k] - x < buffer_time
          BY <1>5, <2>1, <4>1
        <5> QED BY <5>1
      <4>3. Distance(y, x) >= buffer_time
        BY <1>3, <2>7, <3>1, <4>2
      <4>4. x \in Nat
        BY <1>5
      <4> QED BY <1>5, <4>2, <4>3, <4>4 DEF Distance
    <3>3. o[1] <= p[1] /\ o[1] \in Nat /\ p[1] \in Nat
      BY <1>2, <1>5, <1>7, <1>8, <3>1
    <3>4. o[1] + buffer_time <= x
      BY <1>5, <3>2, <3>3
    <3>5. PICK y \in Times : y = o[1]
      BY <1>9
    <3>6. shown' = Append(shown, y) /\ priqueue' = q \ {o}
      BY <1>4, <1>8, <2>7, <3>5
    <3>7. Len(shown') = Len(shown) + 1 /\ shown'[Len(shown) + 1] = y
          /\ Len(shown) \in Nat /\ \A i \in 1..Len(shown) : shown'[i] = shown[i]
      BY <1>5, <3>6
    <3>8. Sorted(shown')
      <4>1. \A i \in 1..Len(shown) : shown[i] <= y
        BY <2>4, <3>5
      <4> QED BY <1>5, <2>2, <3>6, <4>1, SortedAppend
    <3>9. ASSUME NEW i \in 1..Len(shown'), NEW e \in priqueue' PROVE shown'[i] <= e[1]
      <4>1. CASE i = Len(shown) + 1
        BY <1>8, <3>5, <3>6, <3>7, <4>1
      <4>2. CASE i # Len(shown) + 1
        <5>1. i \in 1..Len(shown) /\ e \in q /\ shown'[i] = shown[i]
          BY <3>6, <3>7, <4>2
        <5> QED BY <2>4, <5>1
      <4> QED BY <4>1, <4>2
    <3>10. ASSUME NEW i \in 1..Len(shown')
           PROVE  \E j \in 1..Len(seen') : shown'[i] + buffer_time <= seen'[j]
      <4>1. CASE i = Len(shown) + 1
        <5>1. Len(seen) + 1 \in 1..Len(seen')
          BY <1>5, <1>6
        <5> QED BY <1>6, <3>4, <3>5, <3>7, <4>1, <5>1
      <4>2. CASE i # Len(shown) + 1
        <5>1. i \in 1..Len(shown) /\ shown'[i] = shown[i]
          BY <3>7, <4>2
        <5> QED BY <2>5, <5>1
      <4> QED BY <4>1, <4>2
    <3> QED BY <3>8, <3>9, <3>10 DEF ShownFirst, ShownLate
  <2> QED BY <2>6, <2>7
<1> QED BY <1>6, <1>10, <1>11, <1>13 DEF ReaderInv

\* The end of the file.
LEMMA ReadEndInv == ASSUME ReaderInv, ReadEnd PROVE ReaderInv'
<1>1. /\ seen \in Seq(Times) /\ shown \in Seq(Times) /\ Times \subseteq Nat
      /\ priqueue \subseteq Times \X Nat /\ Len(seen) \in Nat
      /\ priqueue \subseteq {<<seen[i], i - 1>> : i \in 1..Len(seen)}
  BY QueueIs DEF ReaderInv
<1>2. PICK o \in priqueue : o = Top(priqueue) /\ \A e \in priqueue : o[1] <= e[1]
  <2>1. priqueue # {} /\ priqueue \subseteq Nat \X Nat
    BY <1>1 DEF ReadEnd
  <2> QED BY <2>1, TopIs
<1>3. PICK y \in Times : y = o[1]
  BY <1>1
<1>4. shown' = Append(shown, y) /\ priqueue' = priqueue \ {o} /\ seen' = seen /\ fmt' = fmt
      /\ Len(seen) = MaxRead
  BY <1>2, <1>3 DEF ReadEnd
<1>5. shown' \in Seq(Times) /\ Len(shown') = Len(shown) + 1 /\ shown'[Len(shown) + 1] = y
      /\ Len(shown) \in Nat /\ \A i \in 1..Len(shown) : shown'[i] = shown[i]
  BY <1>1, <1>4
<1>6. priqueue' \subseteq {<<seen'[i], i - 1>> : i \in 1..Len(seen')}
  BY <1>1, <1>4
<1>7. ASSUME InWindow(seen') PROVE Sorted(shown') /\ ShownFirst'
  <2>1. Sorted(shown) /\ ShownFirst
    BY <1>4, <1>7 DEF ReaderInv
  <2>2. \A i \in 1..Len(shown) : shown[i] <= y
    BY <1>3, <2>1 DEF ShownFirst
  <2>3. Sorted(shown')
    BY <1>1, <1>4, <2>1, <2>2, SortedAppend
  <2>4. ASSUME NEW i \in 1..Len(shown'), NEW e \in priqueue' PROVE shown'[i] <= e[1]
    <3>1. CASE i = Len(shown) + 1
      BY <1>2, <1>3, <1>4, <1>5, <3>1
    <3>2. CASE i # Len(shown) + 1
      <4>1. i \in 1..Len(shown) /\ shown'[i] = shown[i]
        BY <1>5, <3>2
      <4> QED BY <1>4, <2>1, <4>1 DEF ShownFirst
    <3> QED BY <3>1, <3>2
  <2> QED BY <2>3, <2>4 DEF ShownFirst
<1>8. fmt' \in Seq(Letters) /\ seen' \in Seq(Times) /\ ~(Len(seen') < MaxRead)
  BY <1>1, <1>4 DEF ReaderInv
<1> QED BY <1>5, <1>6, <1>7, <1>8 DEF ReaderInv

\* ReaderInv is inductive.
THEOREM ReaderInvariance == ReaderSpec => []ReaderInv
<1>1. ASSUME ReaderInit PROVE ReaderInv
  BY <1>1 DEF ReaderInit, ReaderInv, InWindow, Sorted, ShownFirst, ShownLate
<1>2. ASSUME ReaderInv, [ReaderNext]_readerVars PROVE ReaderInv'
  <2>1. CASE Letter
    BY <1>2, <2>1 DEF ReaderInv, Letter, ShownFirst, ShownLate
  <2>2. CASE ReadEntry
    BY <1>2, <2>2, ReadEntryInv
  <2>3. CASE ReadEnd
    BY <1>2, <2>3, ReadEndInv
  <2>4. CASE UNCHANGED readerVars
    BY <1>2, <2>4 DEF ReaderInv, readerVars, ShownFirst, ShownLate
  <2> QED BY <1>2, <2>1, <2>2, <2>3, <2>4 DEF ReaderNext
<1> QED BY <1>1, <1>2, PTL DEF ReaderSpec

\* ReaderFaithful is an invariant of the reader: arguments are taken out as the
\* writer stored them, and entries that are less than buffer_time out of order
\* are shown in order (log.cpp:374-597, varadic.h:131-600).
THEOREM ReaderIsFaithful == ReaderSpec => []ReaderFaithful
<1>1. ASSUME ReaderInv PROVE ReaderFaithful
  <2>1. ASSUME Compiles(fmt), ~\E i \in 1..Len(fmt) : fmt[i] \in {"f", "F", "c"}
        PROVE  createLogsString(fmt) = formatstring_type_list(Append(fmt, "0"))
    <3>1. fmt \in Seq(Letters)
      BY <1>1 DEF ReaderInv
    <3> QED BY <2>1, <3>1, ReadsTheTypes
  <2>2. ASSUME InWindow(seen) PROVE Sorted(shown)
    BY <1>1, <2>2 DEF ReaderInv
  <2> QED BY <2>1, <2>2 DEF ReaderFaithful, InWindow, Sorted
<1> QED BY <1>1, ReaderInvariance, PTL
=============================================================================
