------------------------------ MODULE FileCache ------------------------------
(***************************************************************************)
(* The file handler and its cache (mms/server/httpfilehandler.h,           *)
(* server/src/filehandler.cpp): files are loaded once and served from      *)
(* memory by every loop thread, and clients revalidate their copies with   *)
(* If-None-Match.  Files change and the server restarts underneath.        *)
(*                                                                         *)
(* The content of a file is its version number, 0 when a read left part of *)
(* the buffer as malloc gave it.  Modification times are counted in the    *)
(* 2^20 nanoseconds that get_etag keeps of them, an entity tag is a number *)
(* and two digits stand for the eleven of to_string64_hash.                *)
(***************************************************************************)
EXTENDS Integers, Sequences, FiniteSets, FiniteSetsExt

CONSTANTS ServerThreads,
          Files, Directory, DefaultFile,  \* paths, and what the directory stands for
          FileSizes, max_size,
          Unit,          \* 2^20: of the sum that makes a tag, the share of the time
          Radix,         \* of to_string64_hash
          SizeValues,    \* 2^64: values of current_size
          MaxVersions    \* bound: versions of a file

ASSUME FileAssumption ==
  FileSizes \subseteq Nat /\ {Unit, Radix, SizeValues} \subseteq Nat \ {0}

VARIABLES
  disk,          \* file -> [mtime, size, version]; version 0: there is none
  history,       \* <<file, <<mtime, size>>, version>> the disk has held
  cachelist,     \* entries, newest first: [path, size, read, tag, version]
  cachemap,      \* path -> entry
  current_size,
  job,           \* per thread: GetCache under way
  copies,        \* <<path, tag, version>> clients hold
  wrong,         \* a client with another content was told Not_Modified
  tornLoad,      \* a file changed while it was loaded
  partial,       \* a read was short or failed
  broken         \* the containers were used by two threads at a time, or after
                 \* an eviction
fileVars == <<disk, history, cachelist, cachemap, current_size, job, copies, wrong, tornLoad, partial,
              broken>>
cache == <<cachelist, cachemap, current_size>>

NoJob == [pc |-> "idle", path |-> Directory, size |-> 0, read |-> 0, version |-> 0]
Stamp(f) == <<disk[f].mtime, disk[f].size>>
Etag(stamp) == stamp[1] * Unit + stamp[2]
get_etag(f) == Etag(Stamp(f))
Digits(tag) == <<tag \div Radix, tag % Radix>>

FileInit ==
  /\ disk \in [Files -> {[mtime |-> 1, size |-> n, version |-> 1] : n \in FileSizes}]
  /\ history = {<<f, Stamp(f), 1>> : f \in Files}
  /\ cachelist = <<>> /\ cachemap = <<>> /\ current_size = 0
  /\ job = [t \in ServerThreads |-> NoJob]
  /\ copies = {} /\ wrong = FALSE /\ tornLoad = FALSE /\ partial = FALSE /\ broken = FALSE

-----------------------------------------------------------------------------
(***************************************************************************)
(* match_etag: the characters of If-None-Match against a tag.              *)
(***************************************************************************)
Space == -3
Comma == -1
Quote == -2
Separators == {Space, Comma, Quote}

\* Where the next token starts, or the end.
SkipSeparators(list, i) ==
  LET js == {j \in i..Len(list) : list[j] \notin Separators}
  IN  IF js = {} THEN Len(list) + 1 ELSE Min(js)

\* Mutated: a tag that only begins like the entry's matches.
MatchesPrefix(list, i, tag) ==
  LET same == {n \in 0..Len(tag) : n = 0 \/ list[i] = tag[1]}
  IN  [index |-> Max(same), whole |-> Max(same) = Len(tag)]

\* The comparison at one token: characters that agree, and whether the token
\* ends there too.
MatchesAt(list, i, tag) ==
  LET same == {n \in 0..Len(tag) : \A k \in 1..n : list[i + k - 1] = tag[k]}
      n == Max(same)
  IN  [index |-> n, whole |-> n = Len(tag) /\ (i + n > Len(list) \/ list[i + n] \in Separators)]

\* One turn of the loop, from i on: whether the token is the tag, and else where
\* the next turn starts; 0 at the end of the list.  Behind a token that does not
\* match, the search for a separator starts one character after the one that differed.
Turn(list, tag, i) ==
  LET s == SkipSeparators(list, i)
      m == MatchesAt(list, s, tag)
      ends == {j \in (s + m.index + 1)..Len(list) : list[j] \in Separators}
      fits == Len(list) - s + 1 >= Len(tag)
  IN  [whole |-> fits /\ m.whole,
       next  |-> IF fits /\ ~m.whole /\ ends # {} THEN Min(ends) ELSE 0]

Matches(list, tag) ==
  LET from[i \in 1..(Len(list) + 1)] ==
        IF Turn(list, tag, i).whole THEN TRUE
        ELSE IF Turn(list, tag, i).next = 0 THEN FALSE ELSE from[Turn(list, tag, i).next]
  IN  from

match_etag(list, tag) == list # <<>> /\ Matches(list, tag)[1]

-----------------------------------------------------------------------------
(***************************************************************************)
(* The file system and a restart.                                          *)
(***************************************************************************)
Loading(f) == \E t \in ServerThreads : job[t].pc \in {"opened", "read"} /\ job[t].path = f

\* A new content; its modification time may round to the old one.
WriteFile(f) ==
  /\ ~broken /\ disk[f].version < MaxVersions
  /\ \E n \in FileSizes, m \in {disk[f].mtime, disk[f].mtime + 1} :
       disk' = [disk EXCEPT ![f] = [mtime |-> m, size |-> n, version |-> @.version + 1]]
  /\ history' = history \cup {<<f, Stamp(f)', disk'[f].version>>}
  /\ tornLoad' = (tornLoad \/ Loading(f))
  /\ UNCHANGED <<cache, job, copies, wrong, partial, broken>>

Restart ==
  /\ cachelist # <<>>
  /\ cachelist' = <<>> /\ cachemap' = <<>> /\ current_size' = 0 /\ broken' = FALSE
  /\ job' = [t \in ServerThreads |-> NoJob]
  /\ UNCHANGED <<disk, history, copies, wrong, tornLoad, partial>>

-----------------------------------------------------------------------------
(***************************************************************************)
(* ProcessRead and GetCache.                                               *)
(***************************************************************************)
\* 200 to GET, 304 when the client names the entry's tag; nothing a client keeps
\* with HEAD or with 404 for an extension without a type.  A client sends the tags
\* of one or two of its copies, or none; a list that does not match is answered
\* like none.
List(a, b) ==
  LET p == Digits(a)
      q == Digits(b)
  IN  IF a = b THEN <<Quote, p[1], p[2], Quote>>
      ELSE <<p[1], p[2], Comma, Space, q[1], q[2]>>
Sends(e) == copies' = copies \cup {<<e.path, e.tag, e.version>>}
Respond(e) ==
  \/ Sends(e) /\ UNCHANGED wrong
  \/ UNCHANGED <<copies, wrong>>
  \/ \E c, d \in {x \in copies : x[1] = e.path} :
       /\ match_etag(List(c[2], d[2]), Digits(e.tag)) /\ UNCHANGED copies
       /\ wrong' = (wrong \/ <<e.path, e.tag, e.version>> \notin {c, d})

GetFromfileCahce(target) == IF target = Directory THEN DefaultFile ELSE target

\* No lock: another thread between its push_front and its map insert, or in the
\* middle of either, makes every access undefined; nothing is modelled behind it.
Overlaps(t) == \E u \in ServerThreads \ {t} : job[u].pc = "storing"

Hit(t) ==
  /\ ~broken /\ job[t] = NoJob
  /\ \E target \in Files \cup {Directory} :
       LET p == GetFromfileCahce(target) IN p \in DOMAIN cachemap /\ Respond(cachemap[p])
  /\ broken' = (broken \/ Overlaps(t))
  /\ UNCHANGED <<disk, history, cache, job, tornLoad, partial>>

\* is_regular_file, open and fstat; a path outside the root (403) and a file
\* that is not there (404) end here without a change.
Miss(t) ==
  /\ ~broken /\ job[t] = NoJob
  /\ \E target \in Files \cup {Directory} :
       LET p == GetFromfileCahce(target) IN
       /\ p \in Files \ DOMAIN cachemap
       /\ job' = [job EXCEPT ![t] = [NoJob EXCEPT !.pc = "opened", !.path = p, !.size = disk[p].size]]
  /\ broken' = (broken \/ Overlaps(t))
  /\ UNCHANGED <<disk, history, cache, copies, wrong, tornLoad, partial>>

\* read, whose result nobody looks at: the content, up to the size fstat saw, the
\* beginning of it, or -1.
ReadContent(t) ==
  LET j == job[t]
      f == disk[j.path]
  IN  /\ ~broken /\ j.pc = "opened"
      /\ \E n \in -1..Min({f.size, j.size}) :
           /\ job' = [job EXCEPT ![t] = [j EXCEPT !.pc = "read", !.read = n,
                         !.version = IF n = f.size /\ n = j.size THEN f.version ELSE 0]]
           /\ partial' = (partial \/ n < j.size)
      /\ UNCHANGED <<disk, history, cache, copies, wrong, tornLoad, broken>>

\* current_size += read_size: as a size_t, -1 wraps below 0.
Grown(n) == IF current_size + n < 0 THEN current_size + n + SizeValues ELSE current_size + n

\* get_etag from a second fstat, the accounting, and beyond max_size one
\* eviction: back() of a list that may be empty, used after pop_back freed it.
\* An entry the map has already stays there.
Store(t) ==
  LET j == job[t]
      e == [path |-> j.path, size |-> j.size, read |-> j.read, version |-> j.version,
            tag |-> get_etag(j.path)]
  IN  /\ ~broken /\ j.pc = "read" /\ job' = [job EXCEPT ![t].pc = "storing"]
      /\ current_size' = Grown(j.read)
      /\ broken' = (broken \/ Overlaps(t) \/ current_size' > max_size)
      /\ cachelist' = <<e>> \o cachelist
      /\ cachemap' = [p \in DOMAIN cachemap \cup {e.path} |->
                        IF p \in DOMAIN cachemap THEN cachemap[p] ELSE e]
      /\ UNCHANGED <<disk, history, copies, wrong, tornLoad, partial>>

\* The response from the entry at the front of the list.
Loaded(t) ==
  /\ ~broken /\ job[t].pc = "storing" /\ job' = [job EXCEPT ![t] = NoJob]
  /\ Respond(cachelist[1])
  /\ UNCHANGED <<disk, history, cache, tornLoad, partial, broken>>

FileNext ==
  \/ \E f \in Files : WriteFile(f)
  \/ Restart
  \/ \E t \in ServerThreads : Hit(t) \/ Miss(t) \/ ReadContent(t) \/ Store(t) \/ Loaded(t)

FileSpec == FileInit /\ [][FileNext]_fileVars

-----------------------------------------------------------------------------
\* What tells the versions of a file apart in the sum get_etag makes: they differ in
\* time (in units) or size, and their sizes by less than a unit.
VersionsTold ==
  \A a, b \in history :
    a[1] = b[1] /\ a[3] # b[3] => a[2] # b[2] /\ a[2][2] - b[2][2] < Unit

\* The bytes that were read for the first entries of a list.
ReadUpto(list) ==
  LET upto[i \in 0..Len(list)] == IF i = 0 THEN 0 ELSE upto[i - 1] + list[i].read
  IN  upto

\* A client that is told Not_Modified holds the content the server would send,
\* across changes of the file and restarts, as long as no file changed while it
\* was loaded, no read was short and get_etag tells the versions apart
\* (httpfilehandler.h:31-41, 76-112, 141-178).  And while the threads did not
\* meet and nothing was evicted, every mapped entry is in the list, and
\* current_size counts the bytes of whole reads.
FileCacheSound ==
  /\ ~tornLoad /\ ~partial /\ VersionsTold => ~wrong
  /\ ~broken =>
       /\ \A p \in DOMAIN cachemap :
            cachemap[p].path = p /\ \E i \in 1..Len(cachelist) : cachelist[i] = cachemap[p]
       /\ ~partial => current_size = ReadUpto(cachelist)[Len(cachelist)]
=============================================================================
