----------------------------- MODULE MCServices -----------------------------
(***************************************************************************)
(* The parts around the event loop and the HTTP layer: logger and log      *)
(* reader, cache service, file handler, handler paths, TLS connection, UDP *)
(* server and repository.  They share no state, so a behaviour explores    *)
(* one of them.                                                            *)
(***************************************************************************)
EXTENDS Logger, LogReader, CacheService, FileCache, PrefixMap, TlsConnection, UdpServer, Repository

VARIABLE part

mcPaths == UNION {[1..n -> {"/", "a"}] : n \in 0..3}
mcThreadCounts == {-1, 0, 3}
mcRequests == UNION {[1..n -> {"/", "a", "b"}] : n \in 0..3}

\* One initial state of the file system for the parts that do not use it.
MCInit ==
  /\ part \in {"log", "reader", "cache", "files", "paths", "tls", "udp", "repository"}
  /\ LogInit /\ ReaderInit /\ CacheInit /\ FileInit /\ PrefixInit /\ TlsInit /\ UdpInit
  /\ RepositoryInit
  /\ part # "files" => \A f \in Files : disk[f].size = Min(FileSizes)

MCNext ==
  /\ UNCHANGED part
  /\ \/ /\ part = "log" /\ LogNext
        /\ UNCHANGED <<readerVars, cacheVars, fileVars, prefixVars, tlsVars, udpVars, confVars>>
     \/ /\ part = "reader" /\ ReaderNext
        /\ UNCHANGED <<logVars, cacheVars, fileVars, prefixVars, tlsVars, udpVars, confVars>>
     \/ /\ part = "cache" /\ CacheNext
        /\ UNCHANGED <<logVars, readerVars, fileVars, prefixVars, tlsVars, udpVars, confVars>>
     \/ /\ part = "files" /\ FileNext
        /\ UNCHANGED <<logVars, readerVars, cacheVars, prefixVars, tlsVars, udpVars, confVars>>
     \/ /\ part = "paths" /\ AddHandler
        /\ UNCHANGED <<logVars, readerVars, cacheVars, fileVars, tlsVars, udpVars, confVars>>
     \/ /\ part = "tls" /\ TlsNext
        /\ UNCHANGED <<logVars, readerVars, cacheVars, fileVars, prefixVars, udpVars, confVars>>
     \/ /\ part = "udp" /\ UdpNext
        /\ UNCHANGED <<logVars, readerVars, cacheVars, fileVars, prefixVars, tlsVars, confVars>>
     \/ /\ part = "repository" /\ RepositoryNext
        /\ UNCHANGED <<logVars, readerVars, cacheVars, fileVars, prefixVars, tlsVars, udpVars>>

MCSpec ==
  MCInit /\ [][MCNext]_<<part, logVars, readerVars, cacheVars, fileVars, prefixVars, tlsVars,
                         udpVars, confVars>>
=============================================================================
