-------------------------- MODULE CloudFileHandler --------------------------
(***************************************************************************)
(* Serving files of a cloud bucket (handlers/cloud_file_handler.cc).  Each *)
(* request downloads its file under a generated name into the working      *)
(* directory of the server, reads it and removes it.  The counter for the  *)
(* names is static and guarded by a mutex; the directory is shared by all  *)
(* threads, by the scripts they start, and by one run of the program and   *)
(* the next.                                                               *)
(*                                                                         *)
(* A character is a number, and the digits are 0..9.  The "remote_file"    *)
(* that every name begins with is left out.                                *)
(***************************************************************************)
EXTENDS Integers, Sequences

CONSTANTS Threads,       \* the threads that handle requests
          Keys,          \* the files that clients ask for
          Extension,     \* what follows the last "." of a key, or <<>>
          MaxDownloads,  \* bound on the counter
          MaxRestarts,   \* bound on the restarts of the server
          None           \* no file, or an empty response

ASSUME CloudAssumption == /\ Extension \in [Keys -> Seq(Nat)]
                          /\ MaxDownloads \in Nat /\ MaxRestarts \in Nat
                          /\ None \notin Keys

VARIABLES counter,    \* m_downloads_counter
          step,       \* how far the request on each thread has come
          key,        \* file_key
          name,       \* download_name
          contents,   \* the file whose contents the response has
          disk,       \* the file that each name holds the contents of
          orphans,    \* the scripts that have outlived the server that ran them
          restarts,   \* how often the server has been started again
          shared,     \* ghost: names given to a download while in use elsewhere
          abandoned,  \* ghost: names in use when the server ended
          unremoved   \* ghost: names of files that rm has failed to remove

cloudVars ==
  <<counter, step, key, name, contents, disk, orphans, restarts, shared, abandoned, unremoved>>

\* std::to_string
Decimal[n \in Nat] == IF n < 10 THEN <<n>> ELSE Append(Decimal[n \div 10], n % 10)

NameOf(n, k) == Decimal[n] \o Extension[k]

DownloadNames == {NameOf(n, k) : n \in 1..MaxDownloads, k \in Keys}

Busy == {t \in Threads : step[t] # "idle"}

InUse == {name[t] : t \in Busy} \cup {o.name : o \in orphans}

CloudInit == /\ counter = 0
             /\ step = [t \in Threads |-> "idle"]
             /\ key = [t \in Threads |-> None]
             /\ name = [t \in Threads |-> None]
             /\ contents = [t \in Threads |-> None]
             /\ disk = [n \in DownloadNames |-> None]
             /\ orphans = {}
             /\ restarts = 0
             /\ shared = {}
             /\ abandoned = {}
             /\ unremoved = {}

\* The names of a request are made up under the mutex, in one step.
Begin(t, k, n) ==
  /\ step[t] = "idle" /\ counter < MaxDownloads
  /\ step' = [step EXCEPT ![t] = "fetching"]
  /\ key' = [key EXCEPT ![t] = k]
  /\ name' = [name EXCEPT ![t] = n]
  /\ contents' = [contents EXCEPT ![t] = None]
  /\ shared' = shared \cup (InUse \cap {n})
  /\ UNCHANGED <<disk, orphans, restarts, abandoned, unremoved>>

GenerateName(t, k) == Begin(t, k, NameOf(counter + 1, k)) /\ counter' = counter + 1

\* The script puts the whole file in place and reports success.
Fetch(t) == /\ step[t] = "fetching"
            /\ disk' = [disk EXCEPT ![name[t]] = key[t]]
            /\ step' = [step EXCEPT ![t] = "fetched"]
            /\ UNCHANGED <<counter, key, name, contents, orphans, restarts, shared, abandoned, unremoved>>

\* Slip: the exit status of the script is ignored.
FetchFailsUnnoticed(t) ==
  /\ step[t] = "fetching"
  /\ step' = [step EXCEPT ![t] = "fetched"]
  /\ UNCHANGED <<counter, key, name, contents, disk, orphans, restarts, shared, abandoned, unremoved>>

\* The script leaves no file and reports an error; NotFoundHandler answers.
FetchFails(t) ==
  /\ step[t] = "fetching"
  /\ step' = [step EXCEPT ![t] = "idle"]
  /\ UNCHANGED <<counter, key, name, contents, disk, orphans, restarts, shared, abandoned, unremoved>>

\* FileToString yields an empty string when there is no such file.
FileToString(t) ==
  /\ step[t] = "fetched"
  /\ contents' = [contents EXCEPT ![t] = disk[name[t]]]
  /\ step' = [step EXCEPT ![t] = "read"]
  /\ UNCHANGED <<counter, key, name, disk, orphans, restarts, shared, abandoned, unremoved>>

\* Slip: the file is not removed.
CleanUpForgets(t) ==
  /\ step[t] = "read"
  /\ step' = [step EXCEPT ![t] = "idle"]
  /\ UNCHANGED <<counter, key, name, contents, disk, orphans, restarts, shared, abandoned, unremoved>>

\* rm removes the file; that it is gone already is only logged.
CleanUp(t) ==
  /\ step[t] = "read"
  /\ disk' = [disk EXCEPT ![name[t]] = None]
  /\ step' = [step EXCEPT ![t] = "idle"]
  /\ UNCHANGED <<counter, key, name, contents, orphans, restarts, shared, abandoned, unremoved>>

\* rm fails and the file stays; this, too, is only logged, and the answer goes
\* out as if nothing had happened.
CleanUpFails(t) ==
  /\ step[t] = "read"
  /\ unremoved' = unremoved \cup {name[t]}
  /\ step' = [step EXCEPT ![t] = "idle"]
  /\ UNCHANGED <<counter, key, name, contents, disk, orphans, restarts, shared, abandoned>>

\* The server ends at any point, for instance by an exception on some thread
\* (substr throws on a URI that equals the handler's path), and is started
\* again.  The files stay, and so do the scripts.
Restart ==
  /\ restarts < MaxRestarts
  /\ restarts' = restarts + 1
  /\ counter' = 0
  /\ step' = [t \in Threads |-> "idle"]
  /\ contents' = [t \in Threads |-> None]
  /\ orphans' = orphans \cup {[name |-> name[t], key |-> key[t]] :
                                t \in {x \in Threads : step[x] = "fetching"}}
  /\ abandoned' = abandoned \cup {name[t] : t \in Busy}
  /\ UNCHANGED <<key, name, disk, shared, unremoved>>

OrphanEnds(o) ==
  /\ o \in orphans
  /\ orphans' = orphans \ {o}
  /\ disk' = [disk EXCEPT ![o.name] = o.key] \/ UNCHANGED disk
  /\ UNCHANGED <<counter, step, key, name, contents, restarts, shared, abandoned, unremoved>>

CloudNext == \/ \E t \in Threads : \/ \E k \in Keys : GenerateName(t, k)
                                   \/ Fetch(t) \/ FetchFails(t) \/ FileToString(t)
                                   \/ CleanUp(t) \/ CleanUpFails(t)
             \/ Restart
             \/ \E o \in orphans : OrphanEnds(o)

CloudSpec == CloudInit /\ [][CloudNext]_cloudVars
-----------------------------------------------------------------------------
(* The counter, the locals of each request, the directory.                 *)
CloudTypeOK == /\ counter \in 0..MaxDownloads
               /\ step \in [Threads -> {"idle", "fetching", "fetched", "read"}]
               /\ key \in [Threads -> Keys \cup {None}]
               /\ name \in [Threads -> DownloadNames \cup {None}]
               /\ \A t \in Busy : key[t] \in Keys /\ name[t] \in DownloadNames
               /\ contents \in [Threads -> Keys \cup {None}]
               /\ disk \in [DownloadNames -> Keys \cup {None}]
               /\ orphans \subseteq [name : DownloadNames, key : Keys]
               /\ restarts \in 0..MaxRestarts
               /\ shared \subseteq DownloadNames
               /\ abandoned \subseteq DownloadNames
               /\ unremoved \subseteq DownloadNames

(* A request whose download has a name of its own is answered with the     *)
(* file it asked for, whatever other requests do, and whatever an earlier  *)
(* run of the server has left in the directory                             *)
(* (cloud_file_handler.cc:56-75).                                          *)
BodyIsOwn == \A t \in Threads : step[t] = "read" /\ name[t] \notin shared => contents[t] = key[t]

(* No file outlives its request, even when two requests share a name, or   *)
(* the download of one finds the leftovers of another, unless the server   *)
(* ended in the middle or rm has failed (cloud_file_handler.cc:83-92).     *)
FilesAreOwned ==
  \A n \in DownloadNames : disk[n] # None =>
    \/ n \in abandoned \cup unremoved
    \/ \E t \in Threads : step[t] \in {"fetched", "read"} /\ name[t] = n

(* Two downloads in progress never have one name: the counter is "used to  *)
(* generate unique download file names", cloud_file_handler.h:30.          *)
NamesDistinct == \A t, o \in Busy : t # o => name[t] # name[o]

\* What NamesDistinct rests on: no counter with its extension reads as another.
Unambiguous == \A m, n \in 1..MaxDownloads, k, l \in Keys :
                 NameOf(m, k) = NameOf(n, l) => m = n
=============================================================================
