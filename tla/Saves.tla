------------------------------- MODULE Saves --------------------------------
(***************************************************************************)
(* Saved games as files (io/save.cpp): background saves that write a       *)
(* temporary file chunk by chunk, flush it and publish it by renaming it   *)
(* to the next free number, the list in which the player loads and deletes *)
(* saves meanwhile, and crashes.                                           *)
(*                                                                         *)
(* The file system is modelled from its use: what was not flushed may be   *)
(* cut off by a crash, and a crash may take back any of the changes to the *)
(* directory, which nobody flushes.  A save's contents stand for the saver *)
(* and are whole when all their chunks are there.                          *)
(***************************************************************************)
EXTENDS Integers, FiniteSets, FiniteSetsExt, Functions

CONSTANTS Saver, Nobody,
          CHUNKS,          (* chunks of a serialized world                   *)
          CRASHES          (* bound on crashes                               *)

VARIABLES
  pc,          (* of each saver                                              *)
  good,        (* the flag that travels through publish_or_discard           *)
  written,     (* chunks in the saver's file                                 *)
  durable,     (* chunks of it that are on stable storage                    *)
  temps,       (* savers whose temporary file exists                         *)
  names,       (* save_<id>.wry: whose file it is                            *)
  past,        (* directories that a crash may bring back                    *)
  holder,      (* save_id_mutex                                              *)
  next_id,     (* of each saver                                              *)
  listed,      (* the rows of the list of saves                              *)
  erased,      (* savers whose save the player deleted                       *)
  earlier,     (* of each saver: the saves there were when it began          *)
  crashes

files == <<written, durable, temps, names, past>>
vars == <<pc, good, files, holder, next_id, listed, erased, earlier, crashes>>

Init ==
  /\ pc = [s \in Saver |-> "idle"] /\ good = [s \in Saver |-> TRUE]
  /\ written = [s \in Saver |-> 0] /\ durable = [s \in Saver |-> 0]
  /\ temps = {} /\ names = << >> /\ past = {<< >>}
  /\ holder = Nobody /\ next_id = [s \in Saver |-> 0]
  /\ listed = << >> /\ erased = {} /\ earlier = [s \in Saver |-> {}] /\ crashes = 0

To(s, where) == pc' = [pc EXCEPT ![s] = where]
-----------------------------------------------------------------------------
(* save_current: the world is immutable and rooted, so that it is written  *)
(* as it is now however long that takes.                                   *)
Begin(s) ==
  /\ pc[s] = "idle" /\ To(s, "temp")
  /\ earlier' = [earlier EXCEPT ![s] = Range(names)]
  /\ UNCHANGED <<good, files, holder, next_id, listed, erased, crashes>>

MakeTemp(s) ==
  /\ pc[s] = "temp"
  /\ \/ To(s, "write") /\ temps' = temps \cup {s} /\ UNCHANGED good
     \/ To(s, "done") /\ good' = [good EXCEPT ![s] = FALSE] /\ UNCHANGED temps
  /\ UNCHANGED <<written, durable, names, past, holder, next_id, listed, erased, earlier, crashes>>

(* The coroutine yields between chunks.                                    *)
WriteChunk(s) ==
  /\ pc[s] = "write"
  /\ \/ /\ written' = [written EXCEPT ![s] = @ + 1]
        /\ To(s, IF written[s] + 1 = CHUNKS THEN "flush" ELSE "write") /\ UNCHANGED good
     \/ To(s, "close") /\ good' = [good EXCEPT ![s] = FALSE] /\ UNCHANGED written
  /\ UNCHANGED <<durable, temps, names, past, holder, next_id, listed, erased, earlier, crashes>>

Flush(s) ==
  /\ pc[s] = "flush" /\ To(s, "close")
  /\ \/ durable' = [durable EXCEPT ![s] = written[s]] /\ UNCHANGED good
     \/ good' = [good EXCEPT ![s] = FALSE] /\ UNCHANGED durable
  /\ UNCHANGED <<written, temps, names, past, holder, next_id, listed, erased, earlier, crashes>>

Close(s) ==
  /\ pc[s] = "close"
  /\ \E closed \in BOOLEAN :
       /\ good' = [good EXCEPT ![s] = @ /\ closed]
       /\ To(s, IF good[s] /\ closed THEN "scan" ELSE "discard")
  /\ UNCHANGED <<files, holder, next_id, listed, erased, earlier, crashes>>

(* The number is chosen, and the file renamed to it, under the mutex.      *)
WrongScan(s) ==
  /\ pc[s] = "scan" /\ To(s, "rename")
  /\ next_id' = [next_id EXCEPT ![s] = Max(DOMAIN names \cup {0}) + 1]
  /\ UNCHANGED <<good, files, holder, listed, erased, earlier, crashes>>

Scan(s) ==
  /\ pc[s] = "scan" /\ holder = Nobody /\ To(s, "rename")
  /\ holder' = s
  /\ next_id' = [next_id EXCEPT ![s] = Max(DOMAIN names \cup {0}) + 1]
  /\ UNCHANGED <<good, files, listed, erased, earlier, crashes>>

Rename(s) ==
  /\ pc[s] = "rename" /\ holder' = Nobody
  /\ \/ /\ names' = [id \in DOMAIN names \cup {next_id[s]} |-> IF id = next_id[s] THEN s ELSE names[id]]
        /\ past' = past \cup {names'} /\ temps' = temps \ {s}
        /\ To(s, "done") /\ UNCHANGED good
     \/ /\ To(s, "discard") /\ good' = [good EXCEPT ![s] = FALSE]
        /\ UNCHANGED <<names, past, temps>>
  /\ UNCHANGED <<written, durable, next_id, listed, erased, earlier, crashes>>

Discard(s) ==
  /\ pc[s] = "discard" /\ To(s, "done")
  /\ temps' = temps \ {s}
  /\ UNCHANGED <<good, written, durable, names, past, holder, next_id, listed, erased, earlier, crashes>>
-----------------------------------------------------------------------------
(* The list of saves, on the main thread: it is rebuilt when it is opened  *)
(* and after a deletion.                                                   *)
Open ==
  /\ listed' = names
  /\ UNCHANGED <<pc, good, files, holder, next_id, erased, earlier, crashes>>

Delete(id) ==
  /\ id \in DOMAIN listed
  /\ names' = Restrict(names, DOMAIN names \ {id})
  /\ past' = past \cup {names'} /\ listed' = names'
  /\ erased' = erased \cup (IF id \in DOMAIN names THEN {names[id]} ELSE {})
  /\ UNCHANGED <<pc, good, written, durable, temps, holder, next_id, earlier, crashes>>

(* After a crash the savers that were not done are gone.                   *)
Crash ==
  /\ crashes < CRASHES /\ crashes' = crashes + 1
  /\ pc' = [s \in Saver |-> IF pc[s] = "idle" THEN "idle" ELSE "lost"]
  /\ names' \in past /\ past' = {names'}
  /\ written' \in {w \in [Saver -> 0 .. CHUNKS] : \A s \in Saver : w[s] \in durable[s] .. written[s]}
  /\ durable' = written' /\ holder' = Nobody /\ listed' = << >>
  /\ UNCHANGED <<good, temps, next_id, erased, earlier>>

Next ==
  \/ \E s \in Saver :
       \/ Begin(s) \/ MakeTemp(s) \/ WriteChunk(s) \/ Flush(s) \/ Close(s)
       \/ Scan(s) \/ Rename(s) \/ Discard(s)
  \/ Open \/ (\E id \in DOMAIN listed : Delete(id)) \/ Crash

Spec == Init /\ [][Next]_vars
-----------------------------------------------------------------------------
(* A reader only ever sees a complete save, after a crash too.             *)
OnlyWholeSaves == \A id \in DOMAIN names : written[names[id]] = CHUNKS

(* No save takes another's place: one that was reported as saved is there, *)
(* under one name, until the player deletes it, and one that was reported  *)
(* as failed left no file behind.                                          *)
ReportsAreTrue ==
  \A s \in Saver : pc[s] = "done" =>
    /\ good[s] => s \in erased \/ Cardinality({id \in DOMAIN names : names[id] = s}) = 1
    /\ ~good[s] => s \notin Range(names)
    /\ s \notin temps

(* A later save has a higher number: of the one that ended before the      *)
(* other began.  A row of the list never comes to mean another save.       *)
NumbersAscend ==
  /\ \A i, j \in DOMAIN names : names[i] \in earlier[names[j]] => i < j
  /\ \A id \in DOMAIN listed \cap DOMAIN names : names[id] = listed[id]

SavesSound == OnlyWholeSaves /\ ReportsAreTrue /\ NumbersAscend
=============================================================================
