------------------------------- MODULE SealedLog --------------------------------
(***************************************************************************)
(* One append-only sealed log (sealed_log.rs): a header and frames, each   *)
(* bound to its key and its index.  A process may stop in the middle of a  *)
(* write; a loss of power also takes back what was not synced, and may     *)
(* leave part of it.  A write can fail half way and leave the writer in    *)
(* use.  A frame cut short claims the bytes of "reach" frames after it.    *)
(***************************************************************************)
EXTENDS Naturals, Sequences

CONSTANTS NumKeys,     \* master keys, in the order Core adopts them
          MaxRecords,  \* bound on the records appended
          Absent       \* no file, no writer

ASSUME LogConstants ==
  /\ MaxRecords \in Nat /\ NumKeys \in Nat \ {0}
  /\ Absent \notin {"short", "whole"}
LogKey == 1..NumKeys

VARIABLES header,   \* of the log file: Absent, "short" or "whole"
          disk,     \* its frames
          durable,  \* how many of them are on stable storage
          writer,   \* Absent or [key, next]
          acked,    \* the records acknowledged and not lost since, by number
          handed,   \* records handed to append so far
          current,  \* the current key; every earlier one is retired
          limp,     \* history: a failed append left its bytes to this writer
          poisoned, \* history: and it appended again
          temp, dest   \* <dest>.sealing and dest: Absent, or the records written

logFile == <<header, disk, durable>>
logVars == <<logFile, writer, acked, handed, current, limp, poisoned, temp, dest>>

Frame == [kind : {"record"}, key : LogKey, index : Nat, id : Nat]
         \cup [kind : {"torn"}, reach : {1, 2}] \cup [kind : {"zeros", "garbage"}]

LogTypeOK ==
  /\ header \in {Absent, "short", "whole"}
  /\ disk \in Seq(Frame) /\ durable \in 0..Len(disk)
  /\ writer \in {Absent} \cup [key : LogKey, next : Nat]
  /\ acked \subseteq 1..MaxRecords /\ handed \in 0..MaxRecords
  /\ current \in LogKey /\ {limp, poisoned} \subseteq BOOLEAN
  /\ {temp, dest} \subseteq {Absent} \cup Seq(1..MaxRecords)

LogInit ==
  /\ header = Absent /\ disk = <<>> /\ durable = 0 /\ writer = Absent
  /\ acked = {} /\ handed = 0 /\ current = 1 /\ limp = FALSE /\ poisoned = FALSE
  /\ temp = Absent /\ dest = Absent

(***************************************************************************)
(* Reading                                                                 *)
(***************************************************************************)
OpensAt(fs, i, k) == fs[i].kind = "record" /\ fs[i].key = k /\ fs[i].index = i - 1
(* The frames before the first that does not open.                         *)
Committed(fs, k) ==
  CHOOSE n \in 0..Len(fs) : /\ \A i \in 1..n : OpensAt(fs, i, k)
                            /\ n < Len(fs) => ~OpensAt(fs, n + 1, k)
(* scan_with: "error" is a frame that does not open with more data after.  *)
Ending(fs, k) ==
  LET n == Committed(fs, k)
      after == Len(fs) - (n + 1)
  IN  IF n = Len(fs) THEN "clean"
      ELSE CASE fs[n + 1].kind = "torn" -> IF after < fs[n + 1].reach THEN "short" ELSE "error"
             [] fs[n + 1].kind = "zeros" -> IF after = 0 THEN "short" ELSE "error"
             [] OTHER -> IF after = 0 THEN "failed" ELSE "error"

(* Mutant: a whole first record that does not open is taken for a tail.    *)
FitsAnyKey(k) == Ending(disk, k) # "error"
(* open_log: the first key that scans the file; a complete first record    *)
(* that does not open means another key.                                   *)
Fits(k) == Ending(disk, k) # "error" /\ ~(Ending(disk, k) = "failed" /\ Committed(disk, k) = 0)
Opened == header = "whole" /\ \E k \in 1..current : Fits(k)
OpeningKey == CHOOSE k \in 1..current : Fits(k) /\ \A j \in (k + 1)..current : ~Fits(j)
ReadBack == [i \in 1..Committed(disk, OpeningKey) |-> disk[i].id]

(***************************************************************************)
(* Writing                                                                 *)
(***************************************************************************)
(* create: the file, which must be new, then its header, synced.  A file   *)
(* left between the two opens for nobody.                                  *)
CreateFile ==
  /\ writer = Absent /\ header = Absent /\ header' = "short"
  /\ writer' = [key |-> current, next |-> 0]
  /\ UNCHANGED <<disk, durable, acked, handed, current, limp, poisoned, temp, dest>>
WriteHeader ==
  /\ writer # Absent /\ header = "short" /\ header' = "whole"
  /\ UNCHANGED <<disk, durable, writer, acked, handed, current, limp, poisoned, temp, dest>>
Writing == writer # Absent /\ header = "whole"

(* Mutant: the writer seeks to the end of the file.                        *)
OpenAppendAtEnd ==
  /\ writer = Absent /\ temp = Absent /\ dest = Absent
  /\ Opened /\ OpeningKey = current
  /\ writer' = [key |-> current, next |-> Committed(disk, current)]
  /\ UNCHANGED <<logFile, acked, handed, current, limp, poisoned, temp, dest>>
(* A log of a retired key is refused.  A torn tail is truncated.  The      *)
(* caller compacts a log it is done with, and deletes it.                  *)
OpenAppend ==
  /\ writer = Absent /\ temp = Absent /\ dest = Absent
  /\ Opened /\ OpeningKey = current
  /\ LET n == Committed(disk, current)
     IN  /\ disk' = SubSeq(disk, 1, n)
         /\ durable' = IF n < Len(disk) THEN n ELSE durable
         /\ writer' = [key |-> current, next |-> n]
  /\ UNCHANGED <<header, acked, handed, current, limp, poisoned, temp, dest>>

Mint == handed < MaxRecords /\ handed' = handed + 1
NextFrame == [kind |-> "record", key |-> writer.key, index |-> writer.next, id |-> handed + 1]
Append1(frame) == disk' = Append(disk, frame)

AppendRecord ==
  /\ Writing /\ Mint
  /\ Append1(NextFrame)
  /\ writer' = [writer EXCEPT !.next = @ + 1]
  /\ acked' = acked \cup {handed + 1}
  /\ poisoned' = (poisoned \/ limp)
  /\ UNCHANGED <<header, durable, current, limp, temp, dest>>
(* write_all fails after some of the frame: the index stays, and so do the *)
(* bytes.                                                                  *)
AppendFails ==
  /\ Writing /\ Mint
  /\ \/ UNCHANGED disk /\ UNCHANGED limp
     \/ \E n \in {1, 2} : Append1([kind |-> "torn", reach |-> n]) /\ limp' = TRUE
  /\ poisoned' = (poisoned \/ limp)
  /\ UNCHANGED <<header, durable, writer, acked, current, temp, dest>>
SyncLog ==
  /\ Writing /\ durable' = Len(disk)
  /\ UNCHANGED <<header, disk, writer, acked, handed, current, limp, poisoned, temp, dest>>

Close ==
  /\ Writing /\ writer' = Absent /\ limp' = FALSE
  /\ UNCHANGED <<logFile, acked, handed, current, poisoned, temp, dest>>

(***************************************************************************)
(* compact_to_sealed_file: the records of a clean log, written beside and  *)
(* renamed                                                                 *)
(***************************************************************************)
WriteTemp ==
  /\ writer = Absent /\ dest = Absent
  /\ Opened /\ Ending(disk, OpeningKey) = "clean"
  /\ temp' = ReadBack
  /\ UNCHANGED <<logFile, writer, acked, handed, current, limp, poisoned, dest>>
Publish ==
  /\ writer = Absent /\ temp # Absent /\ dest = Absent
  /\ dest' = temp /\ temp' = Absent
  /\ UNCHANGED <<logFile, writer, acked, handed, current, limp, poisoned>>

(***************************************************************************)
(* What goes wrong                                                         *)
(***************************************************************************)
Down == writer' = Absent /\ limp' = FALSE /\ temp' = Absent
(* The process stops, perhaps within write_all: part of the frame is in    *)
(* the file, or all of it without anyone told.                             *)
ProcessStops ==
  /\ writer # Absent \/ temp # Absent
  /\ \/ UNCHANGED <<disk, handed, poisoned>>
     \/ /\ Writing /\ Mint /\ poisoned' = (poisoned \/ limp)
        /\ \/ Append1(NextFrame)
           \/ \E n \in {1, 2} : Append1([kind |-> "torn", reach |-> n])
  /\ Down /\ UNCHANGED <<header, durable, acked, current, dest>>
(* Unsynced frames go, last first; the one that was cut may be short,      *)
(* zeros, or whole in length alone.  Frames are written in order.          *)
PowerLoss ==
  /\ header = "whole" /\ durable < Len(disk)
  /\ \E n \in durable..(Len(disk) - 1) :
       /\ disk' \in {SubSeq(disk, 1, n)} \cup
                    {Append(SubSeq(disk, 1, n), f) :
                       f \in {[kind |-> "torn", reach |-> 1],
                              [kind |-> "zeros"], [kind |-> "garbage"]}}
       /\ acked' = acked \cap {disk[i].id : i \in {j \in 1..n : disk[j].kind = "record"}}
  /\ Down /\ UNCHANGED <<header, durable, handed, current, poisoned, dest>>

(* Core adopts another key between two runs.                               *)
AdoptKey ==
  /\ writer = Absent /\ current + 1 \in LogKey /\ current' = current + 1
  /\ UNCHANGED <<logFile, writer, acked, handed, limp, poisoned, temp, dest>>

LogNext ==
  \/ CreateFile \/ WriteHeader \/ OpenAppend
  \/ AppendRecord \/ AppendFails \/ SyncLog \/ Close
  \/ WriteTemp \/ Publish
  \/ ProcessStops \/ PowerLoss \/ AdoptKey
LogSpec == LogInit /\ [][LogNext]_logVars

(* Every record acknowledged and not lost with its unsynced bytes reads    *)
(* back, in order, under the current key or a retired one, whatever was    *)
(* interrupted, and so it does from the file the log is compacted to.  Two *)
(* logs are excepted: one whose writer went on after an append that failed *)
(* half way, and one whose very first record was torn at full length,      *)
(* which opens under no key (open_log, open_append, append).               *)
Keeps(read) == /\ acked \subseteq {read[i] : i \in DOMAIN read}
               /\ \A i, j \in DOMAIN read : i < j => read[i] < read[j]
LogReadsBack ==
  /\ header = "whole" /\ ~poisoned /\ ~(disk # <<>> /\ disk[1].kind = "garbage") =>
       Opened /\ Keeps(ReadBack)
  /\ dest # Absent /\ ~poisoned => Keeps(dest)

(* What a reader gets: ReadBack, with the opening key found once.          *)
Readings == {[i \in 1..Committed(disk, k) |-> disk[i].id] : k \in {OpeningKey}}
Contents == IF Opened THEN CHOOSE read \in Readings : TRUE ELSE <<>>
Stable == IF durable < Len(Contents) THEN durable ELSE Len(Contents)

(* "Records are never rewritten" (sealed_log.rs): whatever is torn, cut,   *)
(* reopened, compacted or adopted, what a reader gets is a sequence that   *)
(* grows at its end and loses at most what no sync covered, and what a     *)
(* compaction publishes is that sequence.  scan_with, open_log,            *)
(* open_append, compact_to_sealed_file.                                    *)
Reader == INSTANCE DurableLog
            WITH Record <- 1..MaxRecords, Nothing <- Absent, contents <- Contents, stable <- Stable,
                 published <- dest, void <- poisoned
ImplementsDurableLog == Reader!Spec
=================================================================================
