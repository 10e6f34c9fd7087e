---------------------------- MODULE JoyOnlineProofs ----------------------------
(***************************************************************************)
(* Proofs about JoyOnline, for any number of records, files and versions   *)
(* of the label file, and every setting of the options.                    *)
(*                                                                         *)
(* The inductive invariant has a part about the updater, which says that a *)
(* trie being built is newer than the one in use, and a part about the     *)
(* files: names and inodes correspond, a name given to the uploader is not *)
(* open unless it has been opened twice, and what is removed was received. *)
(***************************************************************************)
EXTENDS JoyOnline, TLAPS

(***************************************************************************)
(* The updater.                                                            *)
(***************************************************************************)

\* Versions only grow, and the trie in use is one of those loaded.
Versions ==
  /\ feed \in Nat \ {0} /\ rt \in Nat /\ rt <= feed
  /\ md5_digest_result \in Nat \cup {NONE} /\ md5_digest_result <= feed
  /\ blacklist_md5 \in Nat \cup {NONE} /\ blacklist_md5 <= feed

Loading ==
  /\ updater \in {"sleep", "build", "swap", "free", "save"}
  /\ updater = "sleep" => allocated = {rt} /\ (rt = 0 \/ rt <= blacklist_md5)
  /\ updater = "build" => allocated = {rt} /\ rt < md5_digest_result
  /\ updater = "swap" => allocated = {rt, md5_digest_result} /\ rt < md5_digest_result
  /\ updater = "free" =>
       allocated = {rt, tmp_rt} /\ rt = md5_digest_result /\ tmp_rt # rt
  /\ updater = "save" => allocated = {rt} /\ rt <= md5_digest_result

LabelInv == Versions /\ Loading

LEMMA LabelInit == Init => LabelInv
BY DEF Init, LabelInv, Versions, Loading, NONE

LEMMA LabelStep == LabelInv /\ [Next]_vars => LabelInv'
<1> SUFFICES ASSUME LabelInv, [Next]_vars PROVE LabelInv'
  OBVIOUS
<1> USE DEF LabelInv, Versions, Loading, NONE
<1>1. CASE UNCHANGED labelVars
  BY <1>1 DEF labelVars
<1>2. CASE Publish
  BY <1>2 DEF Publish
<1>3. CASE dnload_blacklist_file
  BY <1>3 DEF dnload_blacklist_file, is_digest_same
<1>4. CASE BuildTrie
  BY <1>4 DEF BuildTrie
<1>5. CASE BuildFails
  BY <1>5 DEF BuildFails
<1>6. CASE SwapTries
  BY <1>6 DEF SwapTries
<1>7. CASE FreeOldTrie
  BY <1>7 DEF FreeOldTrie, OldTrie
<1>8. CASE save_new_md5
  BY <1>8 DEF save_new_md5
<1> QED
  BY <1>1, <1>2, <1>3, <1>4, <1>5, <1>6, <1>7, <1>8
  DEF Next, vars, updater_main, uploader_main, Capture, LookupLabels, PrintRecord,
      PrintingDone, upload_file, OpenNextFile, OpenFails, sig_close, Tick, UploaderLocks,
      UploaderTests, uploader_send_file, RemoveFile, UploadDone

\* The trie that lookups begin with is never one that was freed, and a
\* replacement, whether it succeeds or fails at any point, leaves one trie.
THEOREM OneTrieInUse == Spec => []TriesFreed
<1>1. LabelInv => TriesFreed
  BY DEF LabelInv, Loading, TriesFreed
<1> QED BY <1>1, LabelInit, LabelStep, PTL DEF Spec

-----------------------------------------------------------------------------

(***************************************************************************)
(* The files.                                                              *)
(***************************************************************************)
FilesTyped ==
  /\ now \in Names /\ seen \in 0 .. MaxFlows /\ printed \in 0 .. seen
  /\ records_in_file \in Nat
  /\ output \in Inodes \cup {NONE} /\ output_filename \in Names
  /\ link \in [Names -> Inodes \cup {NONE}] /\ content \in [Inodes -> SUBSET Flows]
  /\ inodes \in 1 .. MaxFlows + 1
  /\ opened \in [Names -> Nat] /\ wrote \in [Flows -> Names \cup {NONE}]
  /\ upload_filename \in Names \cup {NONE}

\* A file is opened for more than one record, so that inodes are not more than
\* records.
Rotations ==
  /\ pc = "lookup" => printed < seen
  /\ pc \in {"upload", "open"} => output = NONE /\ records_in_file > max_records
  /\ pc # "exit" =>
       inodes + records_in_file <= printed + 1 + (IF pc = "lookup" THEN 1 ELSE 0)

\* Names and inodes.
Linked ==
  /\ \A n \in Names : link[n] # NONE => link[n] < inodes
  /\ \A m, n \in Names : link[m] # NONE /\ link[m] = link[n] => m = n
  /\ output # NONE =>
       /\ output < inodes
       /\ opened[output_filename] = 1 => link[output_filename] = output
       /\ \A n \in Names : link[n] = output => n = output_filename

OpenedNames ==
  /\ opened[output_filename] > 0
  /\ upload_filename # NONE => opened[upload_filename] > 0
  /\ \A r \in Flows : wrote[r] # NONE => opened[wrote[r]] > 0

\* The file that is uploaded is not the open one, unless its name was used again.
UploadedIsClosed ==
  upload_filename # NONE /\ output # NONE /\ upload_filename = output_filename =>
    opened[output_filename] > 1

\* What the uploader does with the file it does under the mutex, and it removes
\* only what the server has received.
Uploads ==
  /\ uploader \in {"test", "send", "remove", "sent"} => upload_in_process
  /\ uploader = "remove" =>
       /\ upload_filename # NONE
       /\ \A r \in Flows : wrote[r] = upload_filename /\ opened[upload_filename] = 1 =>
                             r \in received

FileInv ==
  /\ FilesTyped /\ Rotations /\ Linked /\ OpenedNames /\ UploadedIsClosed /\ Uploads
  /\ NothingLost

LEMMA FileInit == Init => FileInv
<1> SUFFICES ASSUME Init PROVE FileInv
  OBVIOUS
<1> USE ConfigAssumption DEF Init, Names, Inodes, Flows, NONE
<1>1. FilesTyped
  BY DEF FilesTyped
<1>2. Rotations /\ Linked /\ OpenedNames /\ UploadedIsClosed /\ Uploads
  BY DEF Rotations, Linked, OpenedNames, UploadedIsClosed, Uploads
<1>3. NothingLost
  BY DEF NothingLost, UsedOnce
<1> QED BY <1>1, <1>2, <1>3 DEF FileInv

\* The records that are written go to the open file, which is found by its name
\* as long as that was given to no other.
LEMMA WriteStep ==
  ASSUME FileInv, NEW records \in SUBSET Flows, Write(records),
         link' = link, inodes' = inodes, opened' = opened,
         upload_filename' = upload_filename, received' = received, uploader' = uploader,
         upload_in_process' = upload_in_process,
         output_filename' = output_filename, output' \in {output, NONE}
  PROVE  /\ content' \in [Inodes -> SUBSET Flows] /\ wrote' \in [Flows -> Names \cup {NONE}]
         /\ Linked' /\ OpenedNames' /\ UploadedIsClosed' /\ Uploads' /\ NothingLost'
<1> USE DEF FileInv
<1>0. NONE \notin Names /\ NONE \notin Inodes
  BY ConfigAssumption DEF Names, Inodes, NONE
<1>1. Linked' /\ UploadedIsClosed'
  BY DEF Linked, UploadedIsClosed
<1>2. CASE output = NONE
  <2>1. content' = content /\ wrote' = wrote
    BY <1>2 DEF Write
  <2> QED BY <2>1, <1>1 DEF FilesTyped, OpenedNames, Uploads, NothingLost, UsedOnce
<1>3. CASE output # NONE
  <2>1. /\ content' = [content EXCEPT ![output] = @ \cup records]
        /\ wrote' = [r \in Flows |-> IF r \in records THEN output_filename ELSE wrote[r]]
    BY <1>3 DEF Write
  <2>2. output \in Inodes /\ output_filename \in Names /\ opened \in [Names -> Nat]
    BY <1>3 DEF FilesTyped
  <2>3. content' \in [Inodes -> SUBSET Flows] /\ wrote' \in [Flows -> Names \cup {NONE}]
    BY <2>1, <2>2 DEF FilesTyped
  <2>4. /\ \A i \in Inodes : content[i] \subseteq content'[i]
        /\ records \subseteq content'[output]
    BY <2>1, <2>2 DEF FilesTyped
  <2>5. OpenedNames'
    BY <2>1 DEF OpenedNames
  <2>6. Uploads'
    <3> SUFFICES ASSUME uploader = "remove", NEW r \in records,
                        output_filename = upload_filename, opened[upload_filename] = 1
                 PROVE  FALSE
      BY <2>1 DEF Uploads
    <3> QED BY <1>3, <2>2 DEF Uploads, UploadedIsClosed
  <2>7. NothingLost'
    <3> SUFFICES ASSUME NEW r \in Flows, UsedOnce(wrote'[r]), r \notin received
                 PROVE  link[wrote'[r]] # NONE /\ r \in content'[link[wrote'[r]]]
      BY DEF NothingLost, UsedOnce
    <3>1. CASE r \in records
      BY <1>0, <1>3, <2>1, <2>2, <2>4, <3>1 DEF UsedOnce, Linked
    <3>2. CASE r \notin records
      <4>1. wrote'[r] = wrote[r] /\ wrote[r] \in Names
        BY <2>1, <3>2 DEF UsedOnce, FilesTyped
      <4>2. link[wrote[r]] # NONE /\ r \in content[link[wrote[r]]]
        BY <4>1 DEF NothingLost
      <4>3. link[wrote[r]] \in Inodes
        BY <4>1, <4>2 DEF FilesTyped
      <4> QED BY <2>4, <4>1, <4>2, <4>3
    <3> QED BY <3>1, <3>2
  <2> QED BY <1>1, <2>3, <2>5, <2>6, <2>7
<1> QED BY <1>2, <1>3

LEMMA OpenStep ==
  ASSUME FileInv, OpenNextFile
  PROVE  FileInv'
<1> DEFINE name == set_data_output_file
           inode == IF link[name] = NONE THEN inodes ELSE link[name]
<1>0. NONE \notin Names /\ NONE \notin Inodes /\ NONE = -1 /\ MaxFlows \in Nat
  BY ConfigAssumption DEF Names, Inodes, NONE
<1>1. name \in Names
  BY ConfigAssumption DEF FileInv, FilesTyped, set_data_output_file, Names
<1>2. /\ output' = inode /\ inodes' = (IF link[name] = NONE THEN inodes + 1 ELSE inodes)
      /\ link' = [link EXCEPT ![name] = inode]
      /\ content' = [content EXCEPT ![inode] = {}]
      /\ opened' = [opened EXCEPT ![name] = @ + 1]
      /\ output_filename' = name /\ records_in_file' = 0 /\ pc' = "capture"
      /\ pc = "open" /\ wrote' = wrote /\ now' = now /\ seen' = seen /\ printed' = printed
      /\ uploader' = uploader /\ upload_in_process' = upload_in_process
      /\ upload_filename' = upload_filename /\ received' = received
  BY DEF OpenNextFile, zopen, uploadVars, slot
<1>3. PICK nm, ino : nm = name /\ ino = inode
  OBVIOUS
<1> HIDE DEF name, inode
<1>4. /\ inodes \in 1 .. MaxFlows + 1 /\ printed \in 0 .. MaxFlows
      /\ max_records >= 1 /\ records_in_file > max_records /\ records_in_file \in Nat
      /\ inodes + records_in_file <= printed + 1 /\ max_records \in Nat
  BY <1>0, <1>2, ConfigAssumption DEF FileInv, FilesTyped, Rotations
<1>5. inodes \in Inodes /\ inodes + 1 \in 1 .. MaxFlows + 1
  BY <1>0, <1>4 DEF Inodes
<1>6. /\ ino \in Inodes /\ nm \in Names /\ ino < inodes'
      /\ link[nm] # NONE => ino = link[nm]
      /\ link[nm] = NONE => ino = inodes
      /\ inodes <= inodes'
  BY <1>0, <1>1, <1>2, <1>3, <1>5 DEF inode, FileInv, FilesTyped, Linked, Inodes
<1>7. /\ output' = ino /\ output_filename' = nm
      /\ link' = [link EXCEPT ![nm] = ino] /\ content' = [content EXCEPT ![ino] = {}]
      /\ opened' = [opened EXCEPT ![nm] = @ + 1]
  BY <1>2, <1>3
<1>8. /\ link \in [Names -> Inodes \cup {NONE}] /\ content \in [Inodes -> SUBSET Flows]
      /\ opened \in [Names -> Nat] /\ wrote \in [Flows -> Names \cup {NONE}]
      /\ upload_filename \in Names \cup {NONE}
  BY DEF FileInv, FilesTyped
<1>9. /\ link'[nm] = ino /\ \A n \in Names \ {nm} : link'[n] = link[n]
      /\ opened'[nm] = opened[nm] + 1 /\ \A n \in Names \ {nm} : opened'[n] = opened[n]
      /\ \A i \in Inodes \ {ino} : content'[i] = content[i]
  BY <1>6, <1>7, <1>8
<1>10. \A n \in Names \ {nm} : link[n] # ino
  BY <1>0, <1>6, <1>8 DEF FileInv, FilesTyped, Linked
<1>11. FilesTyped'
  BY <1>2, <1>5, <1>6, <1>7, <1>8 DEF FileInv, FilesTyped
<1>12. Rotations'
  BY <1>2, <1>4 DEF Rotations
<1>13. Linked'
  <2>1. \A n \in Names : link[n] # NONE => link[n] < inodes
    BY DEF FileInv, Linked
  <2>2. \A i \in Inodes : i < inodes => i < inodes'
    BY <1>0, <1>5, <1>6, <1>2 DEF Inodes
  <2>3. \A n \in Names : link'[n] # NONE => link'[n] < inodes'
    BY <2>1, <2>2, <1>6, <1>8, <1>9
  <2>4. \A m, n \in Names : link[m] # NONE /\ link[m] = link[n] => m = n
    BY DEF FileInv, Linked
  <2>5. \A m, n \in Names : link'[m] # NONE /\ link'[m] = link'[n] => m = n
    BY <2>4, <1>9, <1>10
  <2>6. \A n \in Names : link'[n] = ino => n = nm
    BY <1>9, <1>10
  <2> QED BY <2>3, <2>5, <2>6, <1>6, <1>7, <1>9 DEF Linked
<1>14. \A n \in Names : opened[n] \in Nat /\ opened'[n] >= opened[n]
  BY <1>8, <1>9
<1>15. OpenedNames'
  BY <1>2, <1>6, <1>7, <1>8, <1>9, <1>14 DEF FileInv, OpenedNames
<1>16. UploadedIsClosed'
  BY <1>2, <1>7, <1>8, <1>9, <1>14, <1>6 DEF FileInv, OpenedNames, UploadedIsClosed
<1>17. Uploads'
  <2> SUFFICES ASSUME uploader = "remove", NEW r \in Flows, wrote[r] = upload_filename,
                      opened'[upload_filename] = 1
               PROVE  r \in received
    BY <1>2 DEF FileInv, Uploads
  <2>1. upload_filename \in Names /\ opened[upload_filename] > 0
    BY <1>8 DEF FileInv, Uploads, OpenedNames
  <2>2. opened[upload_filename] = 1
    BY <2>1, <1>14
  <2> QED BY <2>2 DEF FileInv, Uploads
<1>18. NothingLost'
  <2> SUFFICES ASSUME NEW r \in Flows, wrote[r] # NONE, opened'[wrote[r]] = 1, r \notin received
               PROVE  link'[wrote[r]] # NONE /\ r \in content'[link'[wrote[r]]]
    BY <1>2 DEF NothingLost, UsedOnce
  <2>1. wrote[r] \in Names /\ opened[wrote[r]] > 0
    BY <1>8 DEF FileInv, OpenedNames
  <2>2. wrote[r] # nm /\ opened[wrote[r]] = 1
    BY <2>1, <1>9, <1>14
  <2>3. link[wrote[r]] # NONE /\ r \in content[link[wrote[r]]]
    BY <2>1, <2>2 DEF FileInv, NothingLost, UsedOnce
  <2>4. link[wrote[r]] \in Inodes \ {ino}
    BY <2>1, <2>2, <2>3, <1>8, <1>10
  <2> QED BY <2>1, <2>2, <2>3, <2>4, <1>9
<1> QED BY <1>11, <1>12, <1>13, <1>15, <1>16, <1>17, <1>18 DEF FileInv

\* The uploader has removed a file: its records were received.
LEMMA RemoveStep ==
  ASSUME FileInv, RemoveFile
  PROVE  FileInv'
<1>0. NONE \notin Names /\ NONE \notin Inodes
  BY ConfigAssumption DEF Names, Inodes, NONE
<1>1. PICK u : u = upload_filename
  OBVIOUS
<1>2. /\ uploader = "remove" /\ link' = [link EXCEPT ![u] = NONE] /\ uploader' = "sent"
      /\ UNCHANGED <<mainVars, now, content, inodes, opened, wrote, lost, slot, received>>
  BY <1>1 DEF RemoveFile
<1>3. u \in Names /\ link \in [Names -> Inodes \cup {NONE}]
  BY <1>1, <1>2 DEF FileInv, FilesTyped, Uploads
<1>4. link'[u] = NONE /\ \A n \in Names \ {u} : link'[n] = link[n]
  BY <1>2, <1>3
<1>5. FilesTyped' /\ Rotations' /\ OpenedNames' /\ UploadedIsClosed' /\ Uploads'
  BY <1>2, <1>3 DEF FileInv, FilesTyped, Rotations, OpenedNames, UploadedIsClosed, Uploads,
                    mainVars, slot
<1>6. Linked'
  <2>1. output # NONE /\ opened[output_filename] = 1 => output_filename # u
    BY <1>1, <1>3, <1>0 DEF FileInv, UploadedIsClosed
  <2> QED BY <1>0, <1>2, <1>3, <1>4, <2>1 DEF FileInv, FilesTyped, Linked, mainVars
<1>7. NothingLost'
  <2> SUFFICES ASSUME NEW r \in Flows, UsedOnce(wrote[r]), r \notin received
               PROVE  link'[wrote[r]] # NONE /\ r \in content[link'[wrote[r]]]
    BY <1>2 DEF NothingLost, UsedOnce
  <2>1. wrote[r] \in Names
    BY DEF FileInv, FilesTyped, UsedOnce
  <2>2. wrote[r] # u
    BY <1>1, <1>2 DEF FileInv, Uploads, UsedOnce
  <2> QED BY <1>4, <2>1, <2>2 DEF FileInv, NothingLost
<1> QED BY <1>5, <1>6, <1>7 DEF FileInv

LEMMA SendStep ==
  ASSUME FileInv, uploader_send_file
  PROVE  FileInv'
<1>1. PICK success \in BOOLEAN :
        /\ success => upload_filename # NONE /\ link[upload_filename] # NONE
        /\ received' = IF success THEN received \cup content[link[upload_filename]]
                       ELSE received
        /\ uploader' = IF upload_filename # NONE /\ RemoveSent(success)
                       THEN "remove" ELSE "sent"
  BY DEF uploader_send_file
<1>2. uploader = "send" /\ UNCHANGED <<mainVars, now, disk, slot>>
  BY DEF uploader_send_file
<1>3. received \subseteq received'
  BY <1>1
<1>4. FilesTyped' /\ Rotations' /\ Linked' /\ OpenedNames' /\ UploadedIsClosed'
  BY <1>2 DEF FileInv, FilesTyped, Rotations, Linked, OpenedNames, UploadedIsClosed,
              mainVars, disk, slot
<1>5. NothingLost'
  BY <1>2, <1>3 DEF FileInv, NothingLost, UsedOnce, disk
<1>6. Uploads'
  <2>1. upload_in_process'
    BY <1>2 DEF FileInv, Uploads, slot
  <2> SUFFICES ASSUME uploader' = "remove", NEW r \in Flows,
                      wrote[r] = upload_filename, opened[upload_filename] = 1
               PROVE  upload_filename # NONE /\ r \in received'
    BY <1>1, <1>2, <2>1 DEF Uploads, disk, slot
  <2>2. upload_filename # NONE /\ success
    BY <1>1 DEF RemoveSent
  <2>3. r \in received \/ r \in content[link[upload_filename]]
    BY <2>2 DEF FileInv, NothingLost, UsedOnce
  <2> QED BY <1>1, <2>2, <2>3
<1> QED BY <1>4, <1>5, <1>6 DEF FileInv

LEMMA FileStep == FileInv /\ [Next]_vars => FileInv'
<1> SUFFICES ASSUME FileInv, [Next]_vars PROVE FileInv'
  OBVIOUS
<1>0. MaxFlows \in Nat /\ NONE \notin Names
  BY ConfigAssumption DEF Names, NONE
<1>1. CASE UNCHANGED <<mainVars, now, disk, uploadVars>>
  BY <1>1 DEF FileInv, FilesTyped, Rotations, Linked, OpenedNames, UploadedIsClosed, Uploads,
              NothingLost, UsedOnce, mainVars, disk, uploadVars, slot
<1>2. ASSUME disk' = disk, slot' = slot, uploader' = uploader, received' = received,
             output_filename' = output_filename, output' \in {output, NONE},
             FilesTyped', Rotations'
      PROVE  FileInv'
  BY <1>2 DEF FileInv, Linked, OpenedNames, UploadedIsClosed, Uploads, NothingLost, UsedOnce,
              disk, slot
<1>3. CASE Capture
  <2>1. PICK n \in seen .. MaxFlows : seen' = n
    BY <1>3 DEF Capture
  <2>2. FilesTyped' /\ Rotations'
    BY <1>0, <1>3, <2>1 DEF Capture, FileInv, FilesTyped, Rotations, disk, uploadVars, slot
  <2> QED BY <1>2, <1>3, <2>2 DEF Capture, uploadVars
<1>4. CASE LookupLabels
  <2>1. FilesTyped' /\ Rotations'
    BY <1>0, <1>4 DEF LookupLabels, FileInv, FilesTyped, Rotations, disk, uploadVars, slot
  <2> QED BY <1>2, <1>4, <2>1 DEF LookupLabels, uploadVars
<1>5. CASE PrintRecord
  <2>1. {printed + 1} \in SUBSET Flows
    BY <1>0, <1>5 DEF PrintRecord, FileInv, FilesTyped, Rotations, Flows
  <2>2. /\ content' \in [Inodes -> SUBSET Flows] /\ wrote' \in [Flows -> Names \cup {NONE}]
        /\ Linked' /\ OpenedNames' /\ UploadedIsClosed' /\ Uploads' /\ NothingLost'
    BY <1>5, <2>1, WriteStep DEF PrintRecord, uploadVars, slot
  <2>3. FilesTyped' /\ Rotations'
    BY <1>0, <1>5, <2>2 DEF PrintRecord, FileInv, FilesTyped, Rotations, uploadVars, slot
  <2> QED BY <2>2, <2>3 DEF FileInv
<1>6. CASE PrintingDone
  <2>1. FilesTyped' /\ Rotations'
    BY <1>0, <1>6, ConfigAssumption
    DEF PrintingDone, MustRotate, zclose, FileInv, FilesTyped, Rotations, disk, uploadVars, slot
  <2> QED BY <1>2, <1>6, <2>1 DEF PrintingDone, zclose, uploadVars
<1>7. CASE upload_file
  <2>1. /\ pc = "upload" /\ ~upload_in_process /\ upload_filename' = output_filename
        /\ uploader' \in {uploader, "signalled"} /\ pc' = "open"
        /\ UNCHANGED <<now, seen, printed, records_in_file, output, output_filename,
                       disk, upload_in_process, received>>
    BY <1>7 DEF upload_file, MutexFree, ClosedFile
  <2>2. FilesTyped' /\ Rotations' /\ Linked' /\ OpenedNames' /\ UploadedIsClosed'
    BY <2>1 DEF FileInv, FilesTyped, Rotations, Linked, OpenedNames, UploadedIsClosed, disk
  <2>3. Uploads' /\ NothingLost'
    BY <2>1 DEF FileInv, Uploads, NothingLost, UsedOnce, disk
  <2> QED BY <2>2, <2>3 DEF FileInv
<1>8. CASE OpenFails
  <2>1. FilesTyped' /\ Rotations'
    BY <1>0, <1>8 DEF OpenFails, FileInv, FilesTyped, Rotations, disk, uploadVars, slot
  <2> QED BY <1>2, <1>8, <2>1 DEF OpenFails, uploadVars
<1>9. CASE sig_close
  <2>1. ((printed + 1) .. seen) \in SUBSET Flows
    BY <1>0 DEF FileInv, FilesTyped, Flows
  <2>2. /\ content' \in [Inodes -> SUBSET Flows] /\ wrote' \in [Flows -> Names \cup {NONE}]
        /\ Linked' /\ OpenedNames' /\ UploadedIsClosed' /\ Uploads' /\ NothingLost'
    BY <1>9, <2>1, WriteStep DEF sig_close, uploadVars, slot
  <2>3. FilesTyped' /\ Rotations'
    BY <1>0, <1>9, <2>2 DEF sig_close, FileInv, FilesTyped, Rotations, uploadVars, slot
  <2> QED BY <2>2, <2>3 DEF FileInv
<1>10. CASE Tick
  <2>1. now' \in Names
    BY <1>10, ConfigAssumption DEF Tick, FileInv, FilesTyped, Names
  <2>2. FilesTyped' /\ Rotations'
    BY <1>10, <2>1 DEF Tick, FileInv, FilesTyped, Rotations, mainVars, disk, uploadVars, slot
  <2> QED BY <1>2, <1>10, <2>2 DEF Tick, mainVars, uploadVars
<1>11. CASE UploaderLocks \/ UploaderTests
  <2>1. /\ UNCHANGED <<mainVars, now, disk, upload_filename, received>>
        /\ uploader' # "remove"
        /\ uploader' \in {"test", "send", "remove", "sent"} => upload_in_process'
    BY <1>11 DEF UploaderLocks, UploaderTests, FileInv, Uploads
  <2> QED
    BY <2>1 DEF FileInv, FilesTyped, Rotations, Linked, OpenedNames, UploadedIsClosed,
                Uploads, NothingLost, UsedOnce, mainVars, disk
<1>12. CASE UploadDone
  <2>1. /\ UNCHANGED <<mainVars, now, disk, received>>
        /\ upload_filename' = NONE /\ uploader' = "lock"
    BY <1>12 DEF UploadDone
  <2> QED
    BY <2>1 DEF FileInv, FilesTyped, Rotations, Linked, OpenedNames, UploadedIsClosed,
                Uploads, NothingLost, UsedOnce, mainVars, disk
<1>13. CASE Publish \/ updater_main \/ UNCHANGED vars
  BY <1>1, <1>13
  DEF vars, Publish, updater_main, dnload_blacklist_file, BuildTrie, BuildFails, SwapTries,
      FreeOldTrie, save_new_md5
<1> QED
  BY <1>3, <1>4, <1>5, <1>6, <1>7, <1>8, <1>9, <1>10, <1>11, <1>12, <1>13,
     OpenStep, RemoveStep, SendStep
  DEF Next, uploader_main

LEMMA FileInductive == Spec => []FileInv
BY FileInit, FileStep, PTL DEF Spec

\* Whatever the uploader, the rotations and the signal do to one another, a
\* record that was written can be found under the name of its file or was
\* received, if that name was used once.
THEOREM RecordsSurvive == Spec => []NothingLost
<1>1. FileInv => NothingLost
  BY DEF FileInv
<1> QED BY <1>1, FileInductive, PTL

\* The file that scp reads or that is removed is not the one being written.
THEOREM UploadsOnlyClosed == Spec => []OnlyClosedFilesSent
<1>1. FileInv => OnlyClosedFilesSent
  <2> SUFFICES ASSUME FileInv, UsedOnce(upload_filename), output # NONE,
                      link[upload_filename] = output
               PROVE  FALSE
    BY DEF OnlyClosedFilesSent
  <2>1. upload_filename \in Names /\ opened[upload_filename] = 1
    BY DEF FileInv, FilesTyped, UsedOnce
  <2>2. upload_filename = output_filename
    BY <2>1 DEF FileInv, Linked
  <2> QED BY <2>1, <2>2 DEF FileInv, UploadedIsClosed, UsedOnce
<1> QED BY <1>1, FileInductive, PTL
=============================================================================
