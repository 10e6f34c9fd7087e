------------------------------ MODULE JoyOnline ------------------------------
(***************************************************************************)
(* Joy capturing from an interface: the main loop that prints flow records *)
(* and rotates the output file (joy/src/joy.c), the thread that uploads    *)
(* rotated files (joy/src/p2f.c), the thread that replaces the trie of     *)
(* subnet labels (joy/src/updater.c), and the signal that ends them all.   *)
(*                                                                         *)
(* Flow records are numbered in the order in which they are printed.  A    *)
(* file is an inode, found by name through `link' while it is not removed. *)
(***************************************************************************)
EXTENDS Integers

CONSTANTS
  max_records,   \* glb_config->max_records, the option count
  AutoName,      \* output=auto: the name of a file is the second it is opened
  retain_local,  \* glb_config->retain_local
  MaxFlows,      \* bound: flow records
  MaxSeconds,    \* bound: time
  MaxFeed        \* bound: versions of the label file on its server

ASSUME ConfigAssumption ==
  /\ max_records \in Nat \ {0}
  /\ {AutoName, retain_local} \subseteq BOOLEAN
  /\ {MaxFlows, MaxSeconds, MaxFeed} \subseteq Nat

NONE == -1

Names == 0..MaxSeconds
Inodes == 0..MaxFlows
Flows == 1..MaxFlows

VARIABLES
  \* the main thread
  pc,               \* where the main thread is
  now,              \* time(0)
  seen, printed,    \* flow records created and printed so far
  records_in_file,
  output,           \* the inode open for writing, or NONE
  output_filename,
  looked_up,        \* the trie whose nodes a label lookup is reading
  \* the file system
  link, content,
  inodes,           \* number of inodes ever created
  \* the uploader and what it shares with the main thread
  uploader,         \* where the uploader is
  upload_in_process,\* the mutex is held by the uploader
  upload_can_run,
  upload_filename,  \* NONE: empty
  \* the updater
  updater,          \* where the updater is
  rt,               \* glb_config->rt
  tmp_rt,           \* the trie that has been replaced
  radix_trie_lock,  \* the mutex is left locked
  allocated,        \* the tries not freed
  md5_digest_result,\* the label file downloaded last
  blacklist_md5,    \* NONE: zero
  feed,             \* what the server offers
  \* history
  opened,           \* how often each name was opened
  wrote,            \* the name under which each record was written
  lost,             \* records printed to a file that was already closed
  received,         \* records the upload server has
  failed            \* label files from which no trie could be built

mainVars == <<pc, seen, printed, records_in_file, output, output_filename, looked_up>>
disk == <<link, content, inodes, opened, wrote, lost>>
slot == <<upload_in_process, upload_can_run, upload_filename>>
uploadVars == <<uploader, slot, received>>
labelVars == <<updater, rt, tmp_rt, radix_trie_lock, allocated, md5_digest_result,
               blacklist_md5, feed, failed>>
vars == <<mainVars, now, disk, uploadVars, labelVars>>

(***************************************************************************)
(* Output files.                                                           *)
(***************************************************************************)
set_data_output_file == IF AutoName THEN now ELSE 0

\* zopen(name, "w"): the file is created, or truncated when it exists.
zopen(name) ==
  LET inode == IF link[name] = NONE THEN inodes ELSE link[name] IN
  /\ output' = inode
  /\ inodes' = IF link[name] = NONE THEN inodes + 1 ELSE inodes
  /\ link' = [link EXCEPT ![name] = inode]
  /\ content' = [content EXCEPT ![inode] = {}]
  /\ opened' = [opened EXCEPT ![name] = @ + 1]

\* Records written to the output; a closed output takes none.
Write(records) ==
  IF output # NONE
  THEN /\ content' = [content EXCEPT ![output] = @ \cup records]
       /\ wrote' = [r \in Flows |-> IF r \in records THEN output_filename ELSE wrote[r]]
       /\ UNCHANGED lost
  ELSE lost' = lost \cup records /\ UNCHANGED <<content, wrote>>

Init ==
  /\ pc = "capture" /\ now = 0 /\ seen = 0 /\ printed = 0 /\ records_in_file = 0
  /\ output = 0 /\ output_filename = 0 /\ looked_up = NONE
  /\ link = [n \in Names |-> IF n = 0 THEN 0 ELSE NONE]
  /\ content = [n \in Inodes |-> {}] /\ inodes = 1
  /\ uploader = "lock" /\ upload_in_process = FALSE
  /\ upload_can_run = FALSE /\ upload_filename = NONE
  /\ updater = "sleep" /\ rt = 0 /\ tmp_rt = NONE /\ radix_trie_lock = FALSE
  /\ allocated = {0} /\ md5_digest_result = NONE /\ blacklist_md5 = NONE
  /\ feed = 1 /\ failed = {}
  /\ opened = [n \in Names |-> IF n = 0 THEN 1 ELSE 0]
  /\ wrote = [r \in Flows |-> NONE] /\ lost = {} /\ received = {}


Running == pc # "exit"

(***************************************************************************)
(* The main thread.                                                        *)
(***************************************************************************)
\* pcap_loop: packets create flow records.
Capture ==
  /\ pc = "capture"
  /\ \E n \in seen..MaxFlows : seen' = n
  /\ pc' = "print"
  /\ UNCHANGED <<now, printed, records_in_file, output, output_filename, looked_up,
                 disk, uploadVars, labelVars>>

\* flow_record_list_print_json takes the next expired record and looks up the
\* labels of its addresses: glb_config->rt is read once for the walk ...
LookupLabels ==
  /\ pc = "print" /\ printed < seen
  /\ records_in_file' = records_in_file + 1
  /\ looked_up' = rt
  /\ pc' = "lookup"
  /\ UNCHANGED <<now, seen, printed, output, output_filename, disk, uploadVars, labelVars>>

\* ... and the record is written and deleted.
PrintRecord ==
  /\ pc = "lookup"
  /\ Write({printed + 1})
  /\ printed' = printed + 1
  /\ looked_up' = NONE
  /\ pc' = "print"
  /\ UNCHANGED <<now, seen, records_in_file, output, output_filename,
                 link, inodes, opened, uploadVars, labelVars>>

MustRotate == records_in_file > max_records

zclose == NONE

PrintingDone ==
  /\ pc = "print"
  /\ IF MustRotate THEN pc' = "upload" /\ output' = zclose
     ELSE pc' = "capture" /\ UNCHANGED output
  /\ UNCHANGED <<now, seen, printed, records_in_file, output_filename, looked_up,
                 disk, uploadVars, labelVars>>

NextFile == set_data_output_file

ClosedFile == output_filename

MutexFree == ~upload_in_process

\* The uploader wakes up only if it waits on the condition.
upload_file ==
  /\ pc = "upload" /\ MutexFree
  /\ upload_filename' = ClosedFile
  /\ upload_can_run' = TRUE
  /\ uploader' = IF uploader = "wait" THEN "signalled" ELSE uploader
  /\ pc' = "open"
  /\ UNCHANGED <<now, seen, printed, records_in_file, output, output_filename, looked_up,
                 disk, upload_in_process, received, labelVars>>

OpenNextFile ==
  /\ pc = "open"
  /\ zopen(set_data_output_file)
  /\ output_filename' = set_data_output_file
  /\ records_in_file' = 0
  /\ pc' = "capture"
  /\ UNCHANGED <<now, seen, printed, looked_up, wrote, lost, uploadVars, labelVars>>

\* The directory is gone or not writable: main returns -1.
OpenFails ==
  /\ pc = "open"
  /\ pc' = "exit"
  /\ UNCHANGED <<now, seen, printed, records_in_file, output, output_filename, looked_up,
                 disk, uploadVars, labelVars>>

\* The handler of SIGINT and SIGTERM prints every record left, wherever the
\* main thread is; exit() ends the other threads.
sig_close ==
  /\ Running
  /\ Write((printed + 1)..seen)
  /\ printed' = seen
  /\ output' = NONE /\ looked_up' = NONE
  /\ pc' = "exit"
  /\ UNCHANGED <<now, seen, records_in_file, output_filename,
                 link, inodes, opened, uploadVars, labelVars>>

Tick ==
  /\ Running /\ now < MaxSeconds
  /\ now' = now + 1
  /\ UNCHANGED <<mainVars, disk, uploadVars, labelVars>>

(***************************************************************************)
(* uploader_main.                                                          *)
(***************************************************************************)
\* pthread_mutex_lock, first or on return from pthread_cond_wait.  A wake-up
\* without a signal only leads back to the wait and is left out.
UploaderLocks ==
  /\ Running
  /\ uploader \in {"lock", "signalled"} /\ ~upload_in_process
  /\ upload_in_process' = TRUE
  /\ uploader' = "test"
  /\ UNCHANGED <<mainVars, now, disk, upload_can_run, upload_filename, received, labelVars>>

WaitFirst == uploader = "test"

MustWait == ~upload_can_run

\* pthread_cond_wait releases the mutex as it starts to wait.
UploaderTests ==
  /\ Running /\ uploader = "test"
  /\ IF MustWait THEN uploader' = "wait" /\ upload_in_process' = FALSE
     ELSE uploader' = "send" /\ UNCHANGED upload_in_process
  /\ UNCHANGED <<mainVars, now, disk, upload_can_run, upload_filename, received, labelVars>>

RemoveAlways(success) == TRUE

RemoveSent(success) == success /\ ~retain_local

\* scp copies the file, or fails.
uploader_send_file ==
  /\ Running /\ uploader = "send"
  /\ \E success \in BOOLEAN :
       /\ success => upload_filename # NONE /\ link[upload_filename] # NONE
       /\ received' = IF success THEN received \cup content[link[upload_filename]]
                      ELSE received
       /\ uploader' = IF upload_filename # NONE /\ RemoveSent(success)
                      THEN "remove" ELSE "sent"
  /\ UNCHANGED <<mainVars, now, disk, slot, labelVars>>

RemoveFile ==
  /\ Running /\ uploader = "remove"
  /\ link' = [link EXCEPT ![upload_filename] = NONE]
  /\ uploader' = "sent"
  /\ UNCHANGED <<mainVars, now, content, inodes, opened, wrote, lost, slot, received, labelVars>>

KeepsRunning == upload_can_run

RunsAgain == FALSE

UploadDone ==
  /\ Running /\ uploader = "sent"
  /\ upload_filename' = NONE
  /\ upload_can_run' = RunsAgain
  /\ upload_in_process' = FALSE
  /\ uploader' = "lock"
  /\ UNCHANGED <<mainVars, now, disk, received, labelVars>>

uploader_main ==
  UploaderLocks \/ UploaderTests \/ uploader_send_file \/ RemoveFile \/ UploadDone

(***************************************************************************)
(* updater_main.  A download that fails changes nothing and is left out.   *)
(***************************************************************************)
\* The label file changes on its server.
Publish ==
  /\ Running /\ feed < MaxFeed
  /\ feed' = feed + 1
  /\ UNCHANGED <<mainVars, now, disk, uploadVars, updater, rt, tmp_rt, radix_trie_lock,
                 allocated, md5_digest_result, blacklist_md5, failed>>

LoadedOnce == blacklist_md5 # NONE

is_digest_same == feed = blacklist_md5

\* A file that has not changed is not loaded again.
dnload_blacklist_file ==
  /\ Running /\ updater = "sleep"
  /\ md5_digest_result' = feed
  /\ updater' = IF is_digest_same THEN "sleep" ELSE "build"
  /\ UNCHANGED <<mainVars, now, disk, uploadVars, rt, tmp_rt, radix_trie_lock,
                 allocated, blacklist_md5, feed, failed>>

\* update_radix_trie builds a new trie, to which each subnet is added under
\* radix_trie_lock ...
BuildTrie ==
  /\ Running /\ updater = "build"
  /\ ~radix_trie_lock
  /\ allocated' = allocated \cup {md5_digest_result}
  /\ updater' = "swap"
  /\ UNCHANGED <<mainVars, now, disk, uploadVars, rt, tmp_rt, radix_trie_lock,
                 md5_digest_result, blacklist_md5, feed, failed>>

\* ... and frees it if that fails; when a node cannot be allocated,
\* radix_trie_add_subnet returns with the lock held ...
BuildFails ==
  /\ Running /\ updater = "swap"
  /\ radix_trie_lock' \in BOOLEAN
  /\ allocated' = allocated \ {md5_digest_result}
  /\ failed' = failed \cup {md5_digest_result}
  /\ updater' = "save"
  /\ UNCHANGED <<mainVars, now, disk, uploadVars, rt, tmp_rt,
                 md5_digest_result, blacklist_md5, feed>>

\* ... or else makes it the trie in use ...
SwapTries ==
  /\ Running /\ updater = "swap"
  /\ rt' = md5_digest_result /\ tmp_rt' = rt
  /\ updater' = "free"
  /\ UNCHANGED <<mainVars, now, disk, uploadVars, radix_trie_lock, allocated,
                 md5_digest_result, blacklist_md5, feed, failed>>

TrieInUse == rt

OldTrie == tmp_rt

\* ... and, with the lock released, frees the old one.
FreeOldTrie ==
  /\ Running /\ updater = "free"
  /\ allocated' = allocated \ {OldTrie}
  /\ updater' = "save"
  /\ UNCHANGED <<mainVars, now, disk, uploadVars, rt, tmp_rt, radix_trie_lock,
                 md5_digest_result, blacklist_md5, feed, failed>>

\* The digest is saved whether or not the trie could be replaced.
save_new_md5 ==
  /\ Running /\ updater = "save"
  /\ blacklist_md5' = md5_digest_result
  /\ updater' = "sleep"
  /\ UNCHANGED <<mainVars, now, disk, uploadVars, rt, tmp_rt, radix_trie_lock,
                 allocated, md5_digest_result, feed, failed>>

updater_main ==
  \/ dnload_blacklist_file
  \/ BuildTrie \/ BuildFails \/ SwapTries \/ FreeOldTrie
  \/ save_new_md5

Next ==
  \/ Capture \/ LookupLabels \/ PrintRecord \/ PrintingDone
  \/ upload_file \/ OpenNextFile \/ OpenFails
  \/ sig_close \/ Tick
  \/ uploader_main
  \/ Publish \/ updater_main

(***************************************************************************)
(* Fairness: each thread is scheduled, an scp process ends, and downloads  *)
(* succeed again and again.  A mutex need not be fair.                     *)
(***************************************************************************)
Fairness ==
  /\ WF_vars(Capture) /\ WF_vars(LookupLabels) /\ WF_vars(PrintRecord)
  /\ WF_vars(PrintingDone) /\ WF_vars(upload_file) /\ WF_vars(OpenNextFile)
  /\ WF_vars(UploaderLocks) /\ WF_vars(UploaderTests)
  /\ WF_vars(uploader_send_file) /\ WF_vars(RemoveFile) /\ WF_vars(UploadDone)
  /\ WF_vars(updater_main)

Spec == Init /\ [][Next]_vars /\ Fairness

(***************************************************************************)
(* Properties.                                                             *)
(***************************************************************************)
UsedOnce(name) == name # NONE /\ opened[name] = 1

\* A record that was written stays in a local file or has reached the upload
\* server, across rotations, failing uploads and removals of uploaded files,
\* provided no later file was given the name of its file.
NothingLost ==
  \A r \in Flows : UsedOnce(wrote[r]) =>
    \/ r \in received
    \/ link[wrote[r]] # NONE /\ r \in content[link[wrote[r]]]

\* The uploader sends and removes only files that have been closed, provided
\* names are not used again.
OnlyClosedFilesSent ==
  uploader \in {"send", "remove"} /\ UsedOnce(upload_filename) =>
    link[upload_filename] # output \/ output = NONE

\* A rotation does not stop the capture: upload_file waits for the upload in
\* progress, but the uploader, which takes the mutex again at once, lets the
\* main thread have it.
RotationCompletes == pc = "upload" ~> pc \in {"capture", "exit"}

\* A signal to the uploader is not lost, whatever the uploader is doing.
SignalServed == upload_can_run ~> ~upload_can_run \/ pc = "exit"

\* The trie in use is never freed, and no trie is leaked by a replacement.
TriesFreed ==
  /\ rt \in allocated
  /\ updater = "sleep" => allocated = {rt}

\* The labels of the last file published come into use, unless a trie could not
\* be built.
LabelsUpToDate == feed = MaxFeed ~> rt = MaxFeed \/ failed # {} \/ pc = "exit"

(***************************************************************************)
(* What the documentation says and the code does not do.                   *)
(***************************************************************************)
\* using-joy-05.tex: "If retain=1, retain a local copy of each data file after
\* it is uploaded".
LocalCopyRetained ==
  retain_local => \A r \in Flows : wrote[r] # NONE =>
    link[wrote[r]] # NONE /\ r \in content[link[wrote[r]]]

\* The mutex exists "to ensure the radix_trie isn't being accessed by another
\* thread" (radix_trie.c) when the old trie is freed.
LookupsAreSafe == looked_up # NONE => looked_up \in allocated
=============================================================================
