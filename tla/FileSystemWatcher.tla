-------------------------- MODULE FileSystemWatcher --------------------------
(***************************************************************************)
(* tl::FileSystemWatcher (tl/tl/tlFileSystemWatcher.{h,cc}): files are     *)
(* polled by a timer, in batches, and compared with the size and time they *)
(* had when they were added or checked last.  Other processes write,       *)
(* delete and create the files meanwhile.                                  *)
(***************************************************************************)
EXTENDS Integers, FiniteSets, FiniteSetsExt, Functions

CONSTANTS
  NFiles,     \* the paths are 1..NFiles, in the order of the map m_files
  BatchSize,  \* m_batch_size
  MaxWrites   \* bound: writes to files, by anyone

ASSUME WatcherAssumption ==
  NFiles \in Nat \ {0} /\ BatchSize \in Nat \ {0} /\ MaxWrites \in Nat

Files == 1..NFiles
End == NFiles + 1
Missing == 0

VARIABLES
  disk,            \* what is in each file, named by when it was written
  writes,          \* writes so far
  watch,           \* the members m_files, m_files_removed, m_iter
  tick,            \* the timeout() under way
  timer,           \* the timer runs
  s_global_enable

(* Size and modification time, the stamp of an entry, identify a content.  *)
NoTick == [active |-> FALSE, left |-> 0, changed |-> {}]
First(files) == Min(DOMAIN files \union {End})
After(files, f) == Min({g \in DOMAIN files : g > f} \union {End})

-----------------------------------------------------------------------------
(* The calls of the clients, on the members as a record.                   *)

(* Slip: the iterator is kept, and may point to an erased entry.           *)
RewoundNot(w, files) ==
  [w EXCEPT !.m_files = files, !.m_iter = IF @ = End THEN First(files) ELSE @]

Rewound(w, files) == [w EXCEPT !.m_files = files, !.m_iter = First(files)]

Forgotten(w, f) == [w EXCEPT !.m_files_removed = @ \ {f}]

Users(w, f) == IF f \in DOMAIN w.m_files THEN w.m_files[f].refcount ELSE 0

(* A file that is watched already counts once more and is stamped again;   *)
(* one that does not exist is ignored, and not counted.                    *)
AddFile(w, f) ==
  IF disk[f] = Missing THEN Forgotten(w, f)
  ELSE LET entry == [refcount |-> Users(w, f) + 1, stamp |-> disk[f]]
       IN Rewound(Forgotten(w, f),
                  [g \in DOMAIN w.m_files \union {f} |->
                     IF g = f THEN entry ELSE w.m_files[g]])

RemoveFile(w, f) ==
  IF f \notin DOMAIN w.m_files THEN Forgotten(w, f)
  ELSE IF w.m_files[f].refcount > 1
       THEN [Forgotten(w, f) EXCEPT !.m_files[f].refcount = @ - 1]
       ELSE Rewound(Forgotten(w, f), Restrict(w.m_files, DOMAIN w.m_files \ {f}))

-----------------------------------------------------------------------------
(* timeout() checks the next files of the map until the batch or its time  *)
(* is used up; files_changed is emitted when it ends.                      *)

StartTimeout ==
  /\ timer /\ s_global_enable >= 0 /\ ~tick.active
  /\ tick' = [active |-> TRUE, left |-> BatchSize, changed |-> {}]
  /\ watch' = IF watch.m_iter = End THEN Rewound(watch, watch.m_files) ELSE watch
  /\ UNCHANGED <<disk, writes, timer, s_global_enable>>

(* Slip: the new stamp is taken before it is compared.                     *)
CheckedFirst(f) ==
  IF disk[f] = Missing
  THEN /\ watch' = [watch EXCEPT !.m_files_removed = @ \union {f},
                                 !.m_iter = After(watch.m_files, f)]
       /\ tick' = [tick EXCEPT !.left = @ - 1]
  ELSE /\ watch' = [Forgotten(watch, f) EXCEPT !.m_files[f].stamp = disk[f],
                                               !.m_iter = After(watch.m_files, f)]
       /\ tick' = [tick EXCEPT !.left = @ - 1]

Checked(f) ==
  IF disk[f] = Missing
  THEN /\ watch' = [watch EXCEPT !.m_files_removed = @ \union {f},
                                 !.m_iter = After(watch.m_files, f)]
       /\ tick' = [tick EXCEPT !.left = @ - 1]
  ELSE /\ watch' = [Forgotten(watch, f) EXCEPT !.m_files[f].stamp = disk[f],
                                               !.m_iter = After(watch.m_files, f)]
       /\ tick' = [tick EXCEPT !.left = @ - 1,
                     !.changed = IF watch.m_files[f].stamp # disk[f] THEN @ \union {f} ELSE @]

CheckFile ==
  /\ tick.active /\ tick.left > 0 /\ watch.m_iter # End
  /\ Checked(watch.m_iter)
  /\ UNCHANGED <<disk, writes, timer, s_global_enable>>

EndTimeout ==
  /\ tick.active
  /\ tick.left < BatchSize \/ watch.m_iter = End
  /\ tick' = NoTick
  /\ UNCHANGED <<disk, writes, watch, timer, s_global_enable>>

Enable(en) ==
  /\ timer # en /\ timer' = en
  /\ UNCHANGED <<disk, writes, watch, tick, s_global_enable>>

(* FileSystemWatcherDisabled, one at a time.                               *)
GlobalEnable(en) ==
  /\ s_global_enable = IF en THEN -1 ELSE 0
  /\ s_global_enable' = IF en THEN s_global_enable + 1 ELSE s_global_enable - 1
  /\ UNCHANGED <<disk, writes, watch, tick, timer>>

-----------------------------------------------------------------------------
(* Other processes.                                                        *)

Write(f) ==
  /\ writes < MaxWrites
  /\ writes' = writes + 1
  /\ disk' = [disk EXCEPT ![f] = writes']
  /\ UNCHANGED <<watch, tick, timer, s_global_enable>>

Delete(f) ==
  /\ disk[f] # Missing
  /\ disk' = [disk EXCEPT ![f] = Missing]
  /\ UNCHANGED <<writes, watch, tick, timer, s_global_enable>>

InitWatcher ==
  /\ disk = [f \in Files |-> f]
  /\ writes = NFiles
  /\ watch = [m_files |-> [f \in {} |-> 0], m_files_removed |-> {}, m_iter |-> End]
  /\ tick = NoTick
  /\ timer = TRUE
  /\ s_global_enable = 0

(* The iterator points to an entry or to the end, also after its entry was *)
(* erased, and no entry stays without a user.                              *)
WatcherTypeOK ==
  /\ disk \in [Files -> 0..writes]
  /\ writes \in Nat
  /\ DOMAIN watch.m_files \subseteq Files
  /\ watch.m_files \in [DOMAIN watch.m_files -> [refcount : Nat \ {0}, stamp : 1..writes]]
  /\ watch.m_files_removed \subseteq Files
  /\ watch.m_iter \in DOMAIN watch.m_files \union {End}
  /\ tick \in [active : BOOLEAN, left : 0..BatchSize, changed : SUBSET Files]
  /\ timer \in BOOLEAN /\ s_global_enable \in {-1, 0}
=============================================================================
