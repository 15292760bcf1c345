----------------------------- MODULE LayoutFiles -----------------------------
(***************************************************************************)
(* The layouts in the views and the files they came from: lay::LayoutHandle*)
(* (laybasic/layLayoutHandle.cc) keeps its file in the one watcher all     *)
(* handles share, views load, reload, save and close (layLayoutViewBase.cc,*)
(* layLayoutView_qt.cc), and the main window tells the views which of      *)
(* their files changed (lay/layMainWindow.cc).                             *)
(*                                                                         *)
(* All of it is the GUI thread.  Reading and writing a file report their   *)
(* progress, which lets timers fire in between, but no user action.        *)
(***************************************************************************)
EXTENDS FileSystemWatcher

CONSTANTS
  Views,     \* the cellviews
  NoFile,
  MaxCalls   \* bound: files opened, reloaded, saved, closed, watchers switched

ASSUME ViewsAssumption == NoFile \notin Files /\ MaxCalls \in Nat

VARIABLES
  view,                \* the cellviews, see View
  m_changed_files,     \* what MainWindow was told and has not passed on
  file_changed_timer,  \* m_file_changed_timer runs
  calls,               \* calls so far
  overtaken,           \* history: views whose file was stamped by add_file
                       \* with a content they have not seen
  vanished             \* history: files that did not exist when added

watcherVars == <<disk, writes, watch, tick, timer, s_global_enable>>
windowVars == <<m_changed_files, file_changed_timer>>
historyVars == <<overtaken, vanished>>
vars == <<watcherVars, view, windowVars, calls, historyVars>>

(* "handles" counts the handles a view has on its file, three of them while*)
(* it reloads: that of the layout before, which reload_layout keeps up to  *)
(* its end, that of the placeholder, and that of the new layout.           *)
(* "read" is what the reader got, "known" what the view took from the file *)
(* or put there, "backup" the file a save has moved away.                  *)
View == [phase : {"closed", "idle", "loading", "reloading", "saving", "saved"},
         file : Files \union {NoFile}, handles : 0..3, read : Nat, known : Nat,
         backup : Nat, notified : BOOLEAN]
Closed == [phase |-> "closed", file |-> NoFile, handles |-> 0, read |-> Missing,
           known |-> Missing, backup |-> Missing, notified |-> FALSE]

In(v, phases) == view[v].phase \in phases
Busy == \E v \in Views : ~In(v, {"closed", "idle"})
Free == ~Busy /\ ~tick.active
UserMay == Free /\ calls < MaxCalls
IsOutdated(c) == c.phase = "idle" /\ disk[c.file] \notin {Missing, c.known}
Outdated(v) == IsOutdated(view[v])
SavedNow(f) == \E v \in Views : In(v, {"saving"}) /\ view[v].file = f

(* How add_file of f and the end of a use change the history.              *)
AddedAt(f) ==
  /\ overtaken' = {v \in Views : IsOutdated(view'[v]) /\ (v \in overtaken \/ view'[v].file = f)}
  /\ vanished' = {g \in vanished : \E v \in Views : view'[v].file = g}
                 \union (IF disk[f] = Missing THEN {f} ELSE {})
Released(v) ==
  /\ overtaken' = overtaken \ {v}
  /\ vanished' = {g \in vanished : \E w \in Views : view'[w].file = g}

-----------------------------------------------------------------------------
(* Loading.  The constructor of the handle adds the file; when the reader  *)
(* has finished it is removed and added again for a new stamp.             *)

Load(v, f) ==
  /\ UserMay /\ In(v, {"closed"})
  /\ calls' = calls + 1
  /\ view' = [view EXCEPT ![v] = [Closed EXCEPT !.phase = "loading", !.file = f, !.handles = 1]]
  /\ watch' = AddFile(watch, f)
  /\ AddedAt(f)
  /\ UNCHANGED <<disk, writes, tick, timer, s_global_enable, windowVars>>

(* A placeholder with a handle of its own is put in place of the layout,   *)
(* then the handle of the new layout is made.  The notification is gone.   *)
Reload(v) ==
  LET f == view[v].file IN
  /\ UserMay /\ In(v, {"idle"})
  /\ calls' = calls + 1
  /\ view' = [view EXCEPT ![v] = [@ EXCEPT !.phase = "reloading", !.handles = 3, !.read = Missing,
                          !.known = disk[f], !.notified = FALSE]]
  /\ watch' = AddFile(AddFile(watch, f), f)
  /\ AddedAt(f)
  /\ UNCHANGED <<disk, writes, tick, timer, s_global_enable, windowVars>>

Reading(v) == In(v, {"loading", "reloading"}) /\ ~tick.active

Read(v) ==
  /\ Reading(v) /\ view[v].read = Missing
  /\ disk[view[v].file] # Missing
  /\ view' = [view EXCEPT ![v] = [@ EXCEPT !.read = disk[view[v].file]]]
  /\ UNCHANGED <<watcherVars, windowVars, calls, historyVars>>

Restamped(w, f) == AddFile(RemoveFile(w, f), f)

(* Slip: the layout before is not released at the end of a reload.         *)
ReleasedPlaceholder(w, f) == RemoveFile(w, f)

(* What a reload releases when it returns or throws: the placeholder and   *)
(* the layout before, or the new layout and the one before.                *)
ReleasedTwo(w, f) == RemoveFile(RemoveFile(w, f), f)

FinishLoad(v) ==
  LET f == view[v].file IN
  /\ Reading(v) /\ view[v].read # Missing
  /\ view' = [view EXCEPT ![v] = [@ EXCEPT !.phase = "idle", !.handles = 1, !.read = Missing,
                          !.known = view[v].read]]
  /\ watch' = IF In(v, {"loading"}) THEN Restamped(watch, f)
              ELSE ReleasedTwo(Restamped(watch, f), f)
  /\ AddedAt(f)
  /\ UNCHANGED <<disk, writes, tick, timer, s_global_enable, windowVars, calls>>

(* The reader throws: the handle goes; of a reload the placeholder stays.  *)
LoadFails(v) ==
  LET f == view[v].file IN
  /\ Reading(v)
  /\ watch' = IF In(v, {"loading"}) THEN RemoveFile(watch, f) ELSE ReleasedTwo(watch, f)
  /\ view' = [view EXCEPT ![v] =
       IF @.phase = "loading" THEN Closed
       ELSE [@ EXCEPT !.phase = "idle", !.handles = 1, !.read = Missing]]
  /\ Released(v)
  /\ UNCHANGED <<disk, writes, tick, timer, s_global_enable, windowVars, calls>>

Close(v) ==
  /\ UserMay /\ In(v, {"idle"})
  /\ calls' = calls + 1
  /\ watch' = RemoveFile(watch, view[v].file)
  /\ view' = [view EXCEPT ![v] = Closed]
  /\ Released(v)
  /\ UNCHANGED <<disk, writes, tick, timer, s_global_enable, windowVars>>

-----------------------------------------------------------------------------
(* Saving with "update": the old file is given up, the new one is moved to *)
(* a backup and written, and the result is stamped.                        *)

Save(v, f) ==
  /\ UserMay /\ In(v, {"idle"})
  /\ calls' = calls + 1
  /\ watch' = RemoveFile(watch, view[v].file)
  /\ disk' = [disk EXCEPT ![f] = Missing]
  /\ view' = [view EXCEPT ![v] = [@ EXCEPT !.phase = "saving", !.file = f, !.backup = disk[f]]]
  /\ Released(v)
  /\ UNCHANGED <<writes, tick, timer, s_global_enable, windowVars>>

(* The stream is opened, if it can be, and written; what is on the disk so *)
(* far is there for the watcher to see, and the last part is the whole.    *)
Saving(v) == In(v, {"saving"}) /\ ~tick.active

WritePart(v) ==
  /\ Saving(v) /\ writes < MaxWrites
  /\ writes' = writes + 1 /\ disk' = [disk EXCEPT ![view[v].file] = writes']
  /\ UNCHANGED <<view, watch, tick, timer, s_global_enable, windowVars, calls, historyVars>>

(* A failing save moves the backup back, if there was a file, or leaves the*)
(* part that is written.  If the stream cannot be opened there is no error *)
(* to it: the backup is deleted, or kept aside, and no file is left.       *)
WriteEnds(v) ==
  LET f == view[v].file IN
  /\ Saving(v)
  /\ \/ UNCHANGED disk
     \/ /\ disk[f] # Missing /\ view[v].backup # Missing
        /\ disk' = [disk EXCEPT ![f] = view[v].backup]
  /\ view' = [view EXCEPT ![v] = [@ EXCEPT !.phase = "saved", !.known = disk'[f], !.backup = Missing]]
  /\ UNCHANGED <<writes, watch, tick, timer, s_global_enable, windowVars, calls, historyVars>>

FinishSave(v) ==
  /\ In(v, {"saved"}) /\ ~tick.active
  /\ watch' = AddFile(watch, view[v].file)
  /\ view' = [view EXCEPT ![v] = [@ EXCEPT !.phase = "idle"]]
  /\ AddedAt(view[v].file)
  /\ UNCHANGED <<disk, writes, tick, timer, s_global_enable, windowVars, calls>>

-----------------------------------------------------------------------------
(* MainWindow collects what the watcher emits and waits a little, and as   *)
(* long as an operation is busy, before it notifies the views that have    *)
(* such a file by then.                                                    *)

EmitChanges ==
  /\ EndTimeout
  /\ m_changed_files' = m_changed_files \union tick.changed
  /\ file_changed_timer' = (file_changed_timer \/ tick.changed # {})
  /\ UNCHANGED <<view, calls, historyVars>>

FileChangedTimer ==
  /\ file_changed_timer /\ Free
  /\ view' = [v \in Views |-> IF view[v].file \in m_changed_files
                              THEN [view[v] EXCEPT !.notified = TRUE] ELSE view[v]]
  /\ m_changed_files' = {} /\ file_changed_timer' = FALSE
  /\ UNCHANGED <<watcherVars, calls, historyVars>>

(* Other processes leave a file alone while it is being saved.             *)
WriteOutside(f) ==
  /\ ~SavedNow(f) /\ Write(f)
  /\ overtaken' = {v \in overtaken : view[v].file # f}
  /\ UNCHANGED <<view, windowVars, calls, vanished>>

DeleteOutside(f) ==
  /\ ~SavedNow(f) /\ Delete(f)
  /\ UNCHANGED <<view, windowVars, calls, historyVars>>

-----------------------------------------------------------------------------
Others == UNCHANGED <<view, windowVars, calls, historyVars>>
Init ==
  /\ InitWatcher
  /\ view = [v \in Views |-> Closed]
  /\ m_changed_files = {} /\ file_changed_timer = FALSE
  /\ calls = 0 /\ overtaken = {} /\ vanished = {}

LoadStep == \E v \in Views : Read(v) \/ FinishLoad(v) \/ LoadFails(v)
SaveStep == \E v \in Views : WritePart(v) \/ WriteEnds(v) \/ FinishSave(v)
Tick == StartTimeout /\ Others
Check == CheckFile /\ Others

(* The configuration switches the timer, the package dialogs the watchers. *)
Switch(en) ==
  /\ UserMay /\ calls' = calls + 1
  /\ Enable(en) \/ GlobalEnable(en)
  /\ UNCHANGED <<view, windowVars, historyVars>>

Next ==
  \/ \E v \in Views, f \in Files : Load(v, f) \/ Save(v, f)
  \/ \E v \in Views : Reload(v) \/ Close(v)
  \/ LoadStep \/ SaveStep
  \/ Tick \/ Check \/ EmitChanges \/ FileChangedTimer
  \/ \E f \in Files : WriteOutside(f) \/ DeleteOutside(f)
  \/ \E en \in BOOLEAN : Switch(en)

(* Timers fire while the event loop runs, and readers and writers go on    *)
(* between the timers they let through.                                    *)
Fairness ==
  /\ WF_vars(Tick) /\ WF_vars(Check) /\ WF_vars(EmitChanges)
  /\ SF_vars(FileChangedTimer) /\ SF_vars(LoadStep) /\ SF_vars(SaveStep)

Spec == Init /\ [][Next]_vars /\ Fairness

-----------------------------------------------------------------------------
(* Properties.                                                             *)

TypeOK ==
  /\ WatcherTypeOK
  /\ view \in [Views -> View]
  /\ m_changed_files \subseteq Files /\ file_changed_timer \in BOOLEAN
  /\ calls \in 0..MaxCalls
  /\ overtaken \subseteq Views /\ vanished \subseteq Files

(* A file is watched as often as handles are open on it, whatever order    *)
(* loads, reloads, saves and their failures come in: nobody ends the watch *)
(* of another view, and nobody leaves one behind.  A file that was missing *)
(* when somebody added it may be counted too rarely, never too often       *)
(* (LayoutHandle with add_file and remove_file).                           *)
HandlesOn(f) ==
  {h \in Views \X (1..3) : /\ view[h[1]].file = f /\ ~In(h[1], {"saving", "saved"})
                           /\ h[2] <= view[h[1]].handles}

WatchedByHandles ==
  \A f \in Files : /\ Users(watch, f) <= Cardinality(HandlesOn(f))
                   /\ f \notin vanished => Users(watch, f) = Cardinality(HandlesOn(f))

(* A layout whose file was changed by somebody else is announced as such,  *)
(* however the change falls between ticks, batches, loads and saves, unless*)
(* an add_file, its own or that of another view, stamps the file with the  *)
(* new content first (tlFileSystemWatcher.h: file_changed).                *)
Noticeable(v) == /\ Outdated(v) /\ v \notin overtaken /\ view[v].file \notin vanished
                 /\ timer /\ s_global_enable >= 0

OutdatedNoticed == \A v \in Views : Noticeable(v) ~> (~Noticeable(v) \/ view[v].notified)
=============================================================================
