----------------------------- MODULE ConfigWatch -----------------------------
(***************************************************************************)
(* The configuration file and its hot reload: config.Load reads it once at *)
(* boot, config.Watch arms an inotify watch on the file itself, re-arms it *)
(* when the file is replaced and re-reads the file on each change.  The    *)
(* administrator edits the file in place, renames a new one over it, or    *)
(* moves it away and writes another.                                       *)
(*                                                                         *)
(* A file is an inode number; its content is the number of the edit that   *)
(* wrote it.  An inotify watch belongs to the inode: it follows a file     *)
(* that is moved away and dies with one that is deleted.  A read of the    *)
(* inotify descriptor takes everything queued, so the queue is the set of  *)
(* kinds of event in it.                                                   *)
(***************************************************************************)
EXTENDS Integers

CONSTANTS MaxEdits        \* bound: edits of the file in one behaviour

ASSUME EditsAssumption == MaxEdits \in Nat \ {0}

None == -1                \* no file at CONF_PATH
Partial == -2             \* a file opened for writing and not closed yet

Inodes == 0..MaxEdits
Versions == 0..MaxEdits

VARIABLES
    path,       \* the inode at CONF_PATH, or None
    content,    \* what that file holds
    edits,      \* edits begun so far: the next inode and version number
    watched,    \* the inodes the inotify descriptor watches
    events,     \* the kinds of event queued on it
    watcher,    \* where the watching goroutine is
    applied,    \* the version whose settings are in force
    missed      \* an edit ended while nothing could notice it

config == <<path, content, edits>>
watching == <<watched, events, watcher, applied, missed>>
wvars == <<path, content, edits, watched, events, watcher, applied, missed>>

WatcherStates == {"off", "loaded", "arm", "read", "settle", "reload"}

ConfigTypeOK ==
    /\ path \in Inodes \cup {None}
    /\ content \in Versions \cup {Partial}
    /\ edits \in 0..MaxEdits
    /\ watched \subseteq Inodes
    /\ events \subseteq {"changed", "rearm"}
    /\ watcher \in WatcherStates
    /\ applied \in Versions
    /\ missed \in BOOLEAN

ConfigInit ==
    /\ path = 0 /\ content = 0 /\ edits = 0
    /\ watched = {} /\ events = {} /\ watcher = "off"
    /\ applied = 0 /\ missed = FALSE

Readable == path # None /\ content # Partial

-----------------------------------------------------------------------------
(* The administrator, and the kernel's inotify.                            *)

Queue(inode, kind) == IF inode \in watched THEN {kind} ELSE {}

\* The settings were read and the watch is not armed yet: an edit that ends
\* now raises no event.
Unarmed == watcher \in {"loaded", "arm"}

\* An editor opens the file: truncated if it is there, a new inode if not.
OpenForWriting ==
    /\ edits < MaxEdits
    /\ content # Partial
    /\ edits' = edits + 1
    /\ path' = IF path = None THEN edits + 1 ELSE path
    /\ content' = Partial
    /\ UNCHANGED watching

\* ... and closes it: IN_CLOSE_WRITE.
CloseWrite ==
    /\ path # None /\ content = Partial
    /\ content' = edits
    /\ events' = events \cup Queue(path, "changed")
    /\ missed' = (missed \/ Unarmed)
    /\ UNCHANGED <<path, edits, watched, watcher, applied>>

\* Rename-on-save: the old inode is deleted, IN_DELETE_SELF and IN_IGNORED.
RenameOver ==
    /\ edits < MaxEdits
    /\ Readable
    /\ edits' = edits + 1
    /\ path' = edits + 1 /\ content' = edits + 1
    /\ events' = events \cup Queue(path, "rearm")
    /\ watched' = watched \ {path}
    /\ missed' = (missed \/ Unarmed)
    /\ UNCHANGED <<watcher, applied>>

\* The file is renamed to a backup: IN_MOVE_SELF, the watch goes with it.
MoveAway ==
    /\ Readable
    /\ path' = None
    /\ events' = events \cup Queue(path, "rearm")
    /\ UNCHANGED <<content, edits, watched, watcher, applied, missed>>

\* A backup that is still watched is deleted.
RemoveBackup ==
    \E i \in watched \ {path} :
        /\ watched' = watched \ {i}
        /\ events' = events \cup {"rearm"}
        /\ UNCHANGED <<path, content, edits, watcher, applied, missed>>

Edit == OpenForWriting \/ CloseWrite \/ RenameOver \/ MoveAway \/ RemoveBackup

-----------------------------------------------------------------------------
(* The daemon.                                                             *)

\* config.Load at boot; a missing or half-written file ends the process
\* instead (Lifecycle's LoadFails).
Load ==
    /\ watcher = "off"
    /\ Readable
    /\ applied' = content
    /\ watcher' = "loaded"
    /\ missed' = FALSE
    /\ UNCHANGED <<path, content, edits, watched, events>>

\* Watch is called: the goroutine is started.
StartWatch ==
    /\ watcher = "loaded"
    /\ watcher' = "arm"
    /\ UNCHANGED <<path, content, edits, watched, events, applied, missed>>

\* addWatch: InotifyAddWatch on CONF_PATH; without a file it only logs.
addWatch ==
    /\ watched' = IF path = None THEN watched ELSE watched \cup {path}
    /\ missed' = (missed \/ path = None)

Arm ==
    /\ watcher = "arm"
    /\ addWatch
    /\ watcher' = "read"
    /\ UNCHANGED <<path, content, edits, events, applied>>

\* Read returns: the events are folded into changed and reArm.
ReadEvents ==
    /\ watcher = "read"
    /\ events # {}
    /\ watcher' = IF "rearm" \in events THEN "settle" ELSE "reload"
    /\ events' = {}
    /\ UNCHANGED <<path, content, edits, watched, applied, missed>>

\* Mutant: the file is re-read and the watch not armed again.
NoRearm ==
    /\ watcher = "settle"
    /\ watcher' = "reload"
    /\ UNCHANGED <<path, content, edits, watched, events, applied, missed>>

\* The 50 ms have passed; the watch is armed on what is at the path now.
Settle ==
    /\ watcher = "settle"
    /\ addWatch
    /\ watcher' = "reload"
    /\ UNCHANGED <<path, content, edits, events, applied>>

\* reloadAndApply: a file that cannot be opened, or has no settings in it
\* yet, leaves the ones in force alone.
Reload ==
    /\ watcher = "reload"
    /\ applied' = IF Readable THEN content ELSE applied
    /\ missed' = (missed /\ ~(Readable /\ path \in watched))
    /\ watcher' = "read"
    /\ UNCHANGED <<path, content, edits, watched, events>>

WatchStep == Arm \/ ReadEvents \/ Settle \/ Reload

\* The process ends, and with it the descriptor and its watches.
StopWatch ==
    /\ watcher' = "off" /\ watched' = {} /\ events' = {} /\ missed' = FALSE
    /\ UNCHANGED applied

-----------------------------------------------------------------------------
\* Every edit is applied in the end while the daemon runs (Watch and
\* reloadAndApply), whichever way the file was saved and however the edit
\* falls between two steps of the watcher; the edits nothing can notice,
\* made before the first watch or while a replacement is late, are the ones
\* that set missed.
EditsApplied ==
    <>[](watcher # "off" /\ ~missed /\ Readable => applied = content)
=============================================================================
