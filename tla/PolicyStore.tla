---------------------------- MODULE PolicyStore ----------------------------
(***************************************************************************)
(* The policy file, its backups, and the policy a gateway process has in   *)
(* force (PolicyEngine.reload of app/policy.py, admin_policy_update and    *)
(* reload_policy of app/main.py).                                          *)
(*                                                                         *)
(* A reload opens and reads the file, assigns the policy, reads the policy *)
(* again for its version, and assigns the version.  The admin's PUT does   *)
(* all that on the event loop, after a backup and a write; the reload      *)
(* endpoint is a plain def, which Starlette runs in a worker thread.       *)
(* Both are called reloaders here.                                         *)
(*                                                                         *)
(* The file is read in one step: policy.yaml is smaller than one buffer.   *)
(* The operator's edits replace it whole.  Every text but Broken is a YAML *)
(* mapping.  A policy without "version" is named by its hash, and some     *)
(* have none: json.dumps refuses a date, or keys of several types.         *)
(*                                                                         *)
(* Files may fail to open, and writes to complete: the failing steps are   *)
(* actions of their own.                                                   *)
(*                                                                         *)
(* EXTENDed by ControlPlane, which decides when a request may act.         *)
(***************************************************************************)
EXTENDS Integers, Sequences, FiniteSets

CONSTANTS Texts,         \* complete policy files
          Deployed,      \* the one the process starts with
          Empty,         \* the file after open(.., "w"), and the policy {} it loads as
          Broken,        \* a file yaml.safe_load refuses
          NoText,
          Fragments,     \* policies that are the beginning of one: unfinished writes
          VersionOf,     \* "version" of a policy, or else its hash, where it has either
          Threads,       \* calls of the reload endpoint
          Writers,       \* calls of the PUT
          TextOf,        \* the text each of them carries
          LastSecond,    \* bound: the backups' names are made of a second
          MaxEdits,      \* bound: edits by the operator
          MaxCrashes     \* bound: deaths of the process

Seconds   == 0 .. LastSecond
Policies  == Texts \cup Fragments \cup {Empty}
Reloaders == Threads \cup Writers
Versioned == DOMAIN VersionOf

(* What a write that fails may leave. *)
Leftovers == {Empty, Broken} \cup Fragments

ASSUME PolicyStoreAssumption ==
    /\ Threads \cap Writers = {}
    /\ (Texts \cup Fragments) \cap {Empty, Broken, NoText} = {}
    /\ Empty # Broken /\ Empty # NoText /\ Broken # NoText
    /\ Deployed \in Texts \cap Versioned /\ Empty \in Versioned
    /\ Versioned \subseteq Policies
    /\ TextOf \in [Writers -> Texts]
    /\ {LastSecond, MaxEdits, MaxCrashes} \subseteq Nat

VARIABLES
    file, backups,       \* the disk
    second,              \* the clock
    live, version,       \* policy.policy and policy.policy_version
    phase,               \* where each reloader is
    loaded,              \* what it read from the file
    found,               \* the version it read from the policy
    up, edits, crashes,
    lineage,             \* history: the policies in force, and who put them there
    named,               \* history: the last of them whose version was put in force
    doubt,               \* history: have reloaders overlapped since one ran alone?
    unread,              \* history: has an edit or a PUT that failed changed the
                         \* file since it was last loaded?
    torn,                \* history: has a crash or a failed write emptied the file?
    written, taken       \* history: the texts the file has had; the backups taken

disk      == <<file, backups, written, taken>>
engine    == <<live, version, lineage, named>>
ghosts    == <<doubt, unread, torn>>
storeVars == <<disk, second, engine, phase, loaded, found, up, edits, crashes, ghosts>>

Active(phases) == {a \in Reloaders : phases[a] \notin {"idle", "done"}}

InitStore ==
    /\ file = Deployed /\ written = {file}
    /\ backups = [s \in Seconds |-> NoText] /\ taken = 0
    /\ second = 0
    /\ live = file /\ version = VersionOf[file] /\ lineage = <<[policy |-> file, by |-> NoText]>>
    /\ named = 1
    /\ phase = [a \in Reloaders |-> "idle"]
    /\ loaded = [a \in Reloaders |-> NoText]
    /\ found = [a \in Reloaders |-> VersionOf[file]]
    /\ up = TRUE /\ edits = 0 /\ crashes = 0
    /\ doubt = "none" /\ unread = FALSE /\ torn = FALSE

-----------------------------------------------------------------------------
(* What a reloader does.                                                   *)
To(a, p) == phase' = [phase EXCEPT ![a] = p]

(* It begins: reloaders overlap unless no other is active.  When one has   *)
(* run alone from its begin to its end, there is no doubt any more.        *)
Begin(a, p) ==
    /\ phase[a] = "idle" /\ To(a, p)
    /\ doubt' = IF Active(phase) # {} THEN "some"
                ELSE IF doubt = "some" THEN "mending" ELSE doubt

(* The reload endpoint is called. *)
StartThread(a) ==
    /\ up /\ a \in Threads
    /\ Begin(a, "load")
    /\ UNCHANGED <<disk, second, engine, loaded, found, up, edits, crashes, unread, torn>>

(* The PUT saves the file under the second's name, ... *)
Backup(a) ==
    /\ Begin(a, "truncate")
    /\ backups' = [backups EXCEPT ![second] = file] /\ taken' = taken + 1
    /\ UNCHANGED <<file, written, second, engine, loaded, found, up, edits, crashes, unread, torn>>

(* ... which may fail before the backup's file is open, or halfway. *)
BackupFails(a) ==
    /\ Begin(a, "done")
    /\ \/ UNCHANGED <<backups, taken>>
       \/ /\ \E t \in Leftovers \cup {file} : backups' = [backups EXCEPT ![second] = t]
          /\ taken' = taken + 1
    /\ UNCHANGED <<file, written, second, engine, loaded, found, up, edits, crashes, unread, torn>>

(* It opens the policy file for writing, ... *)
Truncate(a) ==
    /\ phase[a] = "truncate" /\ To(a, "write")
    /\ file' = Empty
    /\ UNCHANGED <<backups, written, taken, second, engine, loaded, found, up, edits, crashes, ghosts>>

(* ... writes the new text, and reloads. *)
Write(a) ==
    /\ phase[a] = "write" /\ To(a, "load")
    /\ file' = TextOf[a] /\ written' = written \cup {file'}
    /\ UNCHANGED <<backups, taken, second, engine, loaded, found, up, edits, crashes, ghosts>>

(* The open may fail, and the write after it has emptied the file: what is *)
(* left is some beginning of the text, and no reload follows.              *)
WriteFails(a) ==
    /\ phase[a] \in {"truncate", "write"} /\ To(a, "done")
    /\ IF phase[a] = "truncate" THEN UNCHANGED <<file, written, unread, torn>>
       ELSE /\ file' \in Leftovers \cup {TextOf[a]}
            /\ written' = written \cup ({file'} \cap {TextOf[a]})
            /\ unread' = TRUE /\ torn' = (torn \/ file' = Empty)
    /\ UNCHANGED <<backups, taken, second, engine, loaded, found, up, edits, crashes, doubt>>

(* Mutant of Load: it tries again until the file parses. *)
LoadPatiently(a) ==
    /\ phase[a] = "load" /\ file # Broken
    /\ To(a, "assign") /\ loaded' = [loaded EXCEPT ![a] = file]
    /\ unread' = FALSE
    /\ UNCHANGED <<disk, second, engine, found, up, edits, crashes, doubt, torn>>

(* Mutants of Load: a text that does not parse counts as an empty one; the *)
(* exception is swallowed, and None assigned.                              *)
LoadLenient(a) ==
    /\ phase[a] = "load"
    /\ To(a, "assign") /\ loaded' = [loaded EXCEPT ![a] = IF file = Broken THEN Empty ELSE file]
    /\ unread' = FALSE
    /\ UNCHANGED <<disk, second, engine, found, up, edits, crashes, doubt, torn>>

LoadSwallowing(a) ==
    /\ phase[a] = "load"
    /\ To(a, "assign") /\ loaded' = [loaded EXCEPT ![a] = IF file = Broken THEN NoText ELSE file]
    /\ unread' = FALSE
    /\ UNCHANGED <<disk, second, engine, found, up, edits, crashes, doubt, torn>>

(* The file is read; a text that does not parse raises. *)
Load(a) ==
    /\ phase[a] = "load"
    /\ IF file = Broken
       THEN To(a, "done") /\ UNCHANGED <<loaded, unread>>
       ELSE To(a, "assign") /\ loaded' = [loaded EXCEPT ![a] = file] /\ unread' = FALSE
    /\ UNCHANGED <<disk, second, engine, found, up, edits, crashes, doubt, torn>>

(* The file cannot be opened or read.  What a PUT wrote stays unread then. *)
LoadFails(a) ==
    /\ phase[a] = "load" /\ To(a, "done")
    /\ unread' = (unread \/ a \in Writers)
    /\ UNCHANGED <<disk, second, engine, loaded, found, up, edits, crashes, doubt, torn>>

(* self.policy = .. *)
Assign(a) ==
    /\ phase[a] = "assign" /\ To(a, "find")
    /\ live' = loaded[a]
    /\ lineage' = Append(lineage, [policy |-> live', by |-> a])
    /\ torn' = (torn /\ Empty \in {file, live'})
    /\ UNCHANGED <<disk, second, version, named, loaded, found, up, edits, crashes, doubt, unread>>

(* Mutant of Find: a version that is there is kept. *)
FindOnce(a) ==
    /\ phase[a] = "find" /\ To(a, "set")
    /\ found' = [found EXCEPT ![a] = version]
    /\ UNCHANGED <<disk, second, engine, loaded, up, edits, crashes, ghosts>>

(* self.policy.get("version"), or the hash: of the policy then in force.   *)
(* A policy that has neither raises here, and stays in force.              *)
Find(a) ==
    /\ phase[a] = "find"
    /\ IF live \in Versioned
       THEN To(a, "set") /\ found' = [found EXCEPT ![a] = VersionOf[live]]
       ELSE To(a, "done") /\ UNCHANGED found
    /\ UNCHANGED <<disk, second, engine, loaded, up, edits, crashes, ghosts>>

(* self.policy_version = .. *)
SetVersion(a) ==
    /\ phase[a] = "set" /\ To(a, "done")
    /\ version' = found[a] /\ named' = Len(lineage)
    /\ doubt' = IF doubt = "mending" THEN "none" ELSE doubt
    /\ UNCHANGED <<disk, second, live, lineage, loaded, found, up, edits, crashes, unread, torn>>

Reload(a) == Load(a) \/ Assign(a) \/ Find(a) \/ SetVersion(a)

-----------------------------------------------------------------------------
(* The rest of the world.                                                  *)
Tick ==
    /\ second < LastSecond /\ second' = second + 1
    /\ UNCHANGED <<disk, engine, phase, loaded, found, up, edits, crashes, ghosts>>

(* The operator, or another process on the same file, replaces it. *)
Edit(t) ==
    /\ edits < MaxEdits /\ edits' = edits + 1
    /\ file # t /\ file' = t /\ unread' = TRUE
    /\ UNCHANGED <<backups, written, taken, second, engine, phase, loaded, found, up, crashes, doubt, torn>>

(* The process dies: a PUT that has opened the file leaves it empty. *)
Die ==
    /\ up /\ up' = FALSE
    /\ crashes < MaxCrashes /\ crashes' = crashes + 1
    /\ torn' = (torn \/ \E a \in Reloaders : phase[a] = "write")
    /\ phase' = [a \in Reloaders |-> IF phase[a] = "idle" THEN "idle" ELSE "done"]
    /\ UNCHANGED <<disk, second, engine, loaded, found, edits, doubt, unread>>

(* It starts again if the file parses, and the policy has a version. *)
Boot ==
    /\ ~up /\ file \in Versioned
    /\ up' = TRUE
    /\ live' = file /\ version' = VersionOf[file]
    /\ lineage' = Append(lineage, [policy |-> file, by |-> NoText])
    /\ named' = Len(lineage')
    /\ doubt' = "none" /\ unread' = FALSE
    /\ UNCHANGED <<disk, second, phase, loaded, found, edits, crashes, torn>>

-----------------------------------------------------------------------------
TypeOKStore ==
    /\ file \in Policies \cup {Broken} /\ live \in Policies
    /\ backups \in [Seconds -> Policies \cup {Broken, NoText}]
    /\ second \in Seconds
    /\ phase \in [Reloaders -> {"idle", "truncate", "write", "load", "assign", "find", "set", "done"}]
    /\ loaded \in [Reloaders -> Policies \cup {NoText}]
    /\ \A a \in Reloaders : phase[a] = "assign" => loaded[a] # NoText
    /\ {version} \cup {found[a] : a \in Reloaders} \subseteq {VersionOf[p] : p \in Versioned}
    /\ named \in 1 .. Len(lineage)
    /\ edits \in 0 .. MaxEdits /\ crashes \in 0 .. MaxCrashes
    /\ doubt \in {"none", "mending", "some"}
    /\ {up, unread, torn} \subseteq BOOLEAN

(* v is the version of the i-th policy that was put in force. *)
Names(v, i) == lineage[i].policy \in Versioned /\ v = VersionOf[lineage[i].policy]

(* When every reload has ended, the policy in force is that of the file,   *)
(* unless the file was edited since, or a PUT failed once it had opened    *)
(* it; and the version is that of the policy in force or, where none can   *)
(* be computed of that one, of the last one before which has a version.    *)
(* Reloads that overlap break both, and one reload alone repairs what they *)
(* did.                                                                    *)
ReloadsSettle ==
    up /\ Active(phase) = {} /\ doubt = "none" =>
        /\ unread \/ live = file
        /\ Names(version, named)
        /\ \A i \in named + 1 .. Len(lineage) : lineage[i].policy \notin Versioned

(* The empty policy, which has no model list, no aliases and no budget, is *)
(* in force only if the process died or a write failed with the file open  *)
(* and empty, or a worker thread's reload overlapped with a PUT.           *)
EmptyByAccident == up /\ live = Empty => torn \/ doubt # "none"

(* Every text the file has had is in the file or in a backup, but for one  *)
(* for each backup that took the name of another of its second, and one    *)
(* for each edit by the operator: concurrent PUTs lose nothing otherwise,  *)
(* also where backups and writes fail halfway.                             *)
BackupsBound ==
    Cardinality(written \ ({file} \cup {backups[s] : s \in Seconds}))
        <= taken - Cardinality({s \in Seconds : backups[s] # NoText}) + edits
=============================================================================
