------------------------------ MODULE ConfigFile ------------------------------
(***************************************************************************)
(* The configuration file as the server's RPC methods edit it (cosmobot:   *)
(* RPC/Configuration.hs).  Under a lock the current text is read, compared *)
(* with the revision the request names, and replaced in steps: the new     *)
(* text and a copy of the old one are written aside, the backup is parked, *)
(* the copy becomes the backup, the new text becomes the file.  The steps  *)
(* from the parking on are masked; a failure in any of them puts the       *)
(* backup back; the death of the process puts nothing back.                *)
(*                                                                         *)
(* A document stands for a text, and for the hash that is its revision.    *)
(***************************************************************************)
CONSTANTS Doc,       \* the documents, those that do not parse included
          Valid(_),  \* does the document pass the typed parser and its owners' rules
          Start,     \* those the process may first be started on
          None,
          During     \* does the operator edit the file while it is being replaced

(* A replacement: of base by to, when the backup was old, and how far it is. *)
Stage == {"written", "parked", "installed"}
Job   == [base : Doc, to : Doc, old : Doc \cup {None}, stage : Stage]

ASSUME FileAssumption ==
    /\ None \notin Doc \cup Job /\ During \in BOOLEAN
    /\ Start \subseteq {d \in Doc : Valid(d)}
    /\ \A d \in Doc : Valid(d) \in BOOLEAN

VARIABLES file,    \* the file
          backup,  \* <file>.cosmobot.bak, or None
          active,  \* the document the process was started with
          job      \* the replacement under way, which holds writeLock, or None
fileVars == <<file, backup, active, job>>

FileInit ==
    /\ file \in Start /\ active = file
    /\ backup = None /\ job = None

(* The revision is checked; the new text and the previous one are written. *)
BeginReplace(revision, to) ==
    /\ job = None
    /\ file = revision /\ Valid(file) /\ Valid(to)
    /\ job' = [base |-> file, to |-> to, old |-> backup, stage |-> "written"]
    /\ UNCHANGED <<file, backup, active>>

Park ==
    /\ job # None /\ job.stage = "written"
    /\ backup' = None /\ job' = [job EXCEPT !.stage = "parked"]
    /\ UNCHANGED <<file, active>>

InstallBackup ==
    /\ job # None /\ job.stage = "parked"
    /\ backup' = job.base /\ job' = [job EXCEPT !.stage = "installed"]
    /\ UNCHANGED <<file, active>>

InstallCurrent ==
    /\ job # None /\ job.stage = "installed"
    /\ file' = job.to /\ job' = None
    /\ UNCHANGED <<backup, active>>

(* mutant: a failure leaves what was installed *)
FailUnrestored ==
    /\ job # None /\ job' = None
    /\ UNCHANGED <<file, backup, active>>

(* Writing, renaming or the request itself fails: restoreBackup. *)
Fail ==
    /\ job # None /\ job' = None
    /\ backup' = job.old
    /\ UNCHANGED <<file, active>>

(* The process dies, or is restarted; it starts again on the file. *)
Crash ==
    /\ Valid(file)
    /\ active' = file /\ job' = None
    /\ UNCHANGED <<file, backup>>

EditByHand(d) ==
    /\ During \/ job = None
    /\ file' = d
    /\ UNCHANGED <<backup, active, job>>

FileNext ==
    \/ Park \/ InstallBackup \/ InstallCurrent \/ Fail \/ Crash
    \/ \E d, e \in Doc : BeginReplace(d, e)
    \/ \E d \in Doc : EditByHand(d)

FileSpec == FileInit /\ [][FileNext]_fileVars

----------------------------------------------------------------------------
FileTypeOK ==
    /\ file \in Doc /\ backup \in Doc \cup {None} /\ active \in Doc
    /\ job \in Job \cup {None}

(* The file and its backup change together, although they are replaced in  *)
(* four steps that may fail in between, unless somebody edits the file     *)
(* meanwhile.                                                              *)
Parked == job # None /\ job.stage # "written"
Pair   == INSTANCE FilePair WITH current  <- file,
                                 previous <- IF Parked THEN job.old ELSE backup,
                                 running  <- active
ReplacesWhole == Pair!Spec
=============================================================================
