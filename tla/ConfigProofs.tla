----------------------------- MODULE ConfigProofs -----------------------------
(***************************************************************************)
(* That the file and its backup change together (ReplacesWhole), for every *)
(* set of documents: first of the file by itself, then of the file under   *)
(* the console's configuration page.  It holds only while nobody edits the *)
(* file during a replacement, which the theorems assume where they need it.*)
(*                                                                         *)
(* Then the page's three properties, for every set of sections, values and *)
(* documents, and whatever becomes of the connection: its drafts fit       *)
(* together (DraftsFitTogether), it shows what applying them gives         *)
(* (ShownIsApplied), and they are kept (DraftsAreKept).                    *)
(***************************************************************************)
EXTENDS ConfigEditor, TLAPS

(* What has become of the two files at each stage of a replacement.        *)
JobInv ==
    job # None =>
      /\ job.base = file
      /\ job.stage = "written" => backup = job.old
      /\ job.stage = "parked" => backup = None
      /\ job.stage = "installed" => backup = job.base

FileInv == FileTypeOK /\ JobInv

(* At the start the file and its backup are documents. *)
LEMMA FileInit_Type == FileInit => FileTypeOK
BY FileAssumption DEF FileInit, FileTypeOK

(* Every step of the file keeps the types, whoever edits it and when.      *)
LEMMA FileNext_Type == FileTypeOK /\ [FileNext]_fileVars => FileTypeOK'
<1> SUFFICES ASSUME FileTypeOK, [FileNext]_fileVars PROVE FileTypeOK'
  OBVIOUS
<1> USE FileAssumption DEF FileTypeOK, Job, Stage
<1>1. CASE Park
  BY <1>1 DEF Park
<1>2. CASE InstallBackup
  BY <1>2 DEF InstallBackup
<1>3. CASE InstallCurrent
  BY <1>3 DEF InstallCurrent
<1>4. CASE Fail
  BY <1>4 DEF Fail
<1>5. CASE Crash
  BY <1>5 DEF Crash
<1>6. ASSUME NEW d \in Doc, NEW e \in Doc, BeginReplace(d, e) PROVE FileTypeOK'
  BY <1>6 DEF BeginReplace
<1>7. ASSUME NEW d \in Doc, EditByHand(d) PROVE FileTypeOK'
  BY <1>7 DEF EditByHand
<1>8. CASE UNCHANGED fileVars
  BY <1>8 DEF fileVars
<1>9. QED
  BY <1>1, <1>2, <1>3, <1>4, <1>5, <1>6, <1>7, <1>8 DEF FileNext

(* The file and its backup are documents, and so is what a replacement     *)
(* carries, whatever is asked of the server.                               *)
THEOREM FileTypeCorrect == FileSpec => []FileTypeOK
<1>1. QED
  BY FileInit_Type, FileNext_Type, PTL DEF FileSpec

(* A replacement goes on as it was begun. *)
LEMMA FileNext_Job ==
    ASSUME ~During, FileInv, [FileNext]_fileVars
    PROVE  JobInv'
<1> USE FileAssumption DEF FileInv, FileTypeOK, JobInv, Job, Stage
<1>1. CASE Park
  BY <1>1 DEF Park
<1>2. CASE InstallBackup
  BY <1>2 DEF InstallBackup
<1>3. CASE InstallCurrent
  BY <1>3 DEF InstallCurrent
<1>4. CASE Fail
  BY <1>4 DEF Fail
<1>5. CASE Crash
  BY <1>5 DEF Crash
<1>6. ASSUME NEW d \in Doc, NEW e \in Doc, BeginReplace(d, e) PROVE JobInv'
  BY <1>6 DEF BeginReplace
<1>7. ASSUME NEW d \in Doc, EditByHand(d) PROVE JobInv'
  BY <1>7 DEF EditByHand
<1>8. CASE UNCHANGED fileVars
  BY <1>8 DEF fileVars
<1>9. QED
  BY <1>1, <1>2, <1>3, <1>4, <1>5, <1>6, <1>7, <1>8 DEF FileNext

(* Each step of the file is one of the pair, or none.                      *)
LEMMA FileNext_Pair ==
    ASSUME ~During, FileInv, [FileNext]_fileVars
    PROVE  [Pair!Next]_<<file, IF Parked THEN job.old ELSE backup, active>>
<1> USE FileAssumption DEF FileInv, FileTypeOK, JobInv, Job, Stage, Parked
<1> DEFINE previous == IF Parked THEN job.old ELSE backup
<1>1. CASE Park
  <2>1. file' = file /\ active' = active /\ previous' = previous
    BY <1>1 DEF Park
  <2>2. QED
    BY <2>1
<1>2. CASE InstallBackup
  <2>1. file' = file /\ active' = active /\ previous' = previous
    BY <1>2 DEF InstallBackup
  <2>2. QED
    BY <2>1
<1>3. CASE InstallCurrent
  <2>1. file' = job.to /\ job.to \in Doc /\ active' = active /\ previous' = file
    BY <1>3 DEF InstallCurrent
  <2>2. Pair!Replace(job.to)
    BY <2>1 DEF Pair!Replace
  <2>3. QED
    BY <2>1, <2>2 DEF Pair!Next
<1>4. CASE Fail
  <2>1. file' = file /\ active' = active /\ previous' = previous
    BY <1>4 DEF Fail
  <2>2. QED
    BY <2>1
<1>5. CASE Crash
  <2>1. file' = file /\ active' = file /\ previous' \in {previous, None, file}
    BY <1>5 DEF Crash
  <2>2. QED
    BY <2>1 DEF Pair!Next, Pair!Restart
<1>6. ASSUME NEW d \in Doc, NEW e \in Doc, BeginReplace(d, e)
      PROVE  [Pair!Next]_<<file, previous, active>>
  <2>1. file' = file /\ active' = active /\ previous' = previous
    BY <1>6 DEF BeginReplace
  <2>2. QED
    BY <2>1
<1>7. ASSUME NEW d \in Doc, EditByHand(d)
      PROVE  [Pair!Next]_<<file, previous, active>>
  <2>1. file' = d /\ active' = active /\ previous' = previous
    BY <1>7 DEF EditByHand
  <2>2. Pair!Edit(d)
    BY <2>1 DEF Pair!Edit
  <2>3. QED
    BY <2>2 DEF Pair!Next
<1>8. CASE UNCHANGED fileVars
  BY <1>8 DEF fileVars
<1>9. QED
  BY <1>1, <1>2, <1>3, <1>4, <1>5, <1>6, <1>7, <1>8 DEF FileNext

(* The initial files are a pair. *)
LEMMA FileInit_Pair == FileInit => FileInv /\ Pair!Init
BY FileInit_Type, FileAssumption DEF FileInit, FileInv, JobInv, FileTypeOK, Parked, Pair!Init

(* The server's replacement in four steps, any of which may fail or be the *)
(* last one before a crash, implements a pair that changes at once.        *)
THEOREM FileReplacesWhole == ~During /\ FileSpec => ReplacesWhole
<1> SUFFICES ASSUME ~During PROVE FileSpec => ReplacesWhole
  OBVIOUS
<1>1. FileInv /\ [FileNext]_fileVars => FileInv'
  BY FileNext_Type, FileNext_Job DEF FileInv
<1>2. FileInv /\ [FileNext]_fileVars => [Pair!Next]_<<file, IF Parked THEN job.old ELSE backup, active>>
  BY FileNext_Pair
<1>3. QED
  BY <1>1, <1>2, FileInit_Pair, PTL DEF FileSpec, ReplacesWhole, Pair!Spec

----------------------------------------------------------------------------
(* The page, its connection and other consoles reach the file only through *)
(* the steps of FileNext.                                                  *)
LEMMA User_File == User => UNCHANGED fileVars
<1> USE DEF Uses
<1>1. DiscardDrafts \/ Validate \/ Apply \/ Reject \/ Accept => UNCHANGED fileVars
  BY DEF DiscardDrafts, Validate, Apply, Reject, Accept
<1>2. RequestRefresh \/ RequestRollback \/ RequestRestart => UNCHANGED fileVars
  BY DEF RequestRefresh, RequestRollback, RequestRestart, Ask
<1>3. ASSUME NEW s \in Section PROVE EditOption(s) => UNCHANGED fileVars
  BY DEF EditOption
<1>4. ASSUME NEW s \in Section PROVE EditSection(s) => UNCHANGED fileVars
  BY DEF EditSection
<1>5. QED
  BY <1>1, <1>2, <1>3, <1>4 DEF User

(* An update begins a replacement, or leaves the file alone. *)
LEMMA ServeUpdate_File ==
    ASSUME FileTypeOK, ServeUpdate
    PROVE  UNCHANGED fileVars \/ \E d, e \in Doc : BeginReplace(d, e)
<1> DEFINE after == Applied(file, page.call.changes)
<1>1. CASE Same
  BY <1>1 DEF Same
<1>2. CASE ~Same
  <2>1. page.call.revision = file /\ after \in Doc /\ Update(after)
    BY <1>2 DEF ServeUpdate, Acceptable
  <2>2. BeginReplace(file, after)
    BY <1>2, <2>1 DEF Update
  <2>3. QED
    BY <2>1, <2>2 DEF FileTypeOK
<1>3. QED
  BY <1>1, <1>2

(* So does a rollback. *)
LEMMA ServeRollback_File ==
    ASSUME FileTypeOK, ServeRollback
    PROVE  UNCHANGED fileVars \/ \E d, e \in Doc : BeginReplace(d, e)
<1>1. CASE Same
  BY <1>1 DEF Same
<1>2. CASE ~Same
  <2>1. page.call.revision = file /\ backup # None /\ BeginReplace(page.call.revision, backup)
    BY <1>2 DEF ServeRollback
  <2>2. QED
    BY <2>1 DEF FileTypeOK
<1>3. QED
  BY <1>1, <1>2

(* What the server does to the file is a step of ConfigFile. *)
LEMMA Server_File == FileTypeOK /\ Server => [FileNext]_fileVars
<1> SUFFICES ASSUME FileTypeOK, Server PROVE [FileNext]_fileVars
  OBVIOUS
<1>1. CASE ReadFile \/ ReadBackup \/ ServeValidate \/ ServeRestart
  BY <1>1 DEF ReadFile, ReadBackup, ServeValidate, ServeRestart, Same
<1>2. CASE ServeUpdate \/ ServeRollback
  BY <1>2, ServeUpdate_File, ServeRollback_File DEF FileNext
<1>3. CASE Replacing \/ ReplaceFails
  BY <1>3 DEF Replacing, ReplaceFails, FileNext
<1>4. CASE Restarts \/ ServerDies
  BY <1>4 DEF Restarts, ServerDies, FileNext
<1>5. QED
  BY <1>1, <1>2, <1>3, <1>4 DEF Server

(* What other consoles do to it is too. *)
LEMMA Elsewhere_File == FileTypeOK /\ Elsewhere => [FileNext]_fileVars
<1> SUFFICES ASSUME FileTypeOK, Elsewhere PROVE [FileNext]_fileVars
  OBVIOUS
<1>1. PICK d \in Doc : BeginReplace(file, d) \/ EditByHand(d)
  BY DEF Elsewhere
<1>2. QED
  BY <1>1 DEF FileNext, FileTypeOK

(* Every step of the page's specification is one of the file's, or leaves it alone. *)
LEMMA Next_File == FileTypeOK /\ [Next]_vars => [FileNext]_fileVars
<1> SUFFICES ASSUME FileTypeOK, [Next]_vars PROVE [FileNext]_fileVars
  OBVIOUS
<1>1. CASE User
  BY <1>1, User_File
<1>2. CASE Server
  BY <1>2, Server_File
<1>3. CASE Elsewhere
  BY <1>3, Elsewhere_File
<1>4. CASE Drop
  BY <1>4 DEF Drop, FileNext
<1>5. CASE Receive \/ GivesUp \/ Reconnect
  BY <1>5 DEF Receive, GivesUp, Reconnect, Same
<1>6. CASE UNCHANGED vars
  BY <1>6 DEF vars
<1>7. QED
  BY <1>1, <1>2, <1>3, <1>4, <1>5, <1>6 DEF Next

(* Whatever consoles do, and whatever becomes of their connections, the    *)
(* file goes through the steps of FileSpec only.                           *)
THEOREM EditorUsesTheFile == Spec => FileSpec
<1>1. Init => FileInit
  BY DEF Init
<1>2. FileTypeOK /\ [Next]_vars => FileTypeOK'
  BY Next_File, FileNext_Type
<1>3. QED
  BY <1>1, <1>2, Next_File, FileInit_Type, PTL DEF Spec, FileSpec

(* Under the console, too, the file and its backup are documents.          *)
THEOREM EditorKeepsFileType == Spec => []FileTypeOK
<1>1. QED
  BY EditorUsesTheFile, FileTypeCorrect, PTL

(* The configuration page, with connections that are lost, requests that   *)
(* are given up and other consoles, has the file and its backup change     *)
(* together: an update that is cut off is whole or has not happened.       *)
THEOREM EditorReplacesWhole == ~During /\ Spec => ReplacesWhole
<1>1. QED
  BY EditorUsesTheFile, FileReplacesWhole

----------------------------------------------------------------------------
(* What the page holds: a snapshot, a request, a question, the page itself. *)
Snapshots == [revision : Doc, doc : Doc, active : Doc, editable : BOOLEAN, backup : Doc \cup {None}]
Calls == [what : {"get", "validate", "update", "rollback", "restart"}, discard : BOOLEAN,
          revision : Doc \cup {None}, changes : SUBSET Change, backup : Doc \cup {None},
          got : {"none", "working", "ok", "valid", "invalid", "error"}, snap : Snapshots \cup {None}]
Questions == [what : {"refresh", "rollback", "restart"}, of : Doc \cup {None}]
Pages == [conn : {"authenticated", "reconnecting"}, snap : Snapshots \cup {None}, changes : SUBSET Change,
          drafted : SUBSET Section, validation : {"none", "ok", "valid", "invalid"}, loading : BOOLEAN,
          validating : BOOLEAN, dialog : Questions \cup {None}, call : Calls \cup {None}]

(* How a set of changes fits the snapshot it was drafted on.  An option has *)
(* at most one draft; a section is added where there is none and dropped    *)
(* where there is one; options are drafted only of sections one can edit.   *)
ValuesFit(p)  == \A c \in p.changes : IF c.op = "set" THEN c.value \in Value ELSE c.value = None
OneDraft(p)   == \A b, c \in p.changes : OnOption(b) /\ OnOption(c) /\ b.path = c.path => b = c
AddsFit(p)    == \A s \in Section : Added(p, s) =>
                   s \in Optional \cup Provider /\ ~Present(p, s) /\ s \in Known(p) \cup p.drafted
DropsFit(p)   == \A s \in Section : Dropped(p, s) => s \in Optional \cup Provider /\ Present(p, s)
DraftsFit(p)  == \A c \in p.changes : OnOption(c) => c.path \in Shown(p) /\ Enabled(p, c.path)
DraftedFit(p) == \A s \in p.drafted : s \in Provider /\ Added(p, s)
Fits(p) == ValuesFit(p) /\ OneDraft(p) /\ AddsFit(p) /\ DropsFit(p) /\ DraftsFit(p) /\ DraftedFit(p)

(* A change of a section is the one that Added or Dropped looks for. *)
LEMMA SectionChanges ==
    ASSUME NEW p \in Pages, Fits(p), NEW c \in p.changes, ~OnOption(c)
    PROVE  /\ c.path \in Section
           /\ c.op = "add" => c = Changed("add", c.path) /\ Added(p, c.path)
           /\ c.op = "drop" => c = Changed("drop", c.path) /\ Dropped(p, c.path)
           /\ c.op \in {"add", "drop"}
<1>1. c \in Change /\ c.value = None /\ c.op \in {"add", "drop"}
  BY DEF Pages, Fits, ValuesFit, OnOption, Change
<1>2. c = [op |-> c.op, path |-> c.path, value |-> c.value]
  BY <1>1 DEF Change
<1>3. QED
  BY <1>1, <1>2 DEF Changed, Added, Dropped, Change

(* Changes that fit the snapshot are a change set the server accepts. *)
LEMMA FitsAreConsistent ==
    ASSUME NEW p \in Pages, p.snap # None, Fits(p)
    PROVE  Consistent(p.snap.doc, p.changes)
<1>1. ASSUME NEW b \in p.changes, NEW c \in p.changes, b.path = c.path, OnOption(b) = OnOption(c) PROVE b = c
  <2>1. CASE OnOption(b)
    BY <1>1, <2>1 DEF Fits, OneDraft
  <2>2. CASE ~OnOption(b)
    <3>1. b.op = c.op
      BY <1>1, <2>2, SectionChanges DEF Fits, AddsFit, DropsFit
    <3>2. QED
      BY <1>1, <2>2, <3>1, SectionChanges
  <2>3. QED
    BY <2>1, <2>2
<1>2. ASSUME NEW b \in p.changes, NEW c \in p.changes, b.op = "drop", OnOption(c), b.path = c.path PROVE FALSE
  <2>1. ~OnOption(b) /\ Dropped(p, c.path) /\ c.path \in Section
    BY <1>2, SectionChanges DEF OnOption
  <2>2. c.path \in Optional \cup Provider /\ Present(p, c.path) /\ ~Added(p, c.path)
    BY <2>1 DEF Fits, DropsFit, AddsFit
  <2>3. c.path \in Shown(p) /\ Enabled(p, c.path)
    BY <1>2 DEF Fits, DraftsFit
  <2>4. QED
    BY <2>1, <2>2, <2>3 DEF Shown, Enabled
<1>3. ASSUME NEW c \in p.changes, c.op = "add" PROVE p.snap.doc[c.path] = "absent"
  BY <1>3, SectionChanges DEF OnOption, Fits, AddsFit, Present
<1>4. QED
  BY <1>1, <1>2, <1>3 DEF Consistent

(* Of changes that fit the snapshot, the page shows what applying them gives. *)
LEMMA FitsAreShown ==
    ASSUME NEW p \in Pages, p.snap # None, Fits(p), NEW s \in Section
    PROVE  LET after == Applied(p.snap.doc, p.changes)
           IN IF s \in Shown(p) /\ Enabled(p, s)
              THEN /\ after[s] # "absent"
                   /\ (p.snap.doc[s] \in Value \/ p.snap.active[s] \notin Value) => Meaning(after, s) = DraftValue(p, s)
              ELSE after[s] = "absent"
<1> DEFINE doc     == p.snap.doc
           sets    == {c \in p.changes : c.op = "set" /\ c.path = s}
           section == SectionAfter(doc, p.changes, s)
           after   == Applied(doc, p.changes)
<1>1. /\ doc[s] \in Value \cup {"absent", "unset"} /\ "absent" \notin Value /\ "unset" \notin Value
      /\ s \notin Optional \cup Provider => doc[s] # "absent"
  BY EditorAssumption DEF Pages, Snapshots
<1>4. /\ Added(p, s) => s \in Optional \cup Provider /\ doc[s] = "absent" /\ s \in Known(p) \cup p.drafted
      /\ Dropped(p, s) => s \in Optional \cup Provider /\ doc[s] # "absent"
      /\ s \in p.drafted => s \in Provider /\ Added(p, s)
  BY DEF Fits, AddsFit, DropsFit, DraftedFit, Present
<1>2. section = IF Dropped(p, s) THEN "absent" ELSE IF Added(p, s) THEN "unset" ELSE doc[s]
  BY <1>4 DEF SectionAfter, Dropped, Added
<1>3. after[s] = IF sets # {} THEN (CHOOSE c \in sets : TRUE).value
                 ELSE IF Changed("remove", s) \in p.changes /\ section # "absent" THEN "unset" ELSE section
  BY DEF Applied
<1> HIDE DEF doc, sets, section, after
<1>5. s \in Shown(p) /\ Enabled(p, s) => section # "absent"
  <2>1. Present(p, s) <=> doc[s] # "absent"
    BY DEF Present, doc
  <2>2. QED
    BY <1>1, <1>2, <1>4, <2>1 DEF Shown, Enabled
<1>6. section # "absent" => s \in Shown(p) /\ Enabled(p, s)
  <2>1. Present(p, s) <=> doc[s] # "absent"
    BY DEF Present, doc
  <2>2. s \in Shown(p) <=> s \in Known(p) \cup p.drafted /\ (s \in Optional \/ ~Dropped(p, s))
    BY DEF Shown
  <2>3. Enabled(p, s) <=> IF s \in Provider /\ doc[s] = "absent" THEN Added(p, s)
                         ELSE s \in Optional => Added(p, s) \/ (doc[s] # "absent" /\ ~Dropped(p, s))
    BY <2>1 DEF Enabled
  <2>4. doc[s] # "absent" \/ s \notin Provider => s \in Known(p)
    BY <2>1 DEF Known
  <2>5. Provider \cap Optional = {}
    BY EditorAssumption
  <2>6. QED
    BY <1>1, <1>2, <1>4, <2>2, <2>3, <2>4, <2>5
<1>7. CASE DraftsOf(p, s) = {}
  <2>1. sets = {} /\ Changed("remove", s) \notin p.changes
    BY <1>7 DEF DraftsOf, OnOption, sets, Changed
  <2>2. after[s] = section
    BY <1>3, <2>1
  <2>3. BaseValue(p, s) = IF doc[s] = "absent" /\ Added(p, s) THEN Default
                          ELSE IF doc[s] \in Value THEN doc[s]
                          ELSE IF p.snap.active[s] \in Value THEN p.snap.active[s]
                          ELSE Default
    BY DEF BaseValue, Present, doc
  <2>4. DraftValue(p, s) = BaseValue(p, s)
    BY <1>7 DEF DraftValue
  <2>5. Meaning(after, s) = IF section \in Value THEN section ELSE Default
    BY <2>2 DEF Meaning
  <2>6. section # "absent" /\ (doc[s] \in Value \/ p.snap.active[s] \notin Value) => Meaning(after, s) = BaseValue(p, s)
    BY <1>1, <1>2, <1>4, <2>3, <2>5
  <2>7. QED
    BY <1>5, <1>6, <2>2, <2>4, <2>6 DEF after, doc
<1>8. CASE DraftsOf(p, s) # {}
  <2>1. PICK c \in p.changes : OnOption(c) /\ c.path = s
    BY <1>8 DEF DraftsOf
  <2>2. s \in Shown(p) /\ Enabled(p, s) /\ section # "absent"
    BY <2>1, <1>5 DEF Fits, DraftsFit
  <2>3. \A b \in p.changes : OnOption(b) /\ b.path = s => b = c
    BY <2>1 DEF Fits, OneDraft
  <2>4. DraftsOf(p, s) = {c}
    BY <2>1, <2>3 DEF DraftsOf
  <2>5. DraftValue(p, s) = IF c.op = "set" THEN c.value ELSE Default
    BY <2>4 DEF DraftValue
  <2>6. CASE c.op = "set"
    <3>1. sets = {c}
      BY <2>1, <2>3, <2>6 DEF sets, OnOption
    <3>2. after[s] = c.value
      BY <1>3, <3>1
    <3>3. c.value \in Value
      BY <2>1, <2>6 DEF Fits, ValuesFit
    <3>4. QED
      BY <1>1, <2>2, <2>5, <2>6, <3>2, <3>3 DEF after, doc, Meaning
  <2>7. CASE c.op # "set"
    <3>1. sets = {}
      BY <2>1, <2>3, <2>7 DEF sets, OnOption
    <3>2. c \in Change /\ c.op = "remove" /\ c.value = None
      BY <2>1, <2>7 DEF Pages, OnOption, Fits, ValuesFit
    <3>3. c = Changed("remove", s)
      BY <2>1, <3>2 DEF Change, Changed
    <3>4. after[s] = "unset"
      BY <1>3, <2>1, <2>2, <3>1, <3>3
    <3>5. QED
      BY <1>1, <2>2, <2>5, <2>7, <3>4 DEF after, doc, Meaning
  <2>8. QED
    BY <2>6, <2>7
<1>9. QED
  BY <1>7, <1>8

(* What a page reads of its drafts depends on which sections they add and drop. *)
LEMMA SameSections ==
    ASSUME NEW p \in Pages, NEW q \in Pages, q.snap = p.snap, q.drafted = p.drafted,
           \A s \in Section : (Added(q, s) <=> Added(p, s)) /\ (Dropped(q, s) <=> Dropped(p, s))
    PROVE  /\ \A s \in Section : Present(q, s) <=> Present(p, s)
           /\ Known(q) = Known(p) /\ Shown(q) = Shown(p)
           /\ \A s \in Section : Enabled(q, s) <=> Enabled(p, s)
<1>1. \A s \in Section : Present(q, s) <=> Present(p, s)
  BY DEF Present
<1>2. Known(q) = Known(p)
  BY <1>1 DEF Known
<1>3. Known(p) \cup p.drafted \subseteq Section
  BY DEF Known, Pages
<1>4. Shown(q) = Shown(p)
  BY <1>2, <1>3 DEF Shown
<1>5. \A s \in Section : Enabled(q, s) <=> Enabled(p, s)
  BY <1>1 DEF Enabled
<1>6. QED
  BY <1>1, <1>2, <1>4, <1>5

(* Whether changes fit depends on nothing else the page holds. *)
LEMMA SameDrafts ==
    ASSUME NEW p \in Pages, Fits(p), NEW q \in Pages, q.snap = p.snap, q.drafted = p.drafted, q.changes = p.changes
    PROVE  Fits(q)
<1>1. \A s \in Section : (Added(q, s) <=> Added(p, s)) /\ (Dropped(q, s) <=> Dropped(p, s))
  BY DEF Added, Dropped
<1>2. /\ \A s \in Section : Present(q, s) <=> Present(p, s)
      /\ Known(q) = Known(p) /\ Shown(q) = Shown(p)
      /\ \A s \in Section : Enabled(q, s) <=> Enabled(p, s)
  BY <1>1, SameSections
<1>3. /\ p.drafted \subseteq Section
      /\ \A c \in p.changes : c.path \in Section
  BY DEF Pages, Change
<1>4. ValuesFit(q) /\ OneDraft(q)
  BY DEF Fits, ValuesFit, OneDraft
<1>5. AddsFit(q) /\ DropsFit(q)
  BY <1>1, <1>2 DEF Fits, AddsFit, DropsFit
<1>6. DraftsFit(q) /\ DraftedFit(q)
  BY <1>1, <1>2, <1>3 DEF Fits, DraftsFit, DraftedFit
<1>7. QED
  BY <1>4, <1>5, <1>6 DEF Fits

(* Another draft of an option, or none, of a section that can be edited. *)
LEMMA OptionDrafts ==
    ASSUME NEW p \in Pages, Fits(p), NEW s \in Shown(p), Enabled(p, s),
           NEW x \in Change, OnOption(x), x.path = s, IF x.op = "set" THEN x.value \in Value ELSE x.value = None,
           NEW drafts \in BOOLEAN,
           NEW q \in Pages, q.snap = p.snap, q.drafted = p.drafted,
           \A c : c \in q.changes <=> (c \in p.changes /\ c \notin DraftsOf(p, s)) \/ (drafts /\ c = x)
    PROVE  Fits(q)
<1>1. \A c : ~OnOption(c) => (c \in q.changes <=> c \in p.changes)
  BY DEF DraftsOf
<1>2. \A c \in q.changes : OnOption(c) => (c \in p.changes /\ c.path # s) \/ c = x
  BY DEF DraftsOf
<1>3. \A t \in Section : (Added(q, t) <=> Added(p, t)) /\ (Dropped(q, t) <=> Dropped(p, t))
  BY <1>1 DEF Added, Dropped, Changed, OnOption
<1>4. /\ \A t \in Section : Present(q, t) <=> Present(p, t)
      /\ Known(q) = Known(p) /\ Shown(q) = Shown(p)
      /\ \A t \in Section : Enabled(q, t) <=> Enabled(p, t)
  BY <1>3, SameSections
<1>5. p.drafted \subseteq Section /\ \A c \in q.changes : c.path \in Section
  BY DEF Pages, Change
<1>6. ValuesFit(q)
  BY DEF Fits, ValuesFit
<1>7. OneDraft(q)
  BY <1>2 DEF Fits, OneDraft
<1>8. AddsFit(q) /\ DropsFit(q)
  BY <1>3, <1>4 DEF Fits, AddsFit, DropsFit
<1>9. DraftsFit(q)
  BY <1>2, <1>4, <1>5 DEF Fits, DraftsFit
<1>10. DraftedFit(q)
  BY <1>3, <1>5 DEF Fits, DraftedFit
<1>11. QED
  BY <1>6, <1>7, <1>8, <1>9, <1>10 DEF Fits

(* A section of one of the two kinds goes, with the drafts of its options. *)
LEMMA SectionGoes ==
    ASSUME NEW p \in Pages, p.snap # None, Fits(p), NEW s \in Optional \cup Provider,
           NEW q \in Pages, q.snap = p.snap, q.drafted = p.drafted \ {s},
           \A c : c \in q.changes <=> (c \in p.changes /\ c.path # s) \/ (c = Changed("drop", s) /\ Present(p, s))
    PROVE  Fits(q)
<1>1. s \in Section /\ Changed("drop", s).path = s /\ ~OnOption(Changed("drop", s))
  BY EditorAssumption DEF Changed, OnOption
<1>2. \A t \in Section : t # s => (Added(q, t) <=> Added(p, t)) /\ (Dropped(q, t) <=> Dropped(p, t))
  BY DEF Added, Dropped, Changed
<1>3. ~Added(q, s) /\ (Dropped(q, s) <=> Present(p, s))
  BY DEF Added, Dropped, Changed
<1>4. \A t \in Section : Present(q, t) <=> Present(p, t)
  BY DEF Present
<1>5. Known(q) = Known(p)
  BY <1>4 DEF Known
<1>6. \A t \in Section : t # s => (t \in Shown(q) <=> t \in Shown(p)) /\ (Enabled(q, t) <=> Enabled(p, t))
  BY <1>2, <1>4, <1>5 DEF Shown, Enabled
<1>7. p.drafted \subseteq Section /\ \A c \in q.changes : c.path \in Section
  BY DEF Pages, Change
<1>8. \A c \in q.changes : OnOption(c) => c \in p.changes /\ c.path # s
  BY <1>1
<1>9. ValuesFit(q)
  BY DEF Fits, ValuesFit, Changed
<1>10. OneDraft(q)
  BY <1>8 DEF Fits, OneDraft
<1>11. AddsFit(q) /\ DropsFit(q)
  BY <1>2, <1>3, <1>4, <1>5 DEF Fits, AddsFit, DropsFit
<1>12. DraftsFit(q)
  BY <1>6, <1>7, <1>8 DEF Fits, DraftsFit
<1>13. DraftedFit(q)
  BY <1>2, <1>7 DEF Fits, DraftedFit
<1>14. QED
  BY <1>9, <1>10, <1>11, <1>12, <1>13 DEF Fits

(* A section comes, or stays after all. *)
LEMMA SectionComes ==
    ASSUME NEW p \in Pages, p.snap # None, Fits(p), NEW s \in Optional \cup Provider,
           NEW q \in Pages, q.snap = p.snap,
           q.drafted = p.drafted \/ (q.drafted = p.drafted \cup {s} /\ s \in Provider /\ ~Present(p, s)),
           s \in Known(p) \cup q.drafted,
           \A c : c \in q.changes <=> (c \in p.changes /\ c \notin SectionsOf(p, s))
                                      \/ (c = Changed("add", s) /\ ~Present(p, s))
    PROVE  Fits(q)
<1>1. s \in Section /\ Changed("add", s).path = s /\ ~OnOption(Changed("add", s))
  BY EditorAssumption DEF Changed, OnOption
<1>2. \A t \in Section : t # s => (Added(q, t) <=> Added(p, t)) /\ (Dropped(q, t) <=> Dropped(p, t))
  BY DEF Added, Dropped, Changed, SectionsOf
<1>3. (Added(q, s) <=> ~Present(p, s)) /\ ~Dropped(q, s)
  BY DEF Added, Dropped, Changed, SectionsOf, OnOption
<1>4. \A t \in Section : Present(q, t) <=> Present(p, t)
  BY DEF Present
<1>5. Known(q) = Known(p)
  BY <1>4 DEF Known
<1>6. \A t \in Section : t # s => (t \in Shown(q) <=> t \in Shown(p)) /\ (Enabled(q, t) <=> Enabled(p, t))
  BY <1>2, <1>4, <1>5 DEF Shown, Enabled
<1>7. s \in Shown(q) /\ Enabled(q, s)
  <2>1. s \in Shown(q)
    BY <1>3, <1>5 DEF Shown
  <2>2. Enabled(q, s)
    BY <1>1, <1>3, <1>4 DEF Enabled
  <2>3. QED
    BY <2>1, <2>2
<1>8. p.drafted \subseteq Section /\ \A c \in q.changes : c.path \in Section
  BY DEF Pages, Change
<1>9. \A c \in q.changes : OnOption(c) => c \in p.changes
  BY <1>1
<1>10. ValuesFit(q)
  BY DEF Fits, ValuesFit, Changed
<1>11. OneDraft(q)
  BY <1>9 DEF Fits, OneDraft
<1>12. AddsFit(q) /\ DropsFit(q)
  BY <1>2, <1>3, <1>4, <1>5 DEF Fits, AddsFit, DropsFit
<1>13. DraftsFit(q)
  BY <1>6, <1>7, <1>8, <1>9 DEF Fits, DraftsFit
<1>14. DraftedFit(q)
  BY <1>1, <1>2, <1>3, <1>8 DEF Fits, DraftedFit, AddsFit
<1>15. QED
  BY <1>10, <1>11, <1>12, <1>13, <1>14 DEF Fits

(* The inductive invariant of the page.  Its changes fit its snapshot.  While *)
(* a request is under way the controls are off, so what it was made from is   *)
(* still what the page holds: a plain refresh finds no drafts, and the        *)
(* changes of an update are those drafted.  A question stands only while      *)
(* nothing is asked of the server, unless a connection that came back has     *)
(* started a plain refresh.                                                   *)
Drafting(p) == IF p.snap = None THEN p.changes = {} /\ p.drafted = {} ELSE Fits(p)
Asking(p) ==
    p.call # None =>
      /\ Live(p) /\ Busy(p)
      /\ p.call.what = "get" /\ ~p.call.discard => p.changes = {}
      /\ p.call.what = "get" /\ p.call.got \notin {"none", "working", "error"} => p.call.snap \in Snapshots
      /\ p.call.what = "update" => p.call.changes = p.changes /\ p.call.got \notin {"valid", "invalid"}
      /\ p.call.what = "rollback" => p.changes = {}
Questioning(p) ==
    p.dialog # None =>
      /\ p.call # None => p.call.what = "get" /\ ~p.call.discard
      /\ p.dialog.what = "refresh" => p.changes # {}
      /\ p.dialog.what = "rollback" => p.snap \in Snapshots
PageInv(p) == p \in Pages /\ Drafting(p) /\ Asking(p) /\ Questioning(p)
(* What the server's answer to a replacement finds. *)
Awaited(p) ==
    /\ p.call \in Calls /\ p.call.got = "working"
    /\ (p.call.what = "update" /\ p.call.changes = p.changes) \/ (p.call.what = "rollback" /\ p.changes = {})
    /\ Live(p) /\ Busy(p) /\ p.dialog = None
EditorInv == FileTypeOK /\ awaited \in BOOLEAN /\ PageInv(page) /\ (awaited => Awaited(page))

(* Nor does whether the page can be drafted on. *)
LEMMA SameDrafting ==
    ASSUME NEW p \in Pages, Drafting(p), NEW q \in Pages, q.snap = p.snap, q.drafted = p.drafted, q.changes = p.changes
    PROVE  Drafting(q)
BY SameDrafts DEF Drafting

(* A refresh is a call. *)
LEMMA GetIsCall == ASSUME NEW d \in BOOLEAN
                   PROVE  /\ Get(d) \in Calls
                          /\ Get(d).what = "get" /\ Get(d).discard = d /\ Get(d).got = "none"
BY DEF Get, Call, Calls

(* refresh, with or without discarding drafts. *)
LEMMA Refreshes ==
    ASSUME NEW p, PageInv(p), NEW discard \in BOOLEAN, discard => p.dialog = None
    PROVE  /\ PageInv(Refresh(p, discard))
           /\ Refresh(p, discard).changes = p.changes /\ Refresh(p, discard).snap = p.snap
<1> DEFINE q == [p EXCEPT !.loading = TRUE, !.call = Get(discard)]
<1>1. CASE Refresh(p, discard) = p
  BY <1>1
<1>2. CASE Refresh(p, discard) # p
  <2>1. Refresh(p, discard) = q /\ Live(p) /\ (~discard => p.changes = {})
    BY <1>2 DEF Refresh
  <2>2. p \in Pages
    BY DEF PageInv
  <2>3. Get(discard) \in Calls /\ Get(discard).what = "get" /\ Get(discard).discard = discard /\ Get(discard).got = "none"
    BY GetIsCall
  <2>4. /\ q \in Pages /\ q.call = Get(discard) /\ q.loading /\ q.snap = p.snap /\ q.changes = p.changes
        /\ q.drafted = p.drafted /\ q.conn = p.conn /\ q.dialog = p.dialog
    BY <2>2, <2>3 DEF Pages
  <2> HIDE DEF q
  <2>5. Drafting(q)
    BY <2>2, <2>4, SameDrafting DEF PageInv
  <2>6. Asking(q)
    BY <2>1, <2>3, <2>4 DEF Asking, Live, Busy
  <2>7. Questioning(q)
    BY <2>1, <2>3, <2>4 DEF PageInv, Questioning
  <2>8. QED
    BY <2>1, <2>4, <2>5, <2>6, <2>7 DEF PageInv
<1>3. QED
  BY <1>1, <1>2

(* Without drafts anything fits. *)
LEMMA NoDrafts ==
    ASSUME NEW p \in Pages, p.changes = {}, p.drafted = {}
    PROVE  Drafting(p)
BY DEF Drafting, Fits, ValuesFit, OneDraft, AddsFit, DropsFit, DraftsFit, DraftedFit, Added, Dropped

(* Without changes nothing was added. *)
LEMMA NoneDrafted ==
    ASSUME NEW p \in Pages, Drafting(p), p.changes = {}
    PROVE  p.drafted = {}
BY DEF Drafting, Fits, DraftedFit, Added

(* clearDrafts, once nothing is asked. *)
LEMMA Clears ==
    ASSUME NEW p, PageInv(p), p.dialog = None, p.call = None
    PROVE  /\ PageInv(ClearDrafts(p)) /\ ClearDrafts(p).dialog = None /\ ClearDrafts(p).snap = p.snap
           /\ ClearDrafts(p).changes = {}
<1> DEFINE q == ClearDrafts(p)
<1>1. p \in Pages
  BY DEF PageInv
<1>2. q \in Pages /\ q.changes = {} /\ q.drafted = {} /\ q.dialog = None /\ q.call = None /\ q.snap = p.snap
  BY <1>1 DEF ClearDrafts, Draft, Invalidate, Pages
<1>3. QED
  BY <1>2, NoDrafts DEF PageInv, Asking, Questioning

(* The page's request comes back. *)
LEMMA Arrival ==
    ASSUME NEW p, PageInv(p), p.call # None,
           NEW c \in Calls, c.what = p.call.what, c.discard = p.call.discard, c.changes = p.call.changes,
           c.snap = p.call.snap, c.got = p.call.got \/ c.got = "error", c.got \notin {"none", "working"}
    PROVE  /\ PageInv(Arrives(p, c))
           /\ p.changes # {} =>
                LET q == Arrives(p, c)
                IN /\ q.changes # {} => q.snap = p.snap
                   /\ q.changes # p.changes => \/ p.call.what = "update" /\ p.call.got = "ok" /\ p.call.changes = p.changes
                                               \/ p.call.what = "get" /\ p.call.discard
<1> DEFINE b == [p EXCEPT !.call = None, !.loading = FALSE, !.validating = FALSE]
           q == Arrives(p, c)
<1>1. p \in Pages /\ Asking(p) /\ Questioning(p) /\ Drafting(p)
  BY DEF PageInv
<1>2. /\ b \in Pages /\ b.call = None /\ b.dialog = p.dialog /\ b.changes = p.changes /\ b.snap = p.snap
      /\ b.drafted = p.drafted /\ b.conn = p.conn
  BY <1>1 DEF Pages
<1>3. q = CASE c.what = "get"      -> GetArrives(b, c)
            [] c.what = "validate" -> ValidateArrives(b, c)
            [] c.what = "update"   -> UpdateArrives(b, c)
            [] c.what = "rollback" -> RollbackArrives(b, c)
            [] c.what = "restart"  -> b
  BY DEF Arrives
<1> HIDE DEF b, q
<1>4. PageInv(b)
  BY <1>1, <1>2, SameDrafting DEF PageInv, Asking, Questioning
<1>5. c.what \in {"get", "validate", "update", "rollback", "restart"}
  BY DEF Calls
<1>6. CASE c.what = "get"
  <2>1. q = GetArrives(b, c)
    BY <1>3, <1>6
  <2>2. CASE Failed(c)
    BY <1>2, <1>4, <2>1, <2>2 DEF GetArrives, q
  <2>3. CASE ~Failed(c)
    <3>1. c.snap \in Snapshots
      BY <1>1, <1>6, <2>3 DEF Asking, Failed
    <3> DEFINE a == [b EXCEPT !.snap = c.snap]
    <3>2. /\ a \in Pages /\ a.snap = c.snap /\ a.changes = p.changes /\ a.drafted = p.drafted /\ a.call = None
          /\ a.dialog = p.dialog
      BY <1>2, <3>1 DEF Pages
    <3>3. q = IF c.discard THEN ClearDrafts(a) ELSE a
      BY <2>1, <2>3 DEF GetArrives
    <3> HIDE DEF a
    <3>4. CASE c.discard
      <4>1. p.dialog = None
        BY <1>1, <1>6, <3>4 DEF Questioning
      <4>2. ClearDrafts(a) \in Pages /\ ClearDrafts(a).changes = {} /\ ClearDrafts(a).drafted = {}
            /\ ClearDrafts(a).call = None /\ ClearDrafts(a).dialog = None
        BY <3>2, <4>1 DEF ClearDrafts, Draft, Invalidate, Pages
      <4>3. QED
        BY <1>6, <3>3, <3>4, <4>2, NoDrafts DEF PageInv, Asking, Questioning, q
    <3>5. CASE ~c.discard
      <4>1. p.changes = {}
        BY <1>1, <1>6, <3>5 DEF Asking
      <4>2. p.drafted = {}
        BY <1>1, <4>1, NoneDrafted
      <4>3. Drafting(a)
        BY <3>2, <4>1, <4>2, NoDrafts
      <4>4. QED
        BY <1>1, <3>1, <3>2, <3>3, <3>5, <4>1, <4>3 DEF PageInv, Asking, Questioning, q
    <3>6. QED
      BY <3>4, <3>5
  <2>4. QED
    BY <2>2, <2>3
<1>7. CASE c.what = "validate"
  <2>1. q = ValidateArrives(b, c)
    BY <1>3, <1>7
  <2>2. CASE q = b
    BY <1>2, <1>4, <2>2 DEF q
  <2>3. CASE q # b
    <3>1. q = [b EXCEPT !.validation = c.got] /\ c.got \in {"ok", "valid", "invalid"}
      BY <2>1, <2>3 DEF ValidateArrives, Failed, Calls
    <3>2. /\ q \in Pages /\ q.call = None /\ q.dialog = p.dialog /\ q.changes = p.changes /\ q.snap = p.snap
          /\ q.drafted = p.drafted
      BY <1>2, <3>1 DEF Pages
    <3>3. QED
      BY <1>1, <3>2, SameDrafting DEF PageInv, Asking, Questioning, q
  <2>4. QED
    BY <2>2, <2>3
<1>8. CASE c.what = "update"
  <2>1. q = IF Failed(c) THEN Invalidate(b) ELSE Refresh(ClearDrafts(b), FALSE)
    BY <1>3, <1>8 DEF UpdateArrives
  <2>2. p.dialog = None
    BY <1>1, <1>8 DEF Questioning
  <2>3. CASE Failed(c)
    <3>1. /\ q \in Pages /\ q.call = None /\ q.dialog = p.dialog /\ q.changes = p.changes /\ q.snap = p.snap
          /\ q.drafted = p.drafted
      BY <1>2, <2>1, <2>3 DEF Pages, Invalidate
    <3>2. QED
      BY <1>1, <3>1, SameDrafting DEF PageInv, Asking, Questioning, q
  <2>4. CASE ~Failed(c)
    <3>1. PageInv(ClearDrafts(b)) /\ ClearDrafts(b).dialog = None /\ ClearDrafts(b).changes = {}
      BY <1>2, <1>4, <2>2, Clears
    <3>2. PageInv(q) /\ q.changes = {}
      BY <2>1, <2>4, <3>1, Refreshes
    <3>3. p.call.got = "ok" /\ p.call.changes = p.changes
      BY <1>1, <1>8, <2>4 DEF Asking, Failed, Calls
    <3>4. QED
      BY <1>8, <3>2, <3>3 DEF q
  <2>5. QED
    BY <2>3, <2>4
<1>9. CASE c.what = "rollback"
  <2>1. q = IF Failed(c) THEN b ELSE Refresh(ClearDrafts(b), FALSE)
    BY <1>3, <1>9 DEF RollbackArrives
  <2>2. p.dialog = None /\ p.changes = {}
    BY <1>1, <1>9 DEF Questioning, Asking
  <2>3. PageInv(ClearDrafts(b)) /\ ClearDrafts(b).dialog = None
    BY <1>2, <1>4, <2>2, Clears
  <2>4. PageInv(q)
    BY <1>4, <2>1, <2>3, Refreshes
  <2>5. QED
    BY <2>2, <2>4 DEF q
<1>10. CASE c.what = "restart"
  <2>1. q = b
    BY <1>3, <1>10
  <2>2. QED
    BY <1>2, <1>4, <2>1 DEF q
<1>11. QED
  BY <1>5, <1>6, <1>7, <1>8, <1>9, <1>10

(* The connection is lost or is back. *)
LEMMA Watching ==
    ASSUME NEW p, PageInv(p), NEW conn \in {"authenticated", "reconnecting"}
    PROVE  LET q == Watched([p EXCEPT !.conn = conn])
           IN PageInv(q) /\ q.changes = p.changes /\ q.snap = p.snap
<1> DEFINE a == [p EXCEPT !.conn = conn]
           b == Invalidate([a EXCEPT !.call = None, !.loading = FALSE, !.validating = FALSE])
<1>1. p \in Pages
  BY DEF PageInv
<1>2. a \in Pages /\ a.snap = p.snap /\ a.changes = p.changes /\ a.drafted = p.drafted /\ a.dialog = p.dialog
  BY <1>1 DEF Pages
<1> HIDE DEF a
<1>3. /\ b \in Pages /\ b.call = None /\ b.dialog = p.dialog /\ b.changes = p.changes /\ b.snap = p.snap
      /\ b.drafted = p.drafted
  BY <1>2 DEF Pages, Invalidate
<1>4. Watched(a) = IF Live(a) THEN Refresh(b, FALSE) ELSE b
  BY DEF Watched
<1> HIDE DEF b
<1>5. PageInv(b)
  BY <1>1, <1>3, SameDrafting DEF PageInv, Asking, Questioning
<1>6. QED
  BY <1>3, <1>4, <1>5, Refreshes DEF a

(* The page while its controls are on. *)
LEMMA Managing ==
    ASSUME PageInv(page), Manageable
    PROVE  /\ page \in Pages /\ page.snap # None /\ page.snap \in Snapshots /\ Fits(page)
           /\ page.call = None /\ page.dialog = None
BY DEF PageInv, Manageable, Free, CanManage, Drafting, Asking, Pages

(* A step that drafts, and does nothing else, while nothing is asked. *)
LEMMA DraftSteps ==
    ASSUME NEW p \in Pages, p.call = None, p.dialog = None, NEW C \in SUBSET Change, NEW D \in SUBSET Section,
           NEW q, q = Draft([p EXCEPT !.drafted = D], C)
    PROVE  /\ q \in Pages /\ q.snap = p.snap /\ q.changes = C /\ q.drafted = D
           /\ Fits(q) /\ p.snap # None => PageInv(q)
<1>1. q \in Pages /\ q.snap = p.snap /\ q.changes = C /\ q.drafted = D /\ q.call = None /\ q.dialog = None
  BY DEF Draft, Invalidate, Pages
<1>2. QED
  BY <1>1 DEF PageInv, Drafting, Asking, Questioning

(* Drafting reads nothing else of the page. *)
LEMMA DraftedAlone ==
    ASSUME NEW p \in Pages, NEW C
    PROVE  Draft(p, C) = Draft([p EXCEPT !.drafted = p.drafted], C)
BY DEF Draft, Invalidate, Pages

(* Each way to draft keeps the page's invariant: options, then sections. *)
LEMMA EditOptionKeeps ==
    ASSUME PageInv(page), NEW s \in Section, EditOption(s)
    PROVE  PageInv(page') /\ page'.snap = page.snap /\ Manageable
<1> PICK p : p = page
  OBVIOUS
<1> PICK q : q = page'
  OBVIOUS
<1>1. Manageable /\ s \in Shown(p) /\ Enabled(p, s)
  BY DEF EditOption, Editable, Manageable
<1>2. p \in Pages /\ p.snap # None /\ p.snap \in Snapshots /\ Fits(p) /\ p.call = None /\ p.dialog = None
  BY <1>1, Managing
<1>3. DraftsOf(p, s) \subseteq p.changes /\ p.changes \subseteq Change /\ p.drafted \subseteq Section
  BY <1>2 DEF DraftsOf, Pages
<1>4. ASSUME NEW x \in Change, OnOption(x), x.path = s, IF x.op = "set" THEN x.value \in Value ELSE x.value = None,
             NEW drafts \in BOOLEAN,
             q = Draft(p, (p.changes \ DraftsOf(p, s)) \cup (IF drafts THEN {x} ELSE {}))
      PROVE  PageInv(q) /\ q.snap = p.snap
  <2> DEFINE C == (p.changes \ DraftsOf(p, s)) \cup (IF drafts THEN {x} ELSE {})
  <2>1. C \in SUBSET Change /\ \A c : c \in C <=> (c \in p.changes /\ c \notin DraftsOf(p, s)) \/ (drafts /\ c = x)
    BY <1>3
  <2> HIDE DEF C
  <2>2. q = Draft([p EXCEPT !.drafted = p.drafted], C)
    BY <1>2, <1>4, DraftedAlone DEF C
  <2>3. q \in Pages /\ q.snap = p.snap /\ q.changes = C /\ q.drafted = p.drafted /\ (Fits(q) => PageInv(q))
    BY <1>2, <1>3, <2>1, <2>2, DraftSteps
  <2>4. Fits(q)
    BY <1>1, <1>2, <1>4, <2>1, <2>3, OptionDrafts
  <2>5. QED
    BY <2>3, <2>4
<1>5. ASSUME NEW v \in Value, q = SetOption(p, s, v) PROVE PageInv(q) /\ q.snap = p.snap
  <2> DEFINE x == [op |-> "set", path |-> s, value |-> v]
  <2>1. x \in Change /\ OnOption(x) /\ x.path = s /\ x.op = "set" /\ x.value \in Value
    BY DEF Change, OnOption
  <2>2. PICK drafts \in BOOLEAN : drafts <=> v # BaseValue(p, s)
    OBVIOUS
  <2>3. q = Draft(p, (p.changes \ DraftsOf(p, s)) \cup (IF drafts THEN {x} ELSE {}))
    BY <1>5, <2>2 DEF SetOption
  <2> HIDE DEF x
  <2>4. QED
    BY <1>4, <2>1, <2>3
<1>6. ASSUME q = RemoveOption(p, s) \/ q = ResetOption(p, s) PROVE PageInv(q) /\ q.snap = p.snap
  <2> DEFINE x == Changed("remove", s)
  <2>1. x \in Change /\ OnOption(x) /\ x.path = s /\ x.op # "set" /\ x.value = None
    BY DEF Change, OnOption, Changed
  <2>2. PICK drafts \in BOOLEAN : drafts <=> q = RemoveOption(p, s)
    OBVIOUS
  <2>3. q = Draft(p, (p.changes \ DraftsOf(p, s)) \cup (IF drafts THEN {x} ELSE {}))
    BY <1>6, <2>2 DEF RemoveOption, ResetOption
  <2> HIDE DEF x
  <2>4. QED
    BY <1>4, <2>1, <2>3
<1>7. (\E v \in Value : q = SetOption(p, s, v)) \/ q = RemoveOption(p, s) \/ q = ResetOption(p, s)
  BY DEF EditOption, Uses
<1>8. QED
  BY <1>1, <1>5, <1>6, <1>7

(* A section is added, dropped or taken back. *)
LEMMA EditSectionKeeps ==
    ASSUME PageInv(page), NEW s \in Section, EditSection(s)
    PROVE  PageInv(page') /\ page'.snap = page.snap /\ Manageable
<1> PICK p : p = page
  OBVIOUS
<1> PICK q : q = page'
  OBVIOUS
<1>1. Manageable
  BY DEF EditSection, Editable, Manageable
<1>2. p \in Pages /\ p.snap # None /\ p.snap \in Snapshots /\ Fits(p) /\ p.call = None /\ p.dialog = None
  BY <1>1, Managing
<1>3. /\ p.changes \subseteq Change /\ p.drafted \subseteq Section
      /\ Changed("add", s) \in Change /\ Changed("drop", s) \in Change
      /\ \A c \in p.changes : c.path = s <=> c \in DraftsOf(p, s) \cup SectionsOf(p, s)
      /\ DraftsOf(p, s) \cup SectionsOf(p, s) \subseteq p.changes
  BY <1>2 DEF DraftsOf, SectionsOf, Pages, Changed, Change
<1>4. ASSUME s \in Optional \cup Provider, NEW C,
             \A c : c \in C <=> (c \in p.changes /\ c.path # s) \/ (c = Changed("drop", s) /\ Present(p, s)),
             q = Draft([p EXCEPT !.drafted = p.drafted \ {s}], C)
      PROVE  PageInv(q) /\ q.snap = p.snap
  <2>1. C \in SUBSET Change
    BY <1>3, <1>4
  <2>2. PICK D \in SUBSET Section : D = p.drafted \ {s}
    BY <1>3
  <2>3. q = Draft([p EXCEPT !.drafted = D], C) /\ D \in SUBSET Section
    BY <1>4, <2>2
  <2>4. q \in Pages /\ q.snap = p.snap /\ q.changes = C /\ q.drafted = D /\ (Fits(q) => PageInv(q))
    BY <1>2, <2>1, <2>3, DraftSteps
  <2>5. \A c : c \in q.changes <=> (c \in p.changes /\ c.path # s) \/ (c = Changed("drop", s) /\ Present(p, s))
    BY <1>4, <2>4
  <2>6. Fits(q)
    BY <1>2, <1>4, <2>2, <2>4, <2>5, SectionGoes
  <2>7. QED
    BY <2>4, <2>6
<1>5. ASSUME s \in Optional \cup Provider, NEW C, NEW D \in SUBSET Section,
             \A c : c \in C <=> (c \in p.changes /\ c \notin SectionsOf(p, s)) \/ (c = Changed("add", s) /\ ~Present(p, s)),
             D = p.drafted \/ (D = p.drafted \cup {s} /\ s \in Provider /\ ~Present(p, s)),
             s \in Known(p) \cup D,
             q = Draft([p EXCEPT !.drafted = D], C)
      PROVE  PageInv(q) /\ q.snap = p.snap
  <2>1. C \in SUBSET Change
    BY <1>3, <1>5
  <2>2. q \in Pages /\ q.snap = p.snap /\ q.changes = C /\ q.drafted = D /\ (Fits(q) => PageInv(q))
    BY <1>2, <1>5, <2>1, DraftSteps
  <2>3. \A c : c \in q.changes <=> (c \in p.changes /\ c \notin SectionsOf(p, s)) \/ (c = Changed("add", s) /\ ~Present(p, s))
    BY <1>5, <2>2
  <2>4. Fits(q)
    BY <1>2, <1>5, <2>2, <2>3, SectionComes
  <2>5. QED
    BY <2>2, <2>4
<1>6. /\ Added(p, s) => s \in Optional \cup Provider /\ ~Present(p, s) /\ s \in Known(p) \cup p.drafted
      /\ Dropped(p, s) => s \in Optional \cup Provider /\ Present(p, s)
      /\ s \in p.drafted => s \in Provider /\ Added(p, s)
  BY <1>2 DEF Fits, AddsFit, DropsFit, DraftedFit
<1>7. \A c \in SectionsOf(p, s) : (c = Changed("add", s) /\ Added(p, s)) \/ (c = Changed("drop", s) /\ Dropped(p, s))
  BY <1>2, SectionChanges DEF SectionsOf
<1>8. Optional \cap Provider = {} /\ (s \in Provider => (s \in Known(p) <=> Present(p, s) \/ p.snap.active[s] # "absent"))
      /\ (s \in Optional => s \in Known(p))
  BY EditorAssumption DEF Known
<1>9. ASSUME s \in Provider, q = AddProvider(p, s), q # p PROVE PageInv(q) /\ q.snap = p.snap
  <2>1. CASE s \in Known(p) /\ (Dropped(p, s) \/ ~Present(p, s))
    <3> DEFINE C == (p.changes \ SectionsOf(p, s)) \cup (IF Present(p, s) THEN {} ELSE {Changed("add", s)})
    <3>1. q = Draft(p, C)
      BY <1>9, <2>1 DEF AddProvider
    <3>2. \A c : c \in C <=> (c \in p.changes /\ c \notin SectionsOf(p, s)) \/ (c = Changed("add", s) /\ ~Present(p, s))
      OBVIOUS
    <3> HIDE DEF C
    <3>3. q = Draft([p EXCEPT !.drafted = p.drafted], C)
      BY <1>2, <3>1, DraftedAlone
    <3>4. QED
      BY <1>3, <1>5, <1>9, <2>1, <3>2, <3>3
  <2>2. CASE ~(s \in Known(p) /\ (Dropped(p, s) \/ ~Present(p, s)))
    <3> DEFINE C == p.changes \cup {Changed("add", s)}
               D == p.drafted \cup {s}
    <3>1. q = Draft([p EXCEPT !.drafted = D], C) /\ s \notin Shown(p)
      BY <1>2, <1>9, <2>2 DEF AddProvider, Pages
    <3>2. ~Present(p, s) /\ ~Dropped(p, s) /\ s \notin p.drafted
      BY <1>2, <1>6, <1>8, <1>9, <2>2, <3>1 DEF Shown
    <3>3. \A c \in SectionsOf(p, s) : c = Changed("add", s)
      BY <1>7, <3>2
    <3>4. \A c : c \in C <=> (c \in p.changes /\ c \notin SectionsOf(p, s)) \/ (c = Changed("add", s) /\ ~Present(p, s))
      BY <3>2, <3>3
    <3>5. D \in SUBSET Section /\ s \in D
      BY <1>3
    <3>6. D = p.drafted \cup {s}
      OBVIOUS
    <3> HIDE DEF C, D
    <3>7. QED
      BY <1>5, <1>9, <3>1, <3>2, <3>4, <3>5, <3>6
  <2>3. QED
    BY <2>1, <2>2
<1>10. ASSUME s \in Provider, s \in Shown(p), Enabled(p, s), q = RemoveProvider(p, s) PROVE PageInv(q) /\ q.snap = p.snap
  <2> DEFINE kept == p.changes \ DraftsOf(p, s)
             C == IF s \in p.drafted \/ Added(p, s) THEN kept \ {Changed("add", s)}
                  ELSE (kept \ SectionsOf(p, s)) \cup {Changed("drop", s)}
  <2>1. q = Draft([p EXCEPT !.drafted = p.drafted \ {s}], C)
    BY <1>2, <1>10 DEF RemoveProvider, Pages
  <2>2. CASE s \in p.drafted \/ Added(p, s)
    <3>1. Added(p, s) /\ ~Present(p, s) /\ ~Dropped(p, s) /\ C = kept \ {Changed("add", s)}
      BY <1>6, <2>2
    <3>2. \A c \in SectionsOf(p, s) : c = Changed("add", s)
      BY <1>7, <3>1
    <3>3. Changed("add", s) \in SectionsOf(p, s) \/ Changed("add", s) \notin p.changes
      BY DEF SectionsOf, Changed, OnOption
    <3>4. \A c : c \in C <=> (c \in p.changes /\ c.path # s) \/ (c = Changed("drop", s) /\ Present(p, s))
      BY <1>3, <3>1, <3>2, <3>3
    <3> HIDE DEF C
    <3>5. QED
      BY <1>4, <1>10, <2>1, <3>4
  <2>3. CASE ~(s \in p.drafted \/ Added(p, s))
    <3>1. C = (kept \ SectionsOf(p, s)) \cup {Changed("drop", s)}
      BY <2>3
    <3>2. Present(p, s)
      BY <1>10, <2>3 DEF Enabled
    <3>3. \A c : c \in C <=> (c \in p.changes /\ c.path # s) \/ (c = Changed("drop", s) /\ Present(p, s))
      BY <1>3, <3>1, <3>2
    <3> HIDE DEF C
    <3>4. QED
      BY <1>4, <1>10, <2>1, <3>3
  <2>4. QED
    BY <2>2, <2>3
<1>11. ASSUME s \in Optional, q = RemoveOptional(p, s) PROVE PageInv(q) /\ q.snap = p.snap
  <2> DEFINE C == (p.changes \ (SectionsOf(p, s) \cup DraftsOf(p, s)))
                  \cup (IF Present(p, s) THEN {Changed("drop", s)} ELSE {})
  <2>1. s \notin p.drafted
    BY <1>6, <1>8, <1>11
  <2>2. p.drafted \ {s} = p.drafted
    BY <2>1
  <2>3. \A c : c \in C <=> (c \in p.changes /\ c.path # s) \/ (c = Changed("drop", s) /\ Present(p, s))
    BY <1>3
  <2>4. q = Draft(p, C)
    BY <1>11 DEF RemoveOptional
  <2> HIDE DEF C
  <2>5. q = Draft([p EXCEPT !.drafted = p.drafted \ {s}], C)
    BY <1>2, <2>2, <2>4, DraftedAlone
  <2>6. QED
    BY <1>4, <1>11, <2>3, <2>5
<1>12. ASSUME s \in Optional, q = AddOptional(p, s) PROVE PageInv(q) /\ q.snap = p.snap
  <2> DEFINE C == (p.changes \ SectionsOf(p, s)) \cup (IF Present(p, s) THEN {} ELSE {Changed("add", s)})
  <2>1. \A c : c \in C <=> (c \in p.changes /\ c \notin SectionsOf(p, s)) \/ (c = Changed("add", s) /\ ~Present(p, s))
    OBVIOUS
  <2>2. q = Draft(p, C)
    BY <1>12 DEF AddOptional
  <2> HIDE DEF C
  <2>3. q = Draft([p EXCEPT !.drafted = p.drafted], C)
    BY <1>2, <2>2, DraftedAlone
  <2>4. QED
    BY <1>3, <1>5, <1>8, <1>12, <2>1, <2>3
<1>13. \/ s \in Provider /\ q = AddProvider(p, s) /\ q # p
       \/ s \in Provider /\ s \in Shown(p) /\ Enabled(p, s) /\ q = RemoveProvider(p, s)
       \/ s \in Optional /\ (q = RemoveOptional(p, s) \/ q = AddOptional(p, s))
  BY DEF EditSection, Editable, Uses
<1>14. QED
  BY <1>1, <1>9, <1>10, <1>11, <1>12, <1>13

(* DraftsAreKept without its box. *)
Keeps == page.changes # {} =>
           /\ page'.changes # {} => page'.snap = page.snap
           /\ page'.changes # page.changes =>
                \/ Manageable
                \/ page.call.what = "update" /\ page.call.got = "ok" /\ page.call.changes = page.changes
                \/ page.call.what = "get" /\ page.call.discard

(* A question is asked or answered, or a request made. *)
LEMMA AskSteps ==
    ASSUME NEW p, PageInv(p), NEW q \in Pages, q.snap = p.snap, q.changes = p.changes, q.drafted = p.drafted,
           Asking(q), Questioning(q)
    PROVE  PageInv(q)
BY SameDrafting DEF PageInv

(* Every draft is discarded. *)
LEMMA DiscardKeeps == ASSUME PageInv(page), DiscardDrafts PROVE PageInv(page') /\ Manageable
<1>1. Manageable /\ page' = ClearDrafts(page)
  BY DEF DiscardDrafts, Uses
<1>2. page.call = None /\ page.dialog = None
  BY <1>1, Managing
<1>3. PageInv(ClearDrafts(page))
  BY <1>2, Clears
<1>4. QED
  BY <1>1, <1>3

(* The changes are validated or applied. *)
LEMMA RequestKeeps ==
    ASSUME PageInv(page), Validate \/ Apply
    PROVE  PageInv(page') /\ page'.changes = page.changes /\ page'.snap = page.snap
<1> PICK p : p = page
  OBVIOUS
<1> PICK q : q = page'
  OBVIOUS
<1>1. Manageable
  BY DEF Validate, Apply
<1>2. p \in Pages /\ p.snap # None /\ p.snap \in Snapshots /\ p.call = None /\ p.dialog = None /\ Live(p)
  BY <1>1, Managing DEF Manageable, CanManage
<1>3. PICK what \in {"validate", "update"} : what = IF q = [p EXCEPT !.loading = TRUE,
            !.call = Call("update", FALSE, p.snap.revision, p.changes, None)] THEN "update" ELSE "validate"
  OBVIOUS
<1>4. q = IF what = "update"
          THEN [p EXCEPT !.loading = TRUE, !.call = Call("update", FALSE, p.snap.revision, p.changes, None)]
          ELSE [p EXCEPT !.validating = TRUE, !.call = Call("validate", FALSE, p.snap.revision, p.changes, None)]
  BY <1>3 DEF Validate, Apply, Uses
<1> DEFINE c == Call(what, FALSE, p.snap.revision, p.changes, None)
<1>5. c \in Calls /\ c.what = what /\ c.changes = p.changes /\ c.got = "none"
  BY <1>2 DEF Call, Calls, Snapshots, Pages
<1>6. q = IF what = "update" THEN [p EXCEPT !.loading = TRUE, !.call = c] ELSE [p EXCEPT !.validating = TRUE, !.call = c]
  BY <1>3, <1>4
<1> HIDE DEF c
<1>7. /\ q \in Pages /\ q.call = c /\ (q.loading \/ q.validating) /\ q.snap = p.snap /\ q.changes = p.changes
      /\ q.drafted = p.drafted /\ q.dialog = None /\ q.conn = p.conn
  BY <1>2, <1>5, <1>6 DEF Pages
<1>8. Asking(q) /\ Questioning(q)
  BY <1>2, <1>3, <1>5, <1>7 DEF Asking, Questioning, Live, Busy
<1>9. PageInv(q)
  BY <1>7, <1>8, AskSteps
<1>10. QED
  BY <1>7, <1>9

(* The page asks whether to go on. *)
LEMMA QuestionKeeps ==
    ASSUME PageInv(page), NEW what \in {"refresh", "rollback", "restart"}, NEW of \in Doc \cup {None},
           Ask(what, of), page.call = None, what = "refresh" => page.changes # {},
           what = "rollback" => page.snap \in Snapshots
    PROVE  PageInv(page') /\ page'.changes = page.changes /\ page'.snap = page.snap
<1> PICK p : p = page
  OBVIOUS
<1> PICK q : q = page'
  OBVIOUS
<1> DEFINE d == [what |-> what, of |-> of]
<1>1. q = [p EXCEPT !.dialog = d] /\ d \in Questions /\ d.what = what /\ p \in Pages
  BY DEF Ask, Uses, Questions, PageInv
<1> HIDE DEF d
<1>2. /\ q \in Pages /\ q.call = None /\ q.snap = p.snap /\ q.changes = p.changes /\ q.drafted = p.drafted
      /\ q.dialog = d
  BY <1>1 DEF Pages
<1>3. Asking(q) /\ Questioning(q)
  BY <1>1, <1>2 DEF Asking, Questioning
<1>4. QED
  BY <1>2, <1>3, AskSteps

(* Each of its questions. *)
LEMMA DialogKeeps ==
    ASSUME PageInv(page), RequestRefresh \/ RequestRollback \/ RequestRestart
    PROVE  PageInv(page') /\ page'.changes = page.changes /\ page'.snap = page.snap
<1>1. page.call = None /\ page.dialog = None /\ page \in Pages
  BY DEF RequestRefresh, RequestRollback, RequestRestart, Manageable, Free, PageInv, Asking
<1>2. CASE RequestRefresh
  <2>1. CASE page.changes = {}
    <3>1. page' = Refresh(page, TRUE)
      BY <1>2, <2>1 DEF RequestRefresh, Uses
    <3>2. QED
      BY <1>1, <3>1, Refreshes
  <2>2. CASE page.changes # {}
    <3>1. Ask("refresh", None)
      BY <1>2, <2>2 DEF RequestRefresh
    <3>2. QED
      BY <1>1, <2>2, <3>1, QuestionKeeps
  <2>3. QED
    BY <2>1, <2>2
<1>3. CASE RequestRollback
  <2>1. Manageable /\ Ask("rollback", page.snap.backup)
    BY <1>3 DEF RequestRollback
  <2>2. page.snap \in Snapshots /\ page.snap.backup \in Doc \cup {None}
    BY <2>1, Managing DEF Snapshots
  <2>3. QED
    BY <1>1, <2>1, <2>2, QuestionKeeps
<1>4. CASE RequestRestart
  <2>1. Ask("restart", None)
    BY <1>4 DEF RequestRestart
  <2>2. QED
    BY <1>1, <2>1, QuestionKeeps
<1>5. QED
  BY <1>2, <1>3, <1>4

(* The question is answered. *)
LEMMA AnswerKeeps ==
    ASSUME PageInv(page), Accept \/ Reject
    PROVE  PageInv(page') /\ page'.changes = page.changes /\ page'.snap = page.snap
<1> PICK p : p = page
  OBVIOUS
<1> PICK q : q = page'
  OBVIOUS
<1> DEFINE a == [p EXCEPT !.dialog = None]
<1>1. p \in Pages /\ p.dialog # None /\ p.dialog \in Questions
  BY DEF PageInv, Pages, Accept, Reject
<1>2. /\ a \in Pages /\ a.call = p.call /\ a.snap = p.snap /\ a.changes = p.changes /\ a.drafted = p.drafted
      /\ a.dialog = None /\ a.conn = p.conn /\ a.loading = p.loading /\ a.validating = p.validating
  BY <1>1 DEF Pages
<1>3. \/ q = a
      \/ p.dialog.what = "refresh" /\ q = Refresh(a, TRUE)
      \/ p.dialog.what = "rollback" /\ q = Rollback(a, p.dialog.of)
      \/ p.dialog.what = "restart" /\ q = Restart(a)
  BY <1>1 DEF Accept, Reject, Uses, Questions
<1> HIDE DEF a
<1>4. Asking(a) /\ Questioning(a)
  BY <1>2 DEF PageInv, Asking, Questioning, Live, Busy
<1>5. PageInv(a)
  BY <1>2, <1>4, AskSteps
<1>6. CASE q = a
  BY <1>2, <1>5, <1>6
<1>7. CASE q = Refresh(a, TRUE)
  BY <1>2, <1>5, <1>7, Refreshes
<1>8. ASSUME NEW c \in Calls, ~Busy(a), Live(a), q = [a EXCEPT !.loading = TRUE, !.call = c],
             c.what \in {"rollback", "restart"}, c.what = "rollback" => a.changes = {}, c.got = "none"
      PROVE  PageInv(q) /\ q.changes = p.changes /\ q.snap = p.snap
  <2>1. /\ q \in Pages /\ q.call = c /\ q.loading /\ q.snap = p.snap /\ q.changes = p.changes
        /\ q.drafted = p.drafted /\ q.dialog = None /\ q.conn = p.conn
    BY <1>2, <1>8 DEF Pages
  <2>2. Asking(q) /\ Questioning(q)
    BY <1>2, <1>8, <2>1 DEF Asking, Questioning, Live, Busy
  <2>3. QED
    BY <2>1, <2>2, AskSteps
<1>9. CASE p.dialog.what = "rollback" /\ q = Rollback(a, p.dialog.of) /\ q # a
  <2> DEFINE c == Call("rollback", FALSE, a.snap.revision, {}, p.dialog.of)
  <2>1. ~Busy(a) /\ Live(a) /\ a.changes = {} /\ q = [a EXCEPT !.loading = TRUE, !.call = c]
    BY <1>9 DEF Rollback
  <2>2. c \in Calls /\ c.what = "rollback" /\ c.got = "none"
    <3>1. a.snap.revision \in Doc \cup {None}
      BY <1>1, <1>2, <1>9 DEF PageInv, Questioning, Snapshots
    <3>2. QED
      BY <1>1, <3>1 DEF Call, Calls, Questions
  <2> HIDE DEF c
  <2>3. QED
    BY <1>8, <2>1, <2>2
<1>10. CASE p.dialog.what = "restart" /\ q = Restart(a) /\ q # a
  <2> DEFINE c == Call("restart", FALSE, None, {}, None)
  <2>1. ~Busy(a) /\ Live(a) /\ q = [a EXCEPT !.loading = TRUE, !.call = c]
    BY <1>10 DEF Restart
  <2>2. c \in Calls /\ c.what = "restart" /\ c.got = "none"
    BY DEF Call, Calls
  <2> HIDE DEF c
  <2>3. QED
    BY <1>8, <2>1, <2>2
<1>11. QED
  BY <1>3, <1>6, <1>7, <1>9, <1>10

(* Whatever the user does keeps the page's invariant and its drafts. *)
LEMMA User_Page == ASSUME PageInv(page), User PROVE PageInv(page') /\ Keeps
<1>1. CASE DiscardDrafts
  BY <1>1, DiscardKeeps DEF Keeps, PageInv, DiscardDrafts, Uses, ClearDrafts, Draft, Invalidate, Pages
<1>2. CASE Validate \/ Apply
  BY <1>2, RequestKeeps DEF Keeps
<1>3. CASE RequestRefresh \/ RequestRollback \/ RequestRestart
  BY <1>3, DialogKeeps DEF Keeps
<1>4. CASE Accept \/ Reject
  BY <1>4, AnswerKeeps DEF Keeps
<1>5. ASSUME NEW s \in Section, EditOption(s) \/ EditSection(s) PROVE PageInv(page') /\ Keeps
  BY <1>5, EditOptionKeeps, EditSectionKeeps DEF Keeps
<1>6. QED
  BY <1>1, <1>2, <1>3, <1>4, <1>5 DEF User

(* The server and the connection leave the drafts and the snapshot alone. *)
Unmoved == page'.changes = page.changes /\ page'.snap = page.snap

(* The server has done something for the request under way. *)
LEMMA CallSteps ==
    ASSUME NEW p, PageInv(p), p.call # None \/ Awaited(p), p.call \in Calls,
           NEW c \in Calls, c.what = p.call.what, c.discard = p.call.discard, c.changes = p.call.changes,
           c.what = "get" /\ c.got \notin {"none", "working", "error"} => c.snap \in Snapshots,
           c.what = "update" => c.got \notin {"valid", "invalid"},
           NEW q, q = [p EXCEPT !.call = c]
    PROVE  /\ PageInv(q) /\ q.changes = p.changes /\ q.snap = p.snap
           /\ p.call # None /\ c.what \in {"update", "rollback"} /\ c.got = "working" => Awaited(q)
<1>1. p \in Pages
  BY DEF PageInv
<1>2. /\ q \in Pages /\ q.call = c /\ q.snap = p.snap /\ q.changes = p.changes /\ q.drafted = p.drafted
      /\ q.conn = p.conn /\ q.dialog = p.dialog /\ q.loading = p.loading /\ q.validating = p.validating
  BY <1>1 DEF Pages
<1>3. CASE p.call # None
  <2>1. Asking(q) /\ Questioning(q)
    BY <1>2, <1>3 DEF PageInv, Asking, Questioning, Live, Busy
  <2>2. PageInv(q)
    BY <1>2, <2>1, AskSteps
  <2>3. c.what \in {"update", "rollback"} /\ c.got = "working" => Awaited(q)
    <3> SUFFICES ASSUME c.what \in {"update", "rollback"}, c.got = "working" PROVE Awaited(q)
      OBVIOUS
    <3>1. Live(p) /\ Busy(p) /\ p.dialog = None
      BY <1>3 DEF PageInv, Asking, Questioning
    <3>2. (c.what = "update" /\ c.changes = p.changes) \/ (c.what = "rollback" /\ p.changes = {})
      BY <1>3 DEF PageInv, Asking
    <3>3. QED
      BY <1>2, <3>1, <3>2 DEF Live, Busy, Awaited
  <2>4. QED
    BY <1>2, <2>2, <2>3
<1>4. CASE p.call = None
  <2>1. Awaited(p)
    BY <1>4
  <2>2. Asking(q) /\ Questioning(q)
    BY <1>2, <2>1 DEF Asking, Questioning, Live, Busy, Awaited
  <2>3. QED
    BY <1>2, <1>4, <2>2, AskSteps
<1>5. QED
  BY <1>3, <1>4

(* The server answers the request it was sent. *)
LEMMA Giving ==
    ASSUME PageInv(page), page.call # None \/ Awaited(page), page.call \in Calls,
           NEW got \in {"none", "working", "ok", "valid", "invalid", "error"},
           page.call.what = "get" /\ got \notin {"none", "working", "error"} => page.call.snap \in Snapshots,
           page.call.what = "update" => got \notin {"valid", "invalid"},
           Gives(got)
    PROVE  /\ PageInv(page') /\ Unmoved
           /\ page.call # None /\ page.call.what \in {"update", "rollback"} /\ got = "working" => Awaited(page')
<1> PICK p : p = page
  OBVIOUS
<1> PICK q : q = page'
  OBVIOUS
<1> DEFINE c == [p.call EXCEPT !.got = got]
<1>1. c \in Calls /\ c.what = p.call.what /\ c.discard = p.call.discard /\ c.changes = p.call.changes
      /\ c.snap = p.call.snap /\ c.got = got
  BY DEF Calls
<1>2. q = [p EXCEPT !.call = c]
  BY DEF Gives, PageInv, Pages
<1> HIDE DEF c
<1>3. QED
  BY <1>1, <1>2, CallSteps DEF Unmoved

(* A request the server has not read. *)
LEMMA AskedCall == ASSUME PageInv(page), NEW what, Asked(what)
                   PROVE  page.call \in Calls /\ page.call # None /\ page.call.what = what /\ page.call.got = "none"
BY DEF Asked, PageInv, Pages

(* The server reads the file, and then its backup. *)
LEMMA ReadFileKeeps == ASSUME FileTypeOK, PageInv(page), ReadFile PROVE PageInv(page') /\ Unmoved
<1> PICK p : p = page
  OBVIOUS
<1> PICK q : q = page'
  OBVIOUS
<1> DEFINE n == [revision |-> file, doc |-> IF Valid(file) THEN file ELSE active, active |-> active,
                 editable |-> Valid(file), backup |-> None]
           c == [p.call EXCEPT !.snap = n]
<1>1. p.call \in Calls /\ p.call # None /\ p.call.what = "get" /\ p.call.got = "none"
  BY AskedCall DEF ReadFile
<1>2. n \in Snapshots
  BY FileAssumption DEF FileTypeOK, Snapshots
<1>3. q = [p EXCEPT !.call.snap = n]
  BY DEF ReadFile
<1> HIDE DEF n
<1>4. c \in Calls /\ c.what = "get" /\ c.discard = p.call.discard /\ c.changes = p.call.changes /\ c.got = "none"
  BY <1>1, <1>2 DEF Calls
<1>5. q = [p EXCEPT !.call = c]
  BY <1>3 DEF PageInv, Pages
<1> HIDE DEF c
<1>6. QED
  BY <1>1, <1>4, <1>5, CallSteps DEF Unmoved

(* What it read is a snapshot. *)
LEMMA ReadBackupKeeps == ASSUME FileTypeOK, PageInv(page), ReadBackup PROVE PageInv(page') /\ Unmoved
<1> PICK p : p = page
  OBVIOUS
<1> PICK q : q = page'
  OBVIOUS
<1> DEFINE n == [p.call.snap EXCEPT !.backup = backup]
           c == [p.call EXCEPT !.snap = n, !.got = "ok"]
<1>1. p.call \in Calls /\ p.call # None /\ p.call.what = "get" /\ p.call.got = "none" /\ p.call.snap # None
  BY AskedCall DEF ReadBackup
<1>2. p.call.snap \in Snapshots
  BY <1>1 DEF Calls
<1>3. n \in Snapshots
  BY <1>2 DEF FileTypeOK, Snapshots
<1>4. q = [p EXCEPT !.call.snap.backup = backup, !.call.got = "ok"]
  BY DEF ReadBackup
<1>5. c \in Calls /\ c.what = "get" /\ c.discard = p.call.discard /\ c.changes = p.call.changes /\ c.snap = n
  BY <1>1, <1>3 DEF Calls
<1>6. q = [p EXCEPT !.call = c]
  BY <1>1, <1>2, <1>4 DEF PageInv, Pages, Calls, Snapshots
<1> HIDE DEF n, c
<1>7. QED
  BY <1>1, <1>3, <1>5, <1>6, CallSteps DEF Unmoved

(* The server serves the other requests. *)
LEMMA ServeKeeps ==
    ASSUME EditorInv, ServeValidate \/ ServeUpdate \/ ServeRollback \/ ServeRestart
    PROVE  PageInv(page') /\ Unmoved /\ awaited' \in BOOLEAN /\ (awaited' => Awaited(page'))
<1>1. awaited = FALSE /\ PageInv(page) /\ page.call \in Calls /\ page.call # None
  BY AskedCall DEF ServeValidate, ServeUpdate, ServeRollback, ServeRestart, EditorInv, Awaited
<1>2. CASE ServeValidate
  <2>1. page.call.what = "validate" /\ awaited' = FALSE
    BY <1>1, <1>2, AskedCall DEF ServeValidate, Same
  <2>2. Gives("error") \/ Gives("valid") \/ Gives("invalid")
    BY <1>2 DEF ServeValidate
  <2>3. QED
    BY <1>1, <2>1, <2>2, Giving
<1>3. CASE ServeUpdate
  <2>1. page.call.what = "update"
    BY <1>1, <1>3, AskedCall DEF ServeUpdate
  <2>2. ((Gives("error") \/ Gives("ok")) /\ awaited' = FALSE) \/ (Gives("working") /\ awaited' = TRUE)
    <3>1. (Gives("error") /\ Same) \/ Update(Applied(file, page.call.changes))
      BY <1>3 DEF ServeUpdate
    <3>2. ((Gives("error") \/ Gives("ok")) /\ Same) \/ (Gives("working") /\ awaited' = TRUE)
      BY <3>1 DEF Update
    <3>3. Same => awaited' = FALSE
      BY <1>1 DEF Same
    <3>4. QED
      BY <3>2, <3>3
  <2>3. QED
    BY <1>1, <2>1, <2>2, Giving
<1>4. CASE ServeRollback
  <2>1. page.call.what = "rollback"
    BY <1>1, <1>4, AskedCall DEF ServeRollback
  <2>2. (Gives("error") /\ awaited' = FALSE) \/ (Gives("working") /\ awaited' = TRUE)
    <3>1. (Gives("error") /\ Same) \/ (Gives("working") /\ awaited' = TRUE)
      BY <1>4 DEF ServeRollback
    <3>2. Same => awaited' = FALSE
      BY <1>1 DEF Same
    <3>3. QED
      BY <3>1, <3>2
  <2>3. QED
    BY <1>1, <2>1, <2>2, Giving
<1>5. CASE ServeRestart
  <2>1. page.call.what = "restart" /\ Gives("ok") /\ awaited' = FALSE
    BY <1>1, <1>5, AskedCall DEF ServeRestart, Same
  <2>2. QED
    BY <1>1, <2>1, Giving
<1>6. QED
  BY <1>2, <1>3, <1>4, <1>5

(* A replacement ends, or fails, and is answered. *)
LEMMA ReplacingKeeps ==
    ASSUME EditorInv, Replacing \/ ReplaceFails
    PROVE  PageInv(page') /\ Unmoved /\ awaited' \in BOOLEAN /\ (awaited' => Awaited(page'))
<1>1. CASE UNCHANGED <<page, awaited>>
  BY <1>1 DEF EditorInv, Unmoved
<1>2. CASE ~UNCHANGED <<page, awaited>>
  <2>1. (Answer("ok") \/ Answer("error")) /\ awaited' = FALSE
    BY <1>2 DEF Replacing, ReplaceFails
  <2>2. CASE ~awaited
    BY <2>1, <2>2 DEF Answer, EditorInv, Unmoved
  <2>3. CASE awaited
    <3>1. Gives("ok") \/ Gives("error")
      BY <2>1, <2>3 DEF Answer, Gives
    <3>2. PageInv(page) /\ Awaited(page) /\ page.call \in Calls /\ page.call.what # "get"
      BY <2>3 DEF EditorInv, Awaited
    <3>3. QED
      BY <2>1, <3>1, <3>2, Giving
  <2>4. QED
    BY <2>2, <2>3 DEF EditorInv
<1>3. QED
  BY <1>1, <1>2

(* The connection is lost, or comes back. *)
LEMMA DisconnectedKeeps ==
    ASSUME PageInv(page), Disconnected \/ Reconnect
    PROVE  PageInv(page') /\ Unmoved
<1>1. page' = Watched([page EXCEPT !.conn = "reconnecting"]) \/ page' = Watched([page EXCEPT !.conn = "authenticated"])
  BY DEF Disconnected, Reconnect
<1>2. QED
  BY <1>1, Watching DEF Unmoved

(* An answer arrives; an error does, or a loss of the connection. *)
LEMMA ArrivalKeeps ==
    ASSUME PageInv(page), Receive \/ GivesUp
    PROVE  PageInv(page') /\ Keeps
<1> PICK p : p = page
  OBVIOUS
<1> PICK q : q = page'
  OBVIOUS
<1>1. p \in Pages /\ p.call # None /\ p.call \in Calls
  BY DEF Receive, GivesUp, PageInv, Pages
<1>2. PICK c \in Calls : /\ c.what = p.call.what /\ c.discard = p.call.discard /\ c.changes = p.call.changes
                         /\ c.snap = p.call.snap /\ (c.got = p.call.got \/ c.got = "error")
                         /\ c.got \notin {"none", "working"} /\ q = Arrives(p, c)
  <2>1. CASE Receive
    BY <1>1, <2>1 DEF Receive
  <2>2. CASE GivesUp
    <3> DEFINE c == [p.call EXCEPT !.got = "error"]
    <3>1. /\ c \in Calls /\ c.what = p.call.what /\ c.discard = p.call.discard /\ c.changes = p.call.changes
          /\ c.snap = p.call.snap /\ c.got = "error"
      BY <1>1 DEF Calls
    <3>2. q = Arrives(p, c)
      BY <2>2 DEF GivesUp
    <3> HIDE DEF c
    <3>3. QED
      BY <3>1, <3>2
  <2>3. QED
    BY <2>1, <2>2
<1>3. QED
  BY <1>1, <1>2, Arrival DEF Keeps

(* Every step keeps the page's invariant, and the drafts. *)
LEMMA Next_Page ==
    ASSUME EditorInv, [Next]_vars
    PROVE  PageInv(page') /\ Keeps /\ awaited' \in BOOLEAN /\ (awaited' => Awaited(page'))
<1> USE DEF EditorInv
<1>1. Unmoved => Keeps
  BY DEF Unmoved, Keeps
<1>2. CASE User
  <2>1. PageInv(page') /\ Keeps
    BY <1>2, User_Page
  <2>2. awaited' = awaited
    <3>1. UNCHANGED awaited
      BY <1>2 DEF User, Uses, Ask, DiscardDrafts, Validate, Apply, RequestRefresh, RequestRollback, RequestRestart,
                  Accept, Reject, EditOption, EditSection
    <3>2. QED
      BY <3>1
  <2>3. ~awaited
    <3>1. SUFFICES ASSUME awaited PROVE FALSE
      OBVIOUS
    <3>2. Busy(page) /\ page.dialog = None
      BY <3>1 DEF Awaited
    <3>3. QED
      BY <1>2, <3>2 DEF User, DiscardDrafts, Validate, Apply, RequestRefresh, RequestRollback, RequestRestart,
                  Accept, Reject, EditOption, EditSection, Manageable, Editable
  <2>4. QED
    BY <2>1, <2>2, <2>3
<1>3. CASE ReadFile \/ ReadBackup
  <2>1. PageInv(page') /\ Unmoved
    BY <1>3, ReadFileKeeps, ReadBackupKeeps
  <2>2. ~awaited /\ awaited' = awaited
    BY <1>3 DEF ReadFile, ReadBackup, Asked, Awaited, Same
  <2>3. QED
    BY <1>1, <2>1, <2>2
<1>4. CASE ServeValidate \/ ServeUpdate \/ ServeRollback \/ ServeRestart
  BY <1>1, <1>4, ServeKeeps
<1>5. CASE Replacing \/ ReplaceFails
  BY <1>1, <1>5, ReplacingKeeps
<1>6. CASE Restarts
  <2>1. Disconnected /\ ~awaited /\ awaited' = awaited
    BY <1>6 DEF Restarts, Awaited
  <2>2. QED
    BY <1>1, <2>1, DisconnectedKeeps
<1>7. CASE ServerDies \/ Drop
  <2>1. Disconnected /\ awaited' = FALSE
    BY <1>7 DEF ServerDies, Drop
  <2>2. QED
    BY <1>1, <2>1, DisconnectedKeeps
<1>8. CASE Receive \/ GivesUp
  <2>1. awaited' = FALSE
    BY <1>8 DEF Receive, GivesUp, Same, Awaited
  <2>2. QED
    BY <1>8, <2>1, ArrivalKeeps
<1>9. CASE Elsewhere
  <2>1. page' = page /\ (awaited' = FALSE \/ awaited' = awaited)
    BY <1>9 DEF Elsewhere
  <2>2. PageInv(page') /\ Keeps
    BY <1>1, <2>1 DEF Unmoved
  <2>3. awaited' \in BOOLEAN /\ (awaited' => Awaited(page'))
    <3>1. CASE awaited' = FALSE
      BY <3>1
    <3>2. CASE awaited' = awaited
      BY <2>1, <3>2
    <3>3. QED
      BY <2>1, <3>1, <3>2
  <2>4. QED
    BY <2>2, <2>3
<1>10. CASE Reconnect
  <2>1. awaited' = FALSE
    BY <1>10 DEF Reconnect, Same, Awaited
  <2>2. QED
    BY <1>1, <1>10, <2>1, DisconnectedKeeps
<1>11. CASE UNCHANGED vars
  BY <1>1, <1>11 DEF vars, Unmoved
<1>12. QED
  BY <1>2, <1>3, <1>4, <1>5, <1>6, <1>7, <1>8, <1>9, <1>10, <1>11 DEF Next, Server

(* The page that is opened. *)
LEMMA Init_Page == Init => EditorInv
<1> SUFFICES ASSUME Init PROVE EditorInv
  OBVIOUS
<1>1. FileTypeOK
  BY FileInit_Type DEF Init
<1>2. /\ Opened \in Pages /\ Opened.changes = {} /\ Opened.drafted = {} /\ Opened.call = None /\ Opened.dialog = None
  BY DEF Opened, Pages
<1>3. PageInv(Opened)
  BY <1>2, NoDrafts DEF PageInv, Asking, Questioning
<1>4. PageInv(Refresh(Opened, FALSE))
  BY <1>3, Refreshes
<1>5. QED
  BY <1>1, <1>4 DEF Init, EditorInv

(* The page's invariant, together with the types of the file and the page. *)
THEOREM EditorInvariance == Spec => []EditorInv
<1>1. EditorInv /\ [Next]_vars => EditorInv'
  <2> SUFFICES ASSUME EditorInv, [Next]_vars PROVE EditorInv'
    OBVIOUS
  <2>1. FileTypeOK'
    BY Next_File, FileNext_Type DEF EditorInv
  <2>2. QED
    BY <2>1, Next_Page DEF EditorInv
<1>2. QED
  BY <1>1, Init_Page, PTL DEF Spec

(* Whatever is drafted, removed, added again or refreshed in between, the   *)
(* page's changes are a set that the server accepts for the snapshot.       *)
THEOREM ChangesFit == Spec => []DraftsFitTogether
<1>1. EditorInv => DraftsFitTogether
  BY FitsAreConsistent DEF EditorInv, PageInv, Drafting, DraftsFitTogether
<1>2. QED
  BY <1>1, EditorInvariance, PTL

(* The page shows each option and section as applying its drafts will leave *)
(* them.                                                                    *)
THEOREM ShownApplied == Spec => []ShownIsApplied
<1>1. EditorInv => ShownIsApplied
  <2> SUFFICES ASSUME EditorInv, page.snap # None PROVE ShownIsApplied
    BY DEF ShownIsApplied
  <2>1. page \in Pages /\ Fits(page)
    BY DEF EditorInv, PageInv, Drafting
  <2>2. QED
    BY <2>1, FitsAreShown DEF ShownIsApplied, Grounded
<1>2. QED
  BY <1>1, EditorInvariance, PTL

(* Answers that come late, lost connections and other consoles never take   *)
(* a draft away nor put another snapshot under it.                          *)
THEOREM DraftsStay == Spec => DraftsAreKept
<1>1. EditorInv /\ [Next]_vars => [Keeps]_vars
  BY Next_Page
<1>2. EditorInv /\ [Next]_vars => [page.changes # {} =>
           /\ page'.changes # {} => page'.snap = page.snap
           /\ page'.changes # page.changes =>
                \/ Manageable
                \/ page.call.what = "update" /\ page.call.got = "ok" /\ page.call.changes = page.changes
                \/ page.call.what = "get" /\ page.call.discard]_vars
  BY <1>1 DEF Keeps
<1>3. QED
  BY <1>2, EditorInvariance, PTL DEF Spec, DraftsAreKept
=============================================================================
