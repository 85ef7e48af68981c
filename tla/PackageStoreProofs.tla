------------------------- MODULE PackageStoreProofs -------------------------
(* Proofs about PackageStore, for every set of slots, workspaces and models    *)
(* and every number of runs.  The properties speak of packages at rest; the    *)
(* invariant adds what a call under way knows and what the archive holds.      *)
EXTENDS PackageStore, TLAPS

Preparing == {"deleting", "opening", "dumping"}

(* save_status_file is called at the end of create, or at the start of save.   *)
Creating == call.at = "returning" \/ (call.at \in Preparing /\ ~call.saving)
Saving == \/ call.at \in {"zipping", "writing", "adding"}
          \/ call.at \in Preparing /\ call.saving

(* Nobody owns a workspace in which a run is making a package.                 *)
PendingRun ==
    call.at = "running" => made # 0 /\ owner[call.directory] = Absent

(* The package that create is about to return fits its workspace.              *)
PendingPackage ==
    Creating =>
        LET st == call.status
        IN  /\ owner[st.directory] = Absent
            /\ Agree(st.measured, files[st.directory])
            /\ \A m \in st.best : files[st.directory][m] # Absent
            /\ call.at = "returning" => yaml[st.directory] = st.id

(* save holds the package of its slot, and nobody else owns its workspace.     *)
PendingSave ==
    Saving =>
        /\ packages[call.slot] = call.status
        /\ call.status # Absent
        /\ owner[call.status.directory] \in {Absent, call.slot}

(* While models are added, the archive is the one of the package that is saved. *)
PendingArchive ==
    call.at = "adding" =>
        /\ archive \in Archives
        /\ archive.status = call.status
        /\ archive.sound = (owner[call.status.directory] = call.slot)
        /\ ~archive.whole
        /\ archive.sound => Agree(archive.status.measured, archive.files)

(* The package that load is about to return is the one in the archive.         *)
PendingLoad ==
    call.at = "extracting" =>
        /\ archive \in Archives /\ archive \notin {Absent, Partial}
        /\ owner[call.status.directory] = Absent
        /\ files[call.status.directory] = NoFiles
        /\ call.status.id = archive.status.id
        /\ call.status.measured = archive.status.measured
        /\ call.status.best = archive.status.best
        /\ call.status.whole = archive.whole

(* An archive serves its status as a workspace serves its owner's.             *)
ArchiveIsSound ==
    archive \notin {Absent, Partial} /\ archive.sound =>
        /\ Agree(archive.status.measured, archive.files)
        /\ archive.whole => \A m \in archive.status.best : archive.files[m] # Absent

StoreInv ==
    /\ TypeOK
    /\ ServesWhatWasMeasured /\ BestIsThere /\ MetadataIsOwn
    /\ PendingRun /\ PendingPackage /\ PendingSave /\ PendingArchive /\ PendingLoad
    /\ ArchiveIsSound

-----------------------------------------------------------------------------
LEMMA Typing ==
  ASSUME TypeOK
  PROVE  /\ call.at = "running" => call \in Running
         /\ call.at \in Preparing \cup {"returning", "zipping", "writing", "adding",
                                        "extracting"} => call \in Handling
         /\ \A s \in Slots : packages[s] # Absent => packages[s] \in Status
         /\ archive \notin {Absent, Partial} => archive \in Archives
         /\ Absent \notin Runs /\ Partial \notin Runs
BY StoreAssumption DEF TypeOK, Idle, Running, Handling, Preparing, Runs

LEMMA InitInv == Init => StoreInv
<1> SUFFICES ASSUME Init PROVE StoreInv
  OBVIOUS
<1> USE DEF Init, Idle
<1>1. TypeOK
  BY StoreAssumption DEF TypeOK, Contents, NoFiles
<1>2. \A s \in Slots : ~Owns(s)
  BY DEF Owns
<1>3. PendingRun /\ PendingPackage /\ PendingSave /\ PendingArchive /\ PendingLoad
  BY DEF PendingRun, PendingPackage, PendingSave, PendingArchive, PendingLoad,
         Creating, Saving, Preparing
<1> QED
  BY <1>1, <1>2, <1>3 DEF StoreInv, ServesWhatWasMeasured, BestIsThere,
         MetadataIsOwn, ArchiveIsSound

(* Which packages own a workspace, and what they find there, changes only with *)
(* the package, the owner and the contents of that workspace.                  *)
LEMMA OwnersKeep ==
  ASSUME ServesWhatWasMeasured, BestIsThere, MetadataIsOwn,
         \A s \in Slots : Owns(s)' =>
            /\ Owns(s)
            /\ packages'[s] = packages[s]
            /\ files'[packages[s].directory] = files[packages[s].directory]
            /\ yaml'[packages[s].directory]
                 \in {Absent, Partial, packages[s].id, yaml[packages[s].directory]}
  PROVE  ServesWhatWasMeasured' /\ BestIsThere' /\ MetadataIsOwn'
<1>1. ServesWhatWasMeasured'
  BY DEF ServesWhatWasMeasured, Agree
<1>2. BestIsThere'
  BY DEF BestIsThere
<1>3. MetadataIsOwn'
  BY DEF MetadataIsOwn
<1> QED
  BY <1>1, <1>2, <1>3

LEMMA InitializeTyping ==
  ASSUME TypeOK, NEW d \in Directories, InitializeWorkspace(d)
  PROVE  /\ exists' \in [Directories -> BOOLEAN]
         /\ files' \in [Directories -> [Models -> Contents]]
         /\ yaml' \in [Directories -> Contents \cup {Partial}]
         /\ owner' \in [Directories -> Slots \cup {Absent}]
         /\ owner'[d] = Absent /\ files'[d] = NoFiles
         /\ \A e \in Directories : e # d =>
              owner'[e] = owner[e] /\ files'[e] = files[e] /\ yaml'[e] = yaml[e]
BY DEF TypeOK, InitializeWorkspace, NoFiles, Contents

(* Emptying a workspace leaves every owner of another one what it had.         *)
LEMMA InitializeKeeps ==
  ASSUME TypeOK, ServesWhatWasMeasured, BestIsThere, MetadataIsOwn,
         NEW d \in Directories, InitializeWorkspace(d), packages' = packages
  PROVE  ServesWhatWasMeasured' /\ BestIsThere' /\ MetadataIsOwn'
<1>1. ASSUME NEW s \in Slots, Owns(s)'
      PROVE  /\ Owns(s)
             /\ files'[packages[s].directory] = files[packages[s].directory]
             /\ yaml'[packages[s].directory] = yaml[packages[s].directory]
  <2>1. packages[s] \in Status
    BY <1>1, Typing DEF Owns
  <2>2. packages[s].directory \in Directories /\ packages[s].directory # d
    BY <1>1, <2>1, InitializeTyping, StoreAssumption DEF Owns, Status
  <2> QED
    BY <1>1, <2>2, InitializeTyping DEF Owns
<1> QED
  BY <1>1, OwnersKeep

LEMMA OptimizeStep ==
  ASSUME StoreInv, NEW t \in Slots, NEW d \in Directories, Optimize(t, d)
  PROVE  StoreInv'
<1> USE DEF StoreInv, Optimize
<1>1. TypeOK'
  BY InitializeTyping, StoreAssumption DEF TypeOK, Running
<1>2. ServesWhatWasMeasured' /\ BestIsThere' /\ MetadataIsOwn'
  BY InitializeKeeps
<1>3. PendingRun'
  BY InitializeTyping, StoreAssumption DEF PendingRun, TypeOK
<1>4. PendingPackage' /\ PendingSave' /\ PendingArchive' /\ PendingLoad'
  BY DEF PendingPackage, PendingSave, PendingArchive, PendingLoad, Creating, Saving, Preparing
<1>5. ArchiveIsSound'
  BY DEF ArchiveIsSound, Agree
<1> QED
  BY <1>1, <1>2, <1>3, <1>4, <1>5

LEMMA HandlingTyping ==
  ASSUME NEW t \in Slots, NEW st \in Status
  PROVE  [at |-> "extracting", slot |-> t, saving |-> FALSE, status |-> st] \in Handling
BY DEF Handling

LEMMA LoadStep ==
  ASSUME StoreInv, NEW t \in Slots, NEW d \in Directories, Load(t, d)
  PROVE  StoreInv'
<1> USE DEF StoreInv, Load
<1>1. Readable => archive \in Archives
  BY Typing DEF Readable
<1> DEFINE st == [archive.status EXCEPT !.directory = d, !.whole = archive.whole]
<1>2. Readable => /\ st \in Status
                  /\ st.id = archive.status.id /\ st.directory = d
                  /\ st.measured = archive.status.measured
                  /\ st.best = archive.status.best /\ st.whole = archive.whole
  BY <1>1 DEF Archives, Status
<1>3. /\ Readable => call' = [at |-> "extracting", slot |-> t, saving |-> FALSE, status |-> st]
      /\ ~Readable => call' = call
  OBVIOUS
<1> HIDE DEF st
<1>4. TypeOK'
  <2>1. CASE Readable
    <3>1. call' \in Handling
      BY <1>2, <1>3, <2>1, HandlingTyping
    <3> QED
      BY <3>1, InitializeTyping DEF TypeOK
  <2>2. CASE ~Readable
    BY <1>3, <2>2, InitializeTyping DEF TypeOK
  <2> QED
    BY <2>1, <2>2
<1>5. ServesWhatWasMeasured' /\ BestIsThere' /\ MetadataIsOwn'
  BY InitializeKeeps
<1>6. PendingRun' /\ PendingPackage' /\ PendingSave' /\ PendingArchive'
  <2>1. call'.at \in {"idle", "extracting"}
    BY <1>3 DEF Idle
  <2> QED
    BY <2>1 DEF PendingRun, PendingPackage, PendingSave, PendingArchive, Creating,
           Saving, Preparing
<1>7. PendingLoad'
  BY <1>1, <1>2, <1>3, InitializeTyping DEF PendingLoad, Readable, Idle
<1>8. ArchiveIsSound'
  BY DEF ArchiveIsSound, Agree
<1> QED
  BY <1>4, <1>5, <1>6, <1>7, <1>8

LEMMA RemoveWorkspaceStep ==
  ASSUME StoreInv, NEW d \in Directories, RemoveWorkspace(d)
  PROVE  StoreInv'
<1> USE DEF StoreInv, RemoveWorkspace
<1>1. TypeOK'
  BY DEF TypeOK, NoFiles, Contents
<1>2. ASSUME NEW s \in Slots, Owns(s)'
      PROVE  /\ Owns(s)
             /\ files'[packages[s].directory] = files[packages[s].directory]
             /\ yaml'[packages[s].directory] = yaml[packages[s].directory]
  <2>1. packages[s].directory \in Directories
    BY <1>2, Typing DEF Owns, Status
  <2> QED
    BY <1>2, <2>1, StoreAssumption DEF Owns, TypeOK
<1>3. ServesWhatWasMeasured' /\ BestIsThere' /\ MetadataIsOwn'
  BY <1>2, OwnersKeep
<1>4. PendingRun' /\ PendingPackage' /\ PendingSave' /\ PendingArchive' /\ PendingLoad'
  BY DEF PendingRun, PendingPackage, PendingSave, PendingArchive, PendingLoad,
         Creating, Saving, Preparing, Idle
<1>5. ArchiveIsSound'
  BY DEF ArchiveIsSound, Agree
<1> QED
  BY <1>1, <1>3, <1>4, <1>5

LEMMA PackageOptimizeStep ==
  ASSUME StoreInv, NEW s \in Slots, NEW t \in Slots, PackageOptimize(s, t)
  PROVE  StoreInv'
<1> USE DEF StoreInv, PackageOptimize
<1> DEFINE d == packages[s].directory
<1>1. d \in Directories
  BY Typing DEF Status
<1>2. TypeOK'
  BY <1>1, StoreAssumption DEF TypeOK, Running
<1>3. ASSUME NEW u \in Slots, Owns(u)' PROVE Owns(u)
  <2>1. packages[u].directory \in Directories
    BY <1>3, Typing DEF Owns, Status
  <2> QED
    BY <1>1, <1>3, <2>1, StoreAssumption DEF Owns, TypeOK
<1>4. ServesWhatWasMeasured' /\ BestIsThere' /\ MetadataIsOwn'
  BY <1>3, OwnersKeep
<1>5. PendingRun'
  BY <1>1, StoreAssumption DEF PendingRun, TypeOK
<1>6. PendingPackage' /\ PendingSave' /\ PendingArchive' /\ PendingLoad'
  BY DEF PendingPackage, PendingSave, PendingArchive, PendingLoad, Creating, Saving, Preparing
<1>7. ArchiveIsSound'
  BY DEF ArchiveIsSound, Agree
<1> QED
  BY <1>2, <1>4, <1>5, <1>6, <1>7

LEMMA RunPipelinesStep ==
  ASSUME StoreInv, RunPipelines
  PROVE  StoreInv'
<1> USE DEF StoreInv
<1>1. PICK new \in FilesAfter(call) : \E st \in StatusesOf(call, new) :
         /\ files' = [files EXCEPT ![call.directory] = new]
         /\ call' = [at |-> "deleting", slot |-> call.slot, status |-> st,
                     saving |-> FALSE]
  BY DEF RunPipelines
<1>2. PICK st \in StatusesOf(call, new) :
         /\ files' = [files EXCEPT ![call.directory] = new]
         /\ call' = [at |-> "deleting", slot |-> call.slot, status |-> st,
                     saving |-> FALSE]
  BY <1>1
<1>3. /\ call.at = "running"
      /\ UNCHANGED <<exists, yaml, archive, packages, owner, made>>
  BY DEF RunPipelines
<1>4. call \in Running /\ call.directory \in Directories /\ call.slot \in Slots
  BY <1>3, Typing DEF Running
<1>5. made \in Runs /\ owner[call.directory] = Absent
  BY <1>3 DEF PendingRun, TypeOK, Runs
<1>6. new \in [Models -> Contents]
  BY DEF FilesAfter
<1>7. st \in Status /\ st.directory = call.directory
  BY <1>4, <1>5 DEF StatusesOf, Status, NewId
<1>8. /\ \A m \in Models : st.measured[m] \in {Absent, new[m]}
      /\ \A m \in st.best : m \in Models /\ st.measured[m] # Absent
  BY DEF StatusesOf
<1>9. TypeOK'
  <2>1. call' \in Handling
    BY <1>2, <1>4, <1>7 DEF Handling
  <2>2. files' \in [Directories -> [Models -> Contents]]
    BY <1>2, <1>6 DEF TypeOK
  <2> QED
    BY <1>3, <2>1, <2>2 DEF TypeOK
<1>10. ASSUME NEW u \in Slots, Owns(u)'
       PROVE  /\ Owns(u)
              /\ files'[packages[u].directory] = files[packages[u].directory]
  <2>1. packages[u].directory \in Directories
    BY <1>3, <1>10, Typing DEF Owns, Status
  <2> QED
    BY <1>2, <1>3, <1>5, <1>10, <2>1, StoreAssumption DEF Owns, TypeOK
<1>11. ServesWhatWasMeasured' /\ BestIsThere' /\ MetadataIsOwn'
  BY <1>3, <1>10, OwnersKeep
<1>12. PendingPackage'
  <2>1. files'[st.directory] = new
    BY <1>2, <1>4, <1>7 DEF TypeOK
  <2>2. Agree(st.measured, new)
    BY <1>8 DEF Agree
  <2>3. \A m \in st.best : new[m] # Absent
    BY <1>8
  <2> QED
    BY <1>2, <1>3, <1>5, <1>7, <2>1, <2>2, <2>3 DEF PendingPackage
<1>13. PendingRun' /\ PendingSave' /\ PendingArchive' /\ PendingLoad'
  BY <1>2 DEF PendingRun, PendingSave, PendingArchive, PendingLoad, Saving, Preparing
<1>14. ArchiveIsSound'
  BY <1>3 DEF ArchiveIsSound, Agree
<1> QED
  BY <1>9, <1>11, <1>12, <1>13, <1>14

(* The owner of a workspace whose status.yaml is being written is the package  *)
(* that writes it.                                                             *)
LEMMA WriterOwns ==
  ASSUME StoreInv, call.at \in Preparing, NEW s \in Slots, Owns(s),
         packages[s].directory = call.status.directory
  PROVE  packages[s] = call.status
<1> USE DEF StoreInv
<1>1. owner[call.status.directory] = s /\ s # Absent
  BY StoreAssumption DEF Owns
<1>2. call.saving
  BY <1>1 DEF PendingPackage, Creating
<1>3. Saving
  BY <1>2 DEF Saving
<1>4. call.slot = s
  BY <1>1, <1>3 DEF PendingSave
<1> QED
  BY <1>3, <1>4 DEF PendingSave

(* A step of save_status_file writes part of the own status, or nothing.       *)
LEMMA StatusFileStep ==
  ASSUME StoreInv, DeleteStatusFile \/ OpenStatusFile \/ DumpStatus
  PROVE  StoreInv'
<1> USE DEF StoreInv
<1> DEFINE d == call.status.directory
           next == IF call.at = "deleting" THEN "opening"
                   ELSE IF call.at = "opening" THEN "dumping"
                   ELSE IF call.saving THEN "zipping" ELSE "returning"
<1>1. /\ call.at \in Preparing
      /\ call' = [call EXCEPT !.at = next]
      /\ UNCHANGED <<exists, files, archive, packages, owner, made>>
  BY DEF DeleteStatusFile, OpenStatusFile, DumpStatus, Preparing
<1>2. PICK v \in {Absent, Partial, call.status.id} :
        /\ yaml' = [yaml EXCEPT ![d] = v]
        /\ call.at = "dumping" => v = call.status.id
  BY DEF DeleteStatusFile, OpenStatusFile, DumpStatus, DumpedStatus
<1>3. /\ call \in Handling /\ d \in Directories /\ call.status.id \in Runs
  BY <1>1, Typing DEF Handling, Status
<1>4. next \in {"opening", "dumping", "zipping", "returning"}
  OBVIOUS
<1>5. /\ call'.at = next /\ call'.status = call.status /\ call'.slot = call.slot
      /\ call'.saving = call.saving /\ call' \in Handling
  BY <1>1, <1>3, <1>4 DEF Handling
<1>6. yaml'[d] = v /\ \A e \in Directories : e # d => yaml'[e] = yaml[e]
  BY <1>2, <1>3 DEF TypeOK
<1>7. TypeOK'
  <2>1. yaml' \in [Directories -> Contents \cup {Partial}]
    BY <1>2, <1>3 DEF TypeOK, Contents
  <2> QED
    BY <1>1, <1>5, <2>1 DEF TypeOK
<1>8. ASSUME NEW s \in Slots, Owns(s)'
      PROVE  /\ Owns(s)
             /\ yaml'[packages[s].directory]
                  \in {Absent, Partial, packages[s].id, yaml[packages[s].directory]}
  <2>1. Owns(s) /\ packages[s].directory \in Directories
    BY <1>1, <1>8, Typing DEF Owns, Status
  <2> QED
    BY <1>1, <1>2, <1>6, <2>1, WriterOwns
<1>9. ServesWhatWasMeasured' /\ BestIsThere' /\ MetadataIsOwn'
  BY <1>1, <1>8, OwnersKeep
<1>10. PendingPackage'
  <2>1. ASSUME Creating' PROVE Creating
    BY <1>1, <1>5, <2>1 DEF Creating, Preparing
  <2>2. call'.at = "returning" => call.at = "dumping"
    BY <1>1, <1>5 DEF Preparing
  <2> QED
    BY <1>1, <1>2, <1>5, <1>6, <2>1, <2>2 DEF PendingPackage, Agree
<1>11. PendingSave'
  <2>1. ASSUME Saving' PROVE Saving
    BY <1>1, <1>5, <2>1 DEF Saving, Preparing
  <2> QED
    BY <1>1, <1>5, <2>1 DEF PendingSave
<1>12. PendingRun' /\ PendingArchive' /\ PendingLoad'
  BY <1>4, <1>5 DEF PendingRun, PendingArchive, PendingLoad
<1>13. ArchiveIsSound'
  BY <1>1 DEF ArchiveIsSound, Agree
<1> QED
  BY <1>7, <1>9, <1>10, <1>11, <1>12, <1>13

LEMMA ReturnPackageStep ==
  ASSUME StoreInv, ReturnPackage
  PROVE  StoreInv'
<1> USE DEF StoreInv, ReturnPackage
<1> DEFINE st == call.status
           d == st.directory
<1>1. /\ call \in Handling /\ st \in Status /\ d \in Directories /\ call.slot \in Slots
  BY Typing DEF Handling, Status
<1>2. /\ owner[d] = Absent
      /\ Agree(st.measured, files[d])
      /\ \A m \in st.best : files[d][m] # Absent
      /\ yaml[d] = st.id
  BY DEF PendingPackage, Creating
<1>3. TypeOK'
  BY <1>1 DEF TypeOK
<1>4. ASSUME NEW s \in Slots, Owns(s)'
      PROVE  \/ s = call.slot /\ packages'[s] = st
             \/ Owns(s) /\ packages'[s] = packages[s]
  <2>1. CASE s = call.slot
    BY <1>1, <2>1 DEF TypeOK
  <2>2. CASE s # call.slot
    <3>1. packages'[s] = packages[s]
      BY <2>2 DEF TypeOK
    <3>2. packages[s].directory \in Directories
      BY <1>4, <3>1, Typing DEF Owns, Status
    <3> QED
      BY <1>4, <2>2, <3>1, <3>2, StoreAssumption DEF Owns
  <2> QED
    BY <2>1, <2>2
<1>5. ServesWhatWasMeasured'
  BY <1>2, <1>4 DEF ServesWhatWasMeasured, Agree
<1>6. BestIsThere'
  BY <1>2, <1>4 DEF BestIsThere
<1>7. MetadataIsOwn'
  BY <1>2, <1>4 DEF MetadataIsOwn
<1>8. PendingRun' /\ PendingPackage' /\ PendingSave' /\ PendingArchive' /\ PendingLoad'
  BY DEF PendingRun, PendingPackage, PendingSave, PendingArchive, PendingLoad,
         Creating, Saving, Preparing, Idle
<1>9. ArchiveIsSound'
  BY DEF ArchiveIsSound, Agree
<1> QED
  BY <1>3, <1>5, <1>6, <1>7, <1>8, <1>9

LEMMA SaveStep ==
  ASSUME StoreInv, NEW s \in Slots, Save(s)
  PROVE  StoreInv'
<1> USE DEF StoreInv, Save
<1> DEFINE d == packages[s].directory
<1>1. packages[s] \in Status /\ d \in Directories
  BY Typing DEF Status
<1>2. call' \in Handling
  BY <1>1 DEF Handling
<1>3. TypeOK'
  BY <1>1, <1>2 DEF TypeOK
<1>4. ASSUME NEW u \in Slots, Owns(u)' PROVE Owns(u)
  <2>1. packages[u].directory \in Directories
    BY <1>4, Typing DEF Owns, Status
  <2> QED
    BY <1>1, <1>4, <2>1, StoreAssumption DEF Owns, TypeOK
<1>5. ServesWhatWasMeasured' /\ BestIsThere' /\ MetadataIsOwn'
  BY <1>4, OwnersKeep
<1>6. PendingSave'
  BY <1>1 DEF PendingSave, TypeOK
<1>7. PendingRun' /\ PendingPackage' /\ PendingArchive' /\ PendingLoad'
  BY DEF PendingRun, PendingPackage, PendingArchive, PendingLoad, Creating, Preparing
<1>8. ArchiveIsSound'
  BY DEF ArchiveIsSound
<1> QED
  BY <1>3, <1>5, <1>6, <1>7, <1>8

LEMMA SaveRefusedStep ==
  ASSUME StoreInv, NEW s \in Slots, SaveRefused(s)
  PROVE  StoreInv'
<1> USE DEF StoreInv, SaveRefused
<1>1. TypeOK'
  BY DEF TypeOK
<1>2. ServesWhatWasMeasured' /\ BestIsThere' /\ MetadataIsOwn'
  BY OwnersKeep DEF Owns
<1>3. PendingRun' /\ PendingPackage' /\ PendingSave' /\ PendingArchive' /\ PendingLoad'
  BY DEF PendingRun, PendingPackage, PendingSave, PendingArchive, PendingLoad,
         Creating, Saving, Preparing, Idle
<1>4. ArchiveIsSound'
  BY DEF ArchiveIsSound
<1> QED
  BY <1>1, <1>2, <1>3, <1>4

LEMMA OpenArchiveStep ==
  ASSUME StoreInv, OpenArchive
  PROVE  StoreInv'
<1> USE DEF StoreInv, OpenArchive
<1>1. call \in Handling
  BY Typing
<1>2. TypeOK'
  BY <1>1 DEF TypeOK, Handling
<1>3. ServesWhatWasMeasured' /\ BestIsThere' /\ MetadataIsOwn'
  BY OwnersKeep DEF Owns
<1>4. PendingSave'
  BY <1>1 DEF PendingSave, Saving, Handling
<1>5. PendingRun' /\ PendingPackage' /\ PendingArchive' /\ PendingLoad'
  BY <1>1 DEF PendingRun, PendingPackage, PendingArchive, PendingLoad, Creating,
         Preparing, Handling
<1>6. ArchiveIsSound'
  BY DEF ArchiveIsSound
<1> QED
  BY <1>2, <1>3, <1>4, <1>5, <1>6

LEMMA WriteStatusStep ==
  ASSUME StoreInv, WriteStatus
  PROVE  StoreInv'
<1> USE DEF StoreInv, WriteStatus
<1>1. call \in Handling /\ call.status \in Status
  BY Typing DEF Handling
<1>2. archive' \in Archives
  BY <1>1 DEF Archives, NoFiles, Contents
<1>3. call' \in Handling /\ call'.at = "adding"
      /\ call'.status = call.status /\ call'.slot = call.slot
  BY <1>1 DEF Handling
<1>4. TypeOK'
  BY <1>2, <1>3 DEF TypeOK
<1>5. ServesWhatWasMeasured' /\ BestIsThere' /\ MetadataIsOwn'
  BY OwnersKeep DEF Owns
<1>6. PendingSave'
  BY <1>3 DEF PendingSave, Saving
<1>7. PendingArchive'
  BY <1>2, <1>3 DEF PendingArchive, Agree, NoFiles
<1>8. PendingRun' /\ PendingPackage' /\ PendingLoad'
  BY <1>3 DEF PendingRun, PendingPackage, PendingLoad, Creating, Preparing
<1>9. ArchiveIsSound'
  BY DEF ArchiveIsSound, Agree, NoFiles
<1> QED
  BY <1>4, <1>5, <1>6, <1>7, <1>8, <1>9

(* What the owner's workspace holds while it is being saved.                   *)
LEMMA SavedWorkspace ==
  ASSUME StoreInv, call.at = "adding", archive.sound
  PROVE  /\ Agree(call.status.measured, files[call.status.directory])
         /\ call.status.whole =>
              \A m \in call.status.best : files[call.status.directory][m] # Absent
<1> USE DEF StoreInv
<1>1. call.slot \in Slots
  BY Typing DEF Handling
<1>2. Owns(call.slot) /\ packages[call.slot] = call.status
  BY DEF PendingSave, PendingArchive, Saving, Owns
<1> QED
  BY <1>1, <1>2 DEF ServesWhatWasMeasured, BestIsThere

(* During a save what has been added to the archive so far is right.           *)
LEMMA AddModelStep ==
  ASSUME StoreInv, NEW m \in Models, AddModel(m)
  PROVE  StoreInv'
<1> USE DEF StoreInv, AddModel
<1> DEFINE d == call.status.directory
<1>1. call \in Handling /\ call.status \in Status /\ d \in Directories
  BY Typing DEF Handling, Status
<1>2. archive \in Archives /\ archive.status = call.status /\ ~archive.whole
  BY DEF PendingArchive
<1>3. files[d][m] \in Contents
  BY <1>1 DEF TypeOK
<1>4. /\ archive' \in Archives
      /\ archive'.status = archive.status /\ archive'.sound = archive.sound
      /\ archive'.whole = archive.whole
      /\ archive'.files = [archive.files EXCEPT ![m] = files[d][m]]
  BY <1>2, <1>3 DEF Archives
<1>5. TypeOK'
  BY <1>4 DEF TypeOK
<1>6. ServesWhatWasMeasured' /\ BestIsThere' /\ MetadataIsOwn'
  BY OwnersKeep DEF Owns
<1>7. archive'.sound => Agree(archive'.status.measured, archive'.files)
  <2>1. ASSUME archive.sound
        PROVE  Agree(archive'.status.measured, archive'.files)
    <3>1. Agree(call.status.measured, files[d])
      BY <2>1, SavedWorkspace
    <3>2. Agree(archive.status.measured, archive.files)
      BY <2>1 DEF PendingArchive
    <3> QED
      BY <1>2, <1>4, <3>1, <3>2 DEF Agree, Archives
  <2> QED
    BY <1>4, <2>1
<1>8. PendingArchive'
  BY <1>4, <1>7 DEF PendingArchive
<1>9. PendingRun' /\ PendingPackage' /\ PendingSave' /\ PendingLoad'
  BY DEF PendingRun, PendingPackage, PendingSave, PendingLoad, Creating, Saving, Preparing,
         Agree
<1>10. ArchiveIsSound'
  BY <1>2, <1>4, <1>7 DEF ArchiveIsSound
<1> QED
  BY <1>5, <1>6, <1>8, <1>9, <1>10

LEMMA CloseArchiveStep ==
  ASSUME StoreInv, CloseArchive
  PROVE  StoreInv'
<1> USE DEF StoreInv, CloseArchive
<1>1. call \in Handling /\ call.status \in Status
  BY Typing DEF Handling
<1>2. archive \in Archives /\ archive.status = call.status
  BY DEF PendingArchive
<1>3. /\ archive' \in Archives
      /\ archive'.status = archive.status /\ archive'.sound = archive.sound
      /\ archive'.whole = call.status.whole /\ archive'.files = archive.files
  BY <1>1, <1>2 DEF Archives, Status
<1>4. TypeOK'
  BY <1>3 DEF TypeOK
<1>5. ServesWhatWasMeasured' /\ BestIsThere' /\ MetadataIsOwn'
  BY OwnersKeep DEF Owns
<1>6. PendingRun' /\ PendingPackage' /\ PendingSave' /\ PendingArchive' /\ PendingLoad'
  BY DEF PendingRun, PendingPackage, PendingSave, PendingArchive, PendingLoad,
         Creating, Saving, Preparing, Idle
<1>7. ASSUME archive.sound, call.status.whole, NEW m \in call.status.best
      PROVE  archive.files[m] # Absent
  <2>1. m \in Models
    BY <1>1 DEF Status
  <2>2. m \in FilesToSave(call.status)
    BY <1>7, <2>1, SavedWorkspace DEF FilesToSave, Models
  <2> QED
    BY <2>2
<1>8. ArchiveIsSound'
  BY <1>2, <1>3, <1>7 DEF ArchiveIsSound, PendingArchive, Agree
<1> QED
  BY <1>4, <1>5, <1>6, <1>8

(* The workspace of a package that has just been loaded.                       *)
LEMMA ExtractStep ==
  ASSUME StoreInv, Extract
  PROVE  StoreInv'
<1> USE DEF StoreInv
<1> DEFINE st == call.status
           d == st.directory
<1>1. /\ call.at = "extracting" /\ call \in Handling
      /\ st \in Status /\ d \in Directories /\ call.slot \in Slots
  BY Typing DEF Extract, Handling, Status
<1>2. /\ archive \in Archives /\ archive \notin {Absent, Partial}
      /\ owner[d] = Absent
      /\ st.id = archive.status.id /\ st.measured = archive.status.measured
      /\ st.best = archive.status.best /\ st.whole = archive.whole
  BY <1>1 DEF PendingLoad
<1>3. /\ files' = [files EXCEPT ![d] = Extracted(Models)]
      /\ yaml' = [yaml EXCEPT ![d] = archive.status.id]
      /\ packages' = [packages EXCEPT ![call.slot] = st]
      /\ owner' = [e \in Directories |->
                     IF e = d /\ archive.sound THEN call.slot
                     ELSE IF owner[e] = call.slot THEN Absent ELSE owner[e]]
      /\ call' = Idle
      /\ UNCHANGED <<exists, archive, made>>
  BY DEF Extract
<1>contents. Extracted(Models) = archive.files
  <2>1. files[d] = NoFiles /\ archive.files \in [Models -> Contents]
    BY <1>1, <1>2 DEF PendingLoad, Archives
  <2> QED
    BY <2>1 DEF Extracted, NoFiles
<1>4. /\ files'[d] = archive.files /\ yaml'[d] = st.id
      /\ \A e \in Directories : e # d => files'[e] = files[e] /\ yaml'[e] = yaml[e]
  BY <1>contents, <1>1, <1>2, <1>3 DEF TypeOK
<1>5. TypeOK'
  <2>1. files' \in [Directories -> [Models -> Contents]]
    BY <1>contents, <1>1, <1>2, <1>3 DEF TypeOK, Archives
  <2>2. yaml' \in [Directories -> Contents \cup {Partial}]
    BY <1>1, <1>2, <1>3 DEF TypeOK, Archives, Status, Contents
  <2>3. packages' \in [Slots -> Status \cup {Absent}]
    BY <1>1, <1>3 DEF TypeOK
  <2>4. owner' \in [Directories -> Slots \cup {Absent}]
    BY <1>1, <1>3 DEF TypeOK
  <2> QED
    BY <1>3, <2>1, <2>2, <2>3, <2>4 DEF TypeOK
<1>6. ASSUME NEW s \in Slots, Owns(s)'
      PROVE  \/ s = call.slot /\ packages'[s] = st /\ archive.sound
             \/ /\ Owns(s) /\ packages'[s] = packages[s]
                /\ packages[s].directory \in Directories \ {d}
  <2>1. CASE s = call.slot
    <3>1. packages'[s] = st
      BY <1>1, <1>3, <2>1 DEF TypeOK
    <3> QED
      BY <1>1, <1>3, <1>6, <2>1, <3>1, StoreAssumption DEF Owns
  <2>2. CASE s # call.slot
    <3>1. packages'[s] = packages[s]
      BY <1>3, <2>2 DEF TypeOK
    <3>2. packages[s].directory \in Directories
      BY <1>6, <3>1, Typing DEF Owns, Status
    <3> QED
      BY <1>2, <1>3, <1>6, <2>2, <3>1, <3>2, StoreAssumption DEF Owns
  <2> QED
    BY <2>1, <2>2
<1>7. archive.sound => /\ Agree(st.measured, files'[d])
                       /\ st.whole => \A m \in st.best : files'[d][m] # Absent
  BY <1>2, <1>4 DEF ArchiveIsSound
<1>8. ServesWhatWasMeasured'
  BY <1>4, <1>6, <1>7 DEF ServesWhatWasMeasured, Agree
<1>9. BestIsThere'
  BY <1>4, <1>6, <1>7 DEF BestIsThere
<1>10. MetadataIsOwn'
  BY <1>4, <1>6 DEF MetadataIsOwn
<1>11. PendingRun' /\ PendingPackage' /\ PendingSave' /\ PendingArchive' /\ PendingLoad'
  BY <1>3 DEF PendingRun, PendingPackage, PendingSave, PendingArchive, PendingLoad,
         Creating, Saving, Preparing, Idle
<1>12. ArchiveIsSound'
  BY <1>3 DEF ArchiveIsSound, Agree
<1> QED
  BY <1>5, <1>8, <1>9, <1>10, <1>11, <1>12

LEMMA ExtractSomeStep ==
  ASSUME StoreInv, ExtractSome
  PROVE  StoreInv'
<1> USE DEF StoreInv, ExtractSome
<1> DEFINE d == call.status.directory
<1>1. d \in Directories /\ owner[d] = Absent /\ archive \in Archives
  BY Typing DEF Handling, Status, PendingLoad
<1>2. TypeOK'
  <2>1. files' \in [Directories -> [Models -> Contents]]
    BY <1>1 DEF TypeOK, Archives, Contents, Extracted
  <2>2. yaml' \in [Directories -> Contents \cup {Partial}]
    BY <1>1 DEF TypeOK, Archives, Status, Contents
  <2> QED
    BY <2>1, <2>2 DEF TypeOK
<1>3. ASSUME NEW s \in Slots, Owns(s)'
      PROVE  /\ Owns(s)
             /\ files'[packages[s].directory] = files[packages[s].directory]
             /\ yaml'[packages[s].directory] = yaml[packages[s].directory]
  <2>1. packages[s].directory \in Directories \ {d}
    BY <1>1, <1>3, Typing, StoreAssumption DEF Owns, Status
  <2> QED
    BY <1>3, <2>1 DEF Owns, TypeOK
<1>4. ServesWhatWasMeasured' /\ BestIsThere' /\ MetadataIsOwn'
  BY <1>3, OwnersKeep
<1>5. PendingRun' /\ PendingPackage' /\ PendingSave' /\ PendingArchive' /\ PendingLoad'
  BY DEF PendingRun, PendingPackage, PendingSave, PendingArchive, PendingLoad,
         Creating, Saving, Preparing, Idle
<1>6. ArchiveIsSound'
  BY DEF ArchiveIsSound, Agree
<1> QED
  BY <1>2, <1>4, <1>5, <1>6

LEMMA RaiseStep ==
  ASSUME StoreInv, Raise
  PROVE  StoreInv'
<1> USE DEF StoreInv, Raise
<1>1. call.at = "adding" => /\ archive \in Archives /\ ~archive.whole
                            /\ archive.sound => Agree(archive.status.measured, archive.files)
  BY DEF PendingArchive
<1>2. call.at = "adding" =>
        /\ archive' \in Archives
        /\ archive'.status = archive.status /\ archive'.sound = archive.sound
        /\ archive'.whole = archive.whole /\ archive'.files = archive.files
  BY <1>1 DEF Archives
<1>3. TypeOK' /\ ArchiveIsSound'
  <2>1. CASE call.at = "adding"
    BY <1>1, <1>2, <2>1 DEF TypeOK, ArchiveIsSound
  <2>2. CASE call.at # "adding"
    BY <2>2 DEF TypeOK, ArchiveIsSound, Agree
  <2> QED
    BY <2>1, <2>2
<1>4. ServesWhatWasMeasured' /\ BestIsThere' /\ MetadataIsOwn'
  BY OwnersKeep DEF Owns
<1>5. PendingRun' /\ PendingPackage' /\ PendingSave' /\ PendingArchive' /\ PendingLoad'
  BY DEF PendingRun, PendingPackage, PendingSave, PendingArchive, PendingLoad,
         Creating, Saving, Preparing, Idle
<1> QED
  BY <1>3, <1>4, <1>5

LEMMA KillStep ==
  ASSUME StoreInv, Kill
  PROVE  StoreInv'
<1> USE DEF StoreInv, Kill
<1>1. TypeOK'
  BY DEF TypeOK
<1>2. \A s \in Slots : ~Owns(s)'
  BY DEF Owns
<1>3. ServesWhatWasMeasured' /\ BestIsThere' /\ MetadataIsOwn'
  BY <1>2 DEF ServesWhatWasMeasured, BestIsThere, MetadataIsOwn
<1>4. PendingRun' /\ PendingPackage' /\ PendingSave' /\ PendingArchive' /\ PendingLoad'
  BY DEF PendingRun, PendingPackage, PendingSave, PendingArchive, PendingLoad,
         Creating, Saving, Preparing, Idle
<1>5. ArchiveIsSound'
  BY DEF ArchiveIsSound, Agree
<1> QED
  BY <1>1, <1>3, <1>4, <1>5

LEMMA StutterStep ==
  ASSUME StoreInv, UNCHANGED vars
  PROVE  StoreInv'
BY DEF StoreInv, vars, TypeOK, ServesWhatWasMeasured, BestIsThere, MetadataIsOwn, Owns,
       PendingRun, PendingPackage, PendingSave, PendingArchive, PendingLoad,
       ArchiveIsSound, Agree, Creating, Saving

-----------------------------------------------------------------------------
(* The invariant holds in every behaviour: no sequence of calls, exceptions    *)
(* and kills breaks what packages, workspaces and the archive promise.         *)
THEOREM StoreInvariance == Spec => []StoreInv
<1>1. StoreInv /\ [Next]_vars => StoreInv'
  BY OptimizeStep, LoadStep, PackageOptimizeStep, SaveStep, SaveRefusedStep,
     AddModelStep, RemoveWorkspaceStep, RunPipelinesStep, StatusFileStep,
     ReturnPackageStep, OpenArchiveStep, WriteStatusStep, CloseArchiveStep,
     ExtractStep, ExtractSomeStep, RaiseStep, KillStep, StutterStep DEF Next
<1> QED
  BY InitInv, <1>1, PTL DEF Spec

(* Types are kept: packages, workspaces, archive and call keep the shape the   *)
(* code gives them (package/status.py, package/builder.py).                    *)
THEOREM StoreTypeCorrect == Spec => []TypeOK
BY StoreInvariance, PTL DEF StoreInv

(* get_runner (package/package.py) never hands the owner of a workspace a file *)
(* other than the one its status has measured.                                 *)
THEOREM Serves == Spec => []ServesWhatWasMeasured
BY StoreInvariance, PTL DEF StoreInv

(* The best models survive any number of saves and loads (package/builder.py,  *)
(* package/loader.py).                                                         *)
THEOREM BestSurvives == Spec => []BestIsThere
BY StoreInvariance, PTL DEF StoreInv

(* LoadMetadata (commands/load.py) reads the owner's metadata or none.         *)
THEOREM OwnMetadata == Spec => []MetadataIsOwn
BY StoreInvariance, PTL DEF StoreInv
=============================================================================
