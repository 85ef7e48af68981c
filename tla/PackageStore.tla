---------------------------- MODULE PackageStore ----------------------------
(* Packages, the workspaces they lie in, and the archive they are saved to     *)
(* (package/package.py, package/builder.py, package/loader.py,                 *)
(* api/package.py, core/workspace.py).                                         *)
(*                                                                             *)
(* One process makes one call after the other; a call may raise, or the        *)
(* process be killed, between any two of its steps.  A package object holds a  *)
(* status and the path of its workspace, never the files: several objects may  *)
(* name one directory, and a directory may change under an object.  What a     *)
(* model file holds is abstracted to the number of the run that wrote it.      *)
EXTENDS Naturals

CONSTANTS
    Slots,        \* variables of the user's program that hold packages
    Directories,  \* paths of workspaces
    Exported,     \* models in one of the framework's export formats
    Converted,    \* models made by conversion; ONNX from TorchScript is in both
    MaxRuns,      \* bound: number of optimizations
    Absent,       \* no file, no package, nobody
    Partial       \* a file that was opened and not filled

ASSUME StoreAssumption ==
    /\ MaxRuns \in Nat
    /\ Absent \notin Nat /\ Partial \notin Nat /\ Absent # Partial
    /\ Absent \notin Slots

Models == Exported \cup Converted
Runs == 1 .. MaxRuns
Contents == Runs \cup {Absent}
NoFiles == [m \in Models |-> Absent]

VARIABLES
    exists,    \* exists[d]: the directory is there
    files,     \* files[d][m]: the run that wrote the file of model m
    yaml,      \* yaml[d]: Absent, Partial, or the id of the status in status.yaml
    archive,   \* the .nav file: Absent, Partial (no status in it), or a record
    packages,  \* packages[s]: the package in slot s
    owner,     \* history: owner[d] is the slot whose package was the last to take d
    call,      \* the call that is under way
    made       \* number of runs so far

vars == <<exists, files, yaml, archive, packages, owner, call, made>>

-----------------------------------------------------------------------------
(* A status: who wrote it, which content was measured for each model, and the  *)
(* models the strategies of minimal latency and maximal throughput choose.     *)
(* whole is history: it was not loaded from an archive whose save was cut off. *)
Status == [id: Runs, directory: Directories, measured: [Models -> Contents],
           best: SUBSET Models, whole: BOOLEAN]

(* closed: the zip directory is written; sound and whole are history: it was   *)
(* saved by the owner of its workspace, and the save came to its end.          *)
Archives == [status: Status, files: [Models -> Contents],
             closed: BOOLEAN, sound: BOOLEAN, whole: BOOLEAN]

Idle == [at |-> "idle"]
Running == [at: {"running"}, slot: Slots, directory: Directories, clean: BOOLEAN]
Handling == [at: {"deleting", "opening", "dumping", "returning", "zipping",
                  "writing", "adding", "extracting"},
             slot: Slots, status: Status, saving: BOOLEAN]

TypeOK ==
    /\ exists \in [Directories -> BOOLEAN]
    /\ files \in [Directories -> [Models -> Contents]]
    /\ yaml \in [Directories -> Contents \cup {Partial}]
    /\ archive \in Archives \cup {Absent, Partial}
    /\ packages \in [Slots -> Status \cup {Absent}]
    /\ owner \in [Directories -> Slots \cup {Absent}]
    /\ call \in {Idle} \cup Running \cup Handling
    /\ made \in 0 .. MaxRuns

Init ==
    /\ exists = [d \in Directories |-> FALSE]
    /\ files = [d \in Directories |-> NoFiles]
    /\ yaml = [d \in Directories |-> Absent]
    /\ archive = Absent
    /\ packages = [s \in Slots |-> Absent]
    /\ owner = [d \in Directories |-> Absent]
    /\ call = Idle
    /\ made = 0

-----------------------------------------------------------------------------
(* Fault: mkdir with exist_ok in the place of removing and creating.           *)
InitializeInPlace(d) ==
    /\ exists' = [exists EXCEPT ![d] = TRUE]
    /\ owner' = [owner EXCEPT ![d] = Absent]
    /\ UNCHANGED <<files, yaml>>

(* Workspace.initialize: whatever was there is removed.                        *)
InitializeWorkspace(d) ==
    /\ exists' = [exists EXCEPT ![d] = TRUE]
    /\ files' = [files EXCEPT ![d] = NoFiles]
    /\ yaml' = [yaml EXCEPT ![d] = Absent]
    /\ owner' = [owner EXCEPT ![d] = Absent]

(* optimize of a source model, with the result to be assigned to slot t.       *)
Optimize(t, d) ==
    /\ call = Idle
    /\ made < MaxRuns
    /\ InitializeWorkspace(d)
    /\ call' = [at |-> "running", slot |-> t, directory |-> d, clean |-> TRUE]
    /\ made' = made + 1
    /\ UNCHANGED <<archive, packages>>

(* package.optimize: works where the package lies, without initialising it.    *)
(* LoadMetadata, a required command, needs a whole status.yaml.                *)
PackageOptimize(s, t) ==
    /\ call = Idle
    /\ made < MaxRuns
    /\ packages[s] # Absent
    /\ LET d == packages[s].directory
       IN  /\ yaml[d] \in Runs
           /\ owner' = [owner EXCEPT ![d] = Absent]
           /\ call' = [at |-> "running", slot |-> t, directory |-> d, clean |-> FALSE]
    /\ made' = made + 1
    /\ UNCHANGED <<exists, files, yaml, archive, packages>>

(* The files a run may leave: an export or conversion that fails, or that is   *)
(* not asked for, leaves what was there; a package only converts.              *)
FilesAfter(c) ==
    {new \in [Models -> Contents] :
        \A m \in Models : \/ new[m] = files[c.directory][m]
                          \/ new[m] = made /\ (c.clean \/ m \in Converted)}

(* Fault: the identifier of the run before is kept.                            *)
EarlierId == made - 1

NewId == made

(* The statuses a run may end with: any files that are there may have been     *)
(* measured, and the best models are among the measured ones.                  *)
StatusesOf(c, new) ==
    {st \in [id: {NewId}, directory: {c.directory}, measured: [Models -> Contents],
             best: SUBSET Models, whole: {TRUE}] :
        /\ \A m \in Models : st.measured[m] \in {Absent, new[m]}
        /\ LET measured == {m \in Models : st.measured[m] # Absent}
           IN  IF measured = {} THEN st.best = {}
               ELSE \E fastest, busiest \in measured : st.best = {fastest, busiest}}

(* PipelineManager.run and PackageBuilder.create up to save_status_file.       *)
RunPipelines ==
    /\ call.at = "running"
    /\ \E new \in FilesAfter(call) : \E st \in StatusesOf(call, new) :
         /\ files' = [files EXCEPT ![call.directory] = new]
         /\ call' = [at |-> "deleting", slot |-> call.slot, status |-> st,
                     saving |-> FALSE]
    /\ UNCHANGED <<exists, yaml, archive, packages, owner, made>>

-----------------------------------------------------------------------------
(* Package.save_status_file: unlink, open for writing, dump.                   *)
DeleteStatusFile ==
    /\ call.at = "deleting"
    /\ yaml' = [yaml EXCEPT ![call.status.directory] = Absent]
    /\ call' = [call EXCEPT !.at = "opening"]
    /\ UNCHANGED <<exists, files, archive, packages, owner, made>>

OpenStatusFile ==
    /\ call.at = "opening"
    /\ yaml' = [yaml EXCEPT ![call.status.directory] = Partial]
    /\ call' = [call EXCEPT !.at = "dumping"]
    /\ UNCHANGED <<exists, files, archive, packages, owner, made>>

(* Fault: the status of the latest run is dumped, whichever package is saved.  *)
LatestStatus == made

DumpedStatus == call.status.id

DumpStatus ==
    /\ call.at = "dumping"
    /\ yaml' = [yaml EXCEPT ![call.status.directory] = DumpedStatus]
    /\ call' = [call EXCEPT !.at = IF call.saving THEN "zipping" ELSE "returning"]
    /\ UNCHANGED <<exists, files, archive, packages, owner, made>>

(* The package is returned and assigned: it owns its workspace now, and the    *)
(* package that was in the slot before is forgotten.                           *)
ReturnPackage ==
    /\ call.at = "returning"
    /\ packages' = [packages EXCEPT ![call.slot] = call.status]
    /\ owner' = [d \in Directories |->
                   IF d = call.status.directory THEN call.slot
                   ELSE IF owner[d] = call.slot THEN Absent ELSE owner[d]]
    /\ call' = Idle
    /\ UNCHANGED <<exists, files, yaml, archive, made>>

-----------------------------------------------------------------------------
(* PackageBuilder.save.  With override an older archive is unlinked first.     *)
(* Saving a package that lost its workspace to another one writes its status   *)
(* over the other one's.                                                       *)
Save(s) ==
    /\ call = Idle
    /\ packages[s] # Absent
    /\ LET d == packages[s].directory
       IN  /\ exists[d]
           /\ owner' = [owner EXCEPT ![d] = IF @ = s THEN s ELSE Absent]
    /\ archive' = Absent
    /\ call' = [at |-> "deleting", slot |-> s, status |-> packages[s], saving |-> TRUE]
    /\ UNCHANGED <<exists, files, yaml, packages, made>>

(* The workspace has been removed; the older archive is gone by then.          *)
SaveRefused(s) ==
    /\ call = Idle
    /\ packages[s] # Absent
    /\ ~exists[packages[s].directory]
    /\ archive # Absent
    /\ archive' = Absent
    /\ UNCHANGED <<exists, files, yaml, packages, owner, call, made>>

(* ZipFile(path, "w"): from here to its end the file is there and no archive.  *)
OpenArchive ==
    /\ call.at = "zipping"
    /\ archive' = Partial
    /\ call' = [call EXCEPT !.at = "writing"]
    /\ UNCHANGED <<exists, files, yaml, packages, owner, made>>

(* status.yaml is the first file after the samples.                            *)
WriteStatus ==
    /\ call.at = "writing"
    /\ archive' = [status |-> call.status, files |-> NoFiles, closed |-> FALSE,
                   sound |-> owner[call.status.directory] = call.slot, whole |-> FALSE]
    /\ call' = [call EXCEPT !.at = "adding"]
    /\ UNCHANGED <<exists, files, yaml, packages, owner, made>>

(* Fault: the search for the best models is dropped.                           *)
ExportedFilesToSave(st) == {m \in Exported : files[st.directory][m] # Absent}

(* _get_models_paths_to_save: exported models and the best ones, if there.     *)
FilesToSave(st) ==
    {m \in Exported \cup st.best : files[st.directory][m] # Absent}

AddModel(m) ==
    /\ call.at = "adding"
    /\ m \in FilesToSave(call.status)
    /\ archive.files[m] = Absent
    /\ archive' = [archive EXCEPT !.files[m] = files[call.status.directory][m]]
    /\ UNCHANGED <<exists, files, yaml, packages, owner, call, made>>

CloseArchive ==
    /\ call.at = "adding"
    /\ \A m \in FilesToSave(call.status) : archive.files[m] # Absent
    /\ archive' = [archive EXCEPT !.closed = TRUE, !.whole = call.status.whole]
    /\ call' = Idle
    /\ UNCHANGED <<exists, files, yaml, packages, owner, made>>

-----------------------------------------------------------------------------
Readable == archive \notin {Absent, Partial} /\ archive.closed

(* package.load: the workspace is initialised before the archive is opened.    *)
Load(t, d) ==
    /\ call = Idle
    /\ InitializeWorkspace(d)
    /\ IF Readable
         THEN call' = [at |-> "extracting", slot |-> t, saving |-> FALSE,
                       status |-> [archive.status EXCEPT !.directory = d,
                                                         !.whole = archive.whole]]
         ELSE UNCHANGED call
    /\ UNCHANGED <<archive, packages, made>>

(* extractall, over what the workspace holds; then the package is returned.    *)
Extracted(members) ==
    [m \in Models |-> IF m \in members /\ archive.files[m] # Absent
                      THEN archive.files[m] ELSE files[call.status.directory][m]]

Extract ==
    /\ call.at = "extracting"
    /\ LET d == call.status.directory
       IN  /\ files' = [files EXCEPT ![d] = Extracted(Models)]
           /\ yaml' = [yaml EXCEPT ![d] = archive.status.id]
           /\ packages' = [packages EXCEPT ![call.slot] = call.status]
           /\ owner' = [e \in Directories |->
                          IF e = d /\ archive.sound THEN call.slot
                          ELSE IF owner[e] = call.slot THEN Absent ELSE owner[e]]
    /\ call' = Idle
    /\ UNCHANGED <<exists, archive, made>>

(* extractall raises, or the process is killed in it, after some members.      *)
ExtractSome ==
    /\ call.at = "extracting"
    /\ \E members \in SUBSET Models :
         files' = [files EXCEPT ![call.status.directory] = Extracted(members)]
    /\ yaml' = [yaml EXCEPT ![call.status.directory] = archive.status.id]
    /\ call' = Idle
    /\ UNCHANGED <<exists, archive, packages, owner, made>>

-----------------------------------------------------------------------------
(* The user removes a workspace between two calls.                             *)
RemoveWorkspace(d) ==
    /\ call = Idle
    /\ exists[d]
    /\ exists' = [exists EXCEPT ![d] = FALSE]
    /\ files' = [files EXCEPT ![d] = NoFiles]
    /\ yaml' = [yaml EXCEPT ![d] = Absent]
    /\ owner' = [owner EXCEPT ![d] = Absent]
    /\ UNCHANGED <<archive, packages, call, made>>

(* The call ends with an exception.  The with statement around the ZipFile     *)
(* closes it all the same: what was written so far is a readable archive.      *)
Raise ==
    /\ call # Idle
    /\ archive' = IF call.at = "adding" THEN [archive EXCEPT !.closed = TRUE]
                  ELSE archive
    /\ call' = Idle
    /\ UNCHANGED <<exists, files, yaml, packages, owner, made>>

(* The process ends; only what is on the disk remains.                         *)
Kill ==
    /\ packages' = [s \in Slots |-> Absent]
    /\ owner' = [d \in Directories |-> Absent]
    /\ call' = Idle
    /\ UNCHANGED <<exists, files, yaml, archive, made>>

Next ==
    \/ \E t \in Slots, d \in Directories : Optimize(t, d) \/ Load(t, d)
    \/ \E s, t \in Slots : PackageOptimize(s, t)
    \/ \E s \in Slots : Save(s) \/ SaveRefused(s)
    \/ \E m \in Models : AddModel(m)
    \/ \E d \in Directories : RemoveWorkspace(d)
    \/ RunPipelines
    \/ DeleteStatusFile \/ OpenStatusFile \/ DumpStatus \/ ReturnPackage
    \/ OpenArchive \/ WriteStatus \/ CloseArchive
    \/ Extract \/ ExtractSome
    \/ Raise \/ Kill

Spec == Init /\ [][Next]_vars

-----------------------------------------------------------------------------
(* Measurements agree with files, where there are files.                       *)
Agree(measured, onDisk) ==
    \A m \in Models : measured[m] # Absent => onDisk[m] \in {Absent, measured[m]}

Owns(s) == packages[s] # Absent /\ owner[packages[s].directory] = s

(* A package whose workspace no other call has taken since never serves        *)
(* another file in the place of one it measured: get_runner hands out a model  *)
(* file by its path alone, after any sequence of optimizations, saves, loads,  *)
(* exceptions and kills, in this process and the ones before it.               *)
ServesWhatWasMeasured ==
    \A s \in Slots : Owns(s) =>
        Agree(packages[s].measured, files[packages[s].directory])

(* Nor is the best model missing for the two strategies save looks for, unless *)
(* the package comes from an archive whose save was cut off: what save puts in *)
(* the archive and load takes out of it is enough, over any number of          *)
(* generations of archives.                                                    *)
BestIsThere ==
    \A s \in Slots : Owns(s) /\ packages[s].whole =>
        \A m \in packages[s].best : files[packages[s].directory][m] # Absent

(* The status.yaml in the workspace of such a package is its own or is not     *)
(* whole: LoadMetadata of a later package.optimize never reads the metadata of *)
(* another model.                                                              *)
MetadataIsOwn ==
    \A s \in Slots : Owns(s) =>
        yaml[packages[s].directory] \in {Absent, Partial, packages[s].id}
=============================================================================
