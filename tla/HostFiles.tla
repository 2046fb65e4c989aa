------------------------------ MODULE HostFiles ------------------------------
(***************************************************************************)
(* The files that a gateway reads when it starts and that commands write    *)
(* while it runs or after it crashed: the savings ledger with its last-good *)
(* copy (wayfinder-service/src/pricing.rs, load_savings_ledger in           *)
(* wayfinder-cli/src/lib.rs), the directories of the projects that a        *)
(* machine owns (wayfinder-cli/src/project_command.rs) and the private      *)
(* store of the Codex helper (wayfinder-cli/src/codex_app_server.rs and     *)
(* wayfinder-codex-app-server/src/process.rs).                              *)
(*                                                                         *)
(* A step is one file operation, a crash may fall between any two, and a    *)
(* write that a crash interrupts leaves a torn file.  The ledger is its     *)
(* realized total; a project is a manifest and a profile.  The ledger's     *)
(* files have two writers: the serving gateway, which saves after each turn *)
(* under the mutex of its ledger, and the loader, which reads, repairs and  *)
(* saves them at the start and again at every reload of the configuration,  *)
(* with a ledger and a mutex of its own.                                   *)
(***************************************************************************)
EXTENDS Integers, FiniteSetsExt

CONSTANTS
  Commands,    \* project commands that may run at once
  Projects,    \* repositories set up on this machine
  MaxSpend,    \* bound on the spend recorded
  MaxReloads,  \* bound on reloads of the configuration
  MaxCrashes,  \* bound on crashes of the gateway and of commands
  Servers,     \* gateways of this user that share the helper's store
  MaxMeddles   \* bound on changes the user makes to that store

VARIABLES
  up,          \* the gateway serves
  ledger,      \* its total in memory
  owed,        \* turns recorded whose persist_savings has not begun
  loaded,      \* the total of the loader's ledger
  writer,      \* what each writer is doing with the ledger's files
  snapshot,    \* the total each writer's save is writing
  handle,      \* where the file each writer has open is by now
  source,      \* the content each writer's copy reads
  path,        \* the ledger's file
  backup,      \* its .last-good copy
  temporary,   \* its .tmp file, the same for both writers
  saved,       \* totals of the last two saves that completed, newest first
  corrupted,   \* the disk has damaged the ledger's file
  cut,         \* a fault struck while the last-good copy was not good
  race,        \* the writers overlapped: "now", "past" before the present save, "none"
  reloads,
  visible,     \* project directories: the files each holds, NoDir if absent
  job,         \* each project command: its place, project and staged files
  merged,      \* projects whose keys the running gateway accepts
  spoilt,      \* a rollback failed midway through removing a directory
  crashes,
  home,        \* the helper's store: its mode and what it holds
  server,      \* each gateway: its place, its staged store, its helper's view
  meddles

historyVars == <<saved, corrupted, cut>>
ledgerVars == <<up, ledger, owed, loaded, writer, snapshot, handle, source, path, backup, temporary,
                historyVars, race, reloads>>
projectVars == <<visible, job, merged, spoilt>>
storeVars == <<home, server, meddles>>
fileVars == <<ledgerVars, projectVars, crashes>>

Absent == -1
Torn == -2
Intact(file) == file >= 0

-----------------------------------------------------------------------------
(* Saving the ledger: write and sync a temporary file, copy the current file *)
(* to the last-good one, rename the temporary over the file.                *)

Writers == {"gateway", "loader"}
Other(w) == IF w = "gateway" THEN "loader" ELSE "gateway"
Busy(w) == writer[w] # "idle"
Goes(w, place) == writer' = [writer EXCEPT ![w] = place]
SameFiles == UNCHANGED <<path, backup, temporary>>

\* A step beside the other writer's.
Overlap(w) == race' = IF Busy(Other(w)) THEN "now" ELSE race

\* What a write leaves when the other writer may have the same file open.
Left(w, content) == IF Busy(Other(w)) THEN {content, Torn} ELSE {content}

\* The handle of the other writer when a file is renamed over the path, or away.
Moved(w, moves) ==
  handle' = [handle EXCEPT ![w] = "none",
                           ![Other(w)] = IF @ \in DOMAIN moves THEN moves[@] ELSE @]
Replacing == [f \in {"temporary", "path"} |-> IF f = "temporary" THEN "path" ELSE "gone"]
Removing == [f \in {"path"} |-> "gone"]

\* A turn is recorded, whatever the writers are doing; persist_savings follows.
Spend ==
  /\ up /\ ledger < MaxSpend
  /\ ledger' = ledger + 1 /\ owed' = owed + 1
  /\ UNCHANGED <<up, loaded, writer, snapshot, handle, source, historyVars, race, reloads>> /\ SameFiles

Saves(w) == IF w = "gateway" THEN up /\ writer[w] = "idle" /\ owed > 0 ELSE writer[w] = "save"

\* The temporary file is truncated before it is written.
save_open(w) ==
  /\ Saves(w)
  /\ snapshot' = [snapshot EXCEPT ![w] = IF w = "gateway" THEN ledger ELSE loaded]
  /\ owed' = IF w = "gateway" THEN owed - 1 ELSE owed
  /\ temporary' = Torn
  /\ handle' = [handle EXCEPT ![w] = "temporary"]
  /\ Goes(w, "write")
  /\ race' = IF Busy(Other(w)) THEN "now" ELSE IF w = "gateway" /\ race = "now" THEN "past" ELSE race
  /\ UNCHANGED <<up, ledger, loaded, source, path, backup, historyVars, reloads>>

\* The temporary file is not synchronised before it is renamed.
BUG_save_write(w) ==
  /\ writer[w] = "write"
  /\ \E content \in {snapshot[w], Torn} :
       /\ temporary' = IF handle[w] = "temporary" THEN content ELSE temporary
       /\ path' = IF handle[w] = "path" THEN content ELSE path
  /\ Goes(w, IF path = Absent THEN "rename" ELSE "copy")
  /\ Overlap(w)
  /\ UNCHANGED <<up, ledger, owed, loaded, snapshot, handle, source, backup, historyVars, reloads>>
\* The write goes to the file that was opened, under the name it has by now.
save_write(w) ==
  /\ writer[w] = "write"
  /\ \E content \in Left(w, snapshot[w]) :
       /\ temporary' = IF handle[w] = "temporary" THEN content ELSE temporary
       /\ path' = IF handle[w] = "path" THEN content ELSE path
  /\ Goes(w, IF path = Absent THEN "rename" ELSE "copy")
  /\ Overlap(w)
  /\ UNCHANGED <<up, ledger, owed, loaded, snapshot, handle, source, backup, historyVars, reloads>>

\* The gateway ignores the error of a save; the loader's rejects the reload, or
\* the start.
SaveFails(w) ==
  /\ Goes(w, "idle")
  /\ handle' = [handle EXCEPT ![w] = "none"]
  /\ Overlap(w)
  /\ UNCHANGED <<up, ledger, owed, loaded, snapshot, source, historyVars, reloads>> /\ SameFiles

save_copy_open(w) ==
  /\ writer[w] = "copy"
  /\ \/ path = Absent /\ SaveFails(w)
     \/ /\ path # Absent
        /\ source' = [source EXCEPT ![w] = path]
        /\ backup' = Torn
        /\ Goes(w, "copying")
        /\ Overlap(w)
        /\ UNCHANGED <<up, ledger, owed, loaded, snapshot, handle, path, temporary, historyVars, reloads>>

save_copy(w) ==
  /\ writer[w] = "copying"
  /\ backup' \in Left(w, source[w])
  /\ Goes(w, "rename")
  /\ Overlap(w)
  /\ UNCHANGED <<up, ledger, owed, loaded, snapshot, handle, source, path, temporary, historyVars, reloads>>

\* A save that had the files to itself, of the total that counts.
Alone(w) == ~Busy(Other(w)) /\ race # "now" /\ (w = "gateway" \/ ~up)

\* The loader's ledger becomes the gateway's at the start; a reload drops it and
\* keeps the running one.
save_rename(w) ==
  /\ writer[w] = "rename"
  /\ \/ temporary = Absent /\ SaveFails(w)
     \/ /\ temporary # Absent
        /\ path' = temporary /\ temporary' = Absent
        /\ Moved(w, Replacing)
        /\ saved' = <<snapshot[w], IF race = "none" THEN saved[1] ELSE 0>>
        /\ corrupted' = FALSE
        /\ Goes(w, "idle")
        /\ race' = IF Alone(w) THEN "none" ELSE IF Busy(Other(w)) THEN "now" ELSE race
        /\ up' = TRUE
        /\ ledger' = IF up THEN ledger ELSE loaded
        /\ UNCHANGED <<owed, loaded, snapshot, source, backup, cut, reloads>>

-----------------------------------------------------------------------------
(* The loader: load_resilient, then one save.                               *)

load_savings_ledger ==
  /\ writer["loader"] = "idle" /\ (up => reloads < MaxReloads)
  /\ reloads' = IF up THEN reloads + 1 ELSE reloads
  /\ IF path = Torn
     THEN Goes("loader", "quarantine") /\ UNCHANGED loaded
     ELSE /\ loaded' = IF path = Absent THEN 0 ELSE path
          /\ Goes("loader", "save")
  /\ Overlap("loader")
  /\ UNCHANGED <<up, ledger, owed, snapshot, handle, source, historyVars>> /\ SameFiles

\* The damaged file is renamed away before the last-good copy is looked at.
quarantine ==
  /\ writer["loader"] = "quarantine"
  /\ path' = Absent
  /\ Moved("loader", Removing)
  /\ Goes("loader", "recover")
  /\ Overlap("loader")
  /\ UNCHANGED <<up, ledger, owed, loaded, snapshot, source, backup, temporary, historyVars, reloads>>

\* Without a readable last-good copy the start, or the reload, fails.
recover_refused ==
  /\ writer["loader"] = "recover" /\ ~Intact(backup)
  /\ Goes("loader", "idle")
  /\ cut' = TRUE
  /\ Overlap("loader")
  /\ UNCHANGED <<up, ledger, owed, loaded, snapshot, handle, source, saved, corrupted, reloads>>
  /\ SameFiles

recover_open ==
  /\ writer["loader"] = "recover" /\ Intact(backup)
  /\ loaded' = backup
  /\ source' = [source EXCEPT !["loader"] = backup]
  /\ path' = Torn
  /\ handle' = [handle EXCEPT !["loader"] = "path"]
  /\ Goes("loader", "recovering")
  /\ Overlap("loader")
  /\ UNCHANGED <<up, ledger, owed, snapshot, backup, temporary, historyVars, reloads>>

\* From here on the recovered total counts as the last one saved.
recover_copy ==
  /\ writer["loader"] = "recovering"
  /\ IF handle["loader"] = "path" THEN path' \in Left("loader", source["loader"]) ELSE UNCHANGED path
  /\ handle' = [handle EXCEPT !["loader"] = "none"]
  /\ saved' = <<loaded, loaded>> /\ corrupted' = FALSE
  /\ Goes("loader", "save")
  /\ Overlap("loader")
  /\ UNCHANGED <<up, ledger, owed, loaded, snapshot, source, backup, temporary, cut, reloads>>

\* The last-good copy is being replaced, or replaces the file.  A save copies
\* the file without reading it, so a damaged file becomes the last-good copy.
Exposed ==
  \E w \in Writers : \/ writer[w] \in {"copying", "recover", "recovering"}
                     \/ corrupted /\ writer[w] = "rename"

\* A crash of the gateway, or of the machine.
CrashGateway ==
  /\ up \/ Busy("loader")
  /\ crashes < MaxCrashes
  /\ crashes' = crashes + 1
  /\ up' = FALSE /\ ledger' = 0 /\ owed' = 0
  /\ writer' = [w \in Writers |-> "idle"] /\ handle' = [w \in Writers |-> "none"]
  /\ cut' = (cut \/ Exposed)
  /\ merged' = {}
  /\ UNCHANGED <<loaded, snapshot, source, path, backup, temporary, saved, corrupted, race, reloads>>
  /\ UNCHANGED <<visible, job, spoilt>>

\* The disk damages the file once it has been written.
Damage ==
  /\ up /\ (\A w \in Writers : ~Busy(w)) /\ Intact(path)
  /\ path' = Torn /\ corrupted' = TRUE
  /\ cut' = (cut \/ backup = Torn)
  /\ UNCHANGED <<up, ledger, owed, loaded, writer, snapshot, handle, source, backup, temporary, saved, race,
                 reloads>>

LedgerStep ==
  \/ \E w \in Writers :
       save_open(w) \/ save_write(w) \/ save_copy_open(w) \/ save_copy(w) \/ save_rename(w)
  \/ Spend \/ load_savings_ledger \/ quarantine \/ recover_refused \/ recover_open \/ recover_copy
  \/ Damage

-----------------------------------------------------------------------------
(* Projects.  Setup writes both files into a hidden staging directory and    *)
(* renames it; rollback renames the directory away and removes it.  No lock  *)
(* orders two commands.                                                     *)

Files == {"manifest", "profile"}
NoDir == {"absent"}
NoProject == "none"
NoCommand == [at |-> "free", project |-> NoProject, files |-> {}]

\* A directory that is not hidden and has no readable manifest is an error for
\* every command that walks the directories, and for the gateway.
Owned(p) == visible[p] # NoDir /\ "manifest" \in visible[p]
AllOwned == \A p \in Projects : visible[p] # NoDir => Owned(p)

\* An existing directory leaves setup with nothing to change.
setup(c, p) ==
  /\ job[c] = NoCommand
  /\ visible[p] = NoDir
  /\ job' = [job EXCEPT ![c] = [at |-> "profile", project |-> p, files |-> {}]]
  /\ UNCHANGED <<visible, merged, spoilt>>

write_profile(c) ==
  /\ job[c].at = "profile"
  /\ job' = [job EXCEPT ![c].files = @ \cup {"profile"}, ![c].at = "manifest"]
  /\ UNCHANGED <<visible, merged, spoilt>>

write_manifest(c) ==
  /\ job[c].at = "manifest"
  /\ job' = [job EXCEPT ![c].files = @ \cup {"manifest"}, ![c].at = "activate"]
  /\ UNCHANGED <<visible, merged, spoilt>>

\* The rename refuses to replace a directory that another setup made first; the
\* staged files are then removed.
write_project_atomically(c) ==
  /\ job[c].at = "activate"
  /\ visible' = IF visible[job[c].project] = NoDir
                THEN [visible EXCEPT ![job[c].project] = job[c].files] ELSE visible
  /\ job' = [job EXCEPT ![c] = NoCommand]
  /\ UNCHANGED <<merged, spoilt>>

rollback(c, p) ==
  /\ job[c] = NoCommand
  /\ AllOwned /\ Owned(p)
  /\ job' = [job EXCEPT ![c] = [at |-> "quarantine", project |-> p, files |-> {}]]
  /\ UNCHANGED <<visible, merged, spoilt>>

rollback_rename(c) ==
  /\ job[c].at = "quarantine"
  /\ LET p == job[c].project
     IN IF visible[p] = NoDir
        THEN job' = [job EXCEPT ![c] = NoCommand] /\ UNCHANGED visible
        ELSE /\ job' = [job EXCEPT ![c].at = "remove", ![c].files = visible[p]]
             /\ visible' = [visible EXCEPT ![p] = NoDir]
  /\ UNCHANGED <<merged, spoilt>>

rollback_remove(c) ==
  /\ job[c].at = "remove"
  /\ job' = [job EXCEPT ![c] = NoCommand]
  /\ UNCHANGED <<visible, merged, spoilt>>

\* The removal fails after some of the files are gone: what is left is renamed
\* back, unless a new setup has taken the place.
rollback_restore(c) ==
  /\ job[c].at = "remove"
  /\ visible[job[c].project] = NoDir
  /\ \E left \in SUBSET job[c].files :
       /\ visible' = [visible EXCEPT ![job[c].project] = left]
       /\ spoilt' = (spoilt \/ left # job[c].files)
  /\ job' = [job EXCEPT ![c] = NoCommand]
  /\ UNCHANGED merged

\* A command dies: its hidden directory stays and nobody reads it.
CrashCommand(c) ==
  /\ job[c] # NoCommand /\ crashes < MaxCrashes
  /\ crashes' = crashes + 1
  /\ job' = [job EXCEPT ![c] = NoCommand]
  /\ UNCHANGED <<ledgerVars, visible, merged, spoilt>>

\* Load every visible directory into the running gateway, or keep what it has:
\* one unreadable directory fails the whole reload.
merge_owned_projects ==
  /\ up \/ writer["loader"] \notin {"idle", "quarantine", "recover", "recovering"}
  /\ \A p \in Projects : visible[p] \in {NoDir, Files}
  /\ merged' = {p \in Projects : visible[p] = Files}
  /\ merged' # merged
  /\ UNCHANGED <<visible, job, spoilt>>

ProjectStep ==
  \/ \E c \in Commands :
       \/ \E p \in Projects : setup(c, p) \/ rollback(c, p)
       \/ write_profile(c) \/ write_manifest(c) \/ write_project_atomically(c)
       \/ rollback_rename(c) \/ rollback_remove(c) \/ rollback_restore(c)
  \/ merge_owned_projects

-----------------------------------------------------------------------------

FilesInit ==
  /\ up = FALSE /\ ledger = 0 /\ owed = 0 /\ loaded = 0
  /\ writer = [w \in Writers |-> "idle"] /\ snapshot = [w \in Writers |-> 0]
  /\ handle = [w \in Writers |-> "none"] /\ source = [w \in Writers |-> Absent]
  /\ path = Absent /\ backup = Absent /\ temporary = Absent
  /\ saved = <<0, 0>> /\ corrupted = FALSE /\ cut = FALSE
  /\ race = "none" /\ reloads = 0
  /\ visible = [p \in Projects |-> NoDir]
  /\ job = [c \in Commands |-> NoCommand]
  /\ merged = {} /\ spoilt = FALSE /\ crashes = 0

FilesNext ==
  \/ LedgerStep /\ UNCHANGED <<projectVars, crashes>>
  \/ ProjectStep /\ UNCHANGED <<ledgerVars, crashes>>
  \/ CrashGateway
  \/ \E c \in Commands : CrashCommand(c)

-----------------------------------------------------------------------------
(* The store of the Codex helper, which shares nothing with the files above. *)
(* A gateway makes it in a hidden directory that it renames into place, and  *)
(* each start of the helper verifies it and adds what is missing.  A file or  *)
(* directory is "private" when it has the right kind, owner and mode, one     *)
(* link and no access list.                                                  *)

isolated_config == "isolated"
NoStore ==
  [mode |-> "none", marker |-> "none", config |-> "none", auth |-> "none",
   workspace |-> "none", scratch |-> "none"]
NoServer == [at |-> "off", made |-> FALSE, staged |-> NoStore, view |-> NoStore]
Working == {s \in Servers : server[s].at \notin {"off", "ready", "running"}}

Goto(s, at) == server' = [server EXCEPT ![s].at = at, ![s].made = FALSE]
Stage(s, at, staged) ==
  server' = [server EXCEPT ![s].at = at, ![s].staged = staged]

verify_private_directory(d) == d.mode = "private"
verify_store_marker(d) == d.marker = "private"
\* The mode of a new directory before it is made private, by the umask.
Created == {"open", "private"}

\* An existing store is verified, never changed; without one, a staging
\* directory is made beside its place.
prepare_owned_store(s) ==
  /\ server[s].at = "off"
  /\ \/ /\ verify_private_directory(home) /\ verify_store_marker(home)
        /\ Goto(s, "chat")
     \/ /\ home.mode = "none"
        /\ \E mode \in Created : Stage(s, "stage", [NoStore EXCEPT !.mode = mode])
  /\ UNCHANGED home

stage_private(s) ==
  /\ server[s].at = "stage"
  /\ Stage(s, "marker", [server[s].staged EXCEPT !.mode = "private"])
  /\ UNCHANGED home

create_store_marker(s) ==
  /\ server[s].at = "marker"
  /\ IF server[s].staged.marker = "none"
     THEN Stage(s, "marker", [server[s].staged EXCEPT !.marker = "torn"])
     ELSE Stage(s, "rename", [server[s].staged EXCEPT !.marker = "private"])
  /\ UNCHANGED home

\* A directory can be renamed over an empty one, and over nothing else.
rename_store(s) ==
  /\ server[s].at = "rename"
  /\ LET free == home = [NoStore EXCEPT !.mode = home.mode]
         placed == IF free THEN server[s].staged ELSE home
     IN /\ home' = placed
        /\ server' = [server EXCEPT
             ![s].staged = NoStore,
             ![s].at = IF free /\ verify_private_directory(placed) /\ verify_store_marker(placed)
                       THEN "chat" ELSE "off"]

\* Each place that needs a private directory: the directory, what follows when
\* it is private, and where a refusal leaves the gateway.  The gateway makes
\* the workspace ("chat"); a start of the helper looks at all three.
Needs ==
  [chat |-> <<"workspace", "ready", "off">>, home |-> <<"mode", "work", "ready">>,
   work |-> <<"workspace", "auth", "ready">>, scratch |-> <<"scratch", "spawn", "ready">>]

verify_private_directory_metadata(mode) == mode \in {"private", "used"}
verify_empty_directory(mode) == mode # "used"
verify_private_file_metadata(mode) == mode # "open"

\* Create a missing directory, then make it private; refuse one that is not
\* private already.
MakePrivate(s) ==
  LET need == Needs[server[s].at]
      dir == home[need[1]]
  IN CASE server[s].made ->
            home' = [home EXCEPT ![need[1]] = "private"] /\ Goto(s, need[2])
       [] dir = "none" ->
            /\ \E mode \in Created : home' = [home EXCEPT ![need[1]] = mode]
            /\ server' = [server EXCEPT ![s].made = TRUE]
       [] OTHER ->
            /\ Goto(s, IF verify_private_directory_metadata(dir) /\ verify_empty_directory(dir)
                       THEN need[2] ELSE need[3])
            /\ UNCHANGED home

prepare_private_directory(s) == server[s].at = "chat" /\ MakePrivate(s)
create_private_directory(s) == server[s].at \in {"home", "work", "scratch"} /\ MakePrivate(s)

\* The helper starts on demand, when the last one has ended.
spawn_process(s) ==
  /\ server[s].at = "ready"
  /\ Goto(s, "home")
  /\ UNCHANGED home

verify_private_file_or_absent(s) ==
  /\ server[s].at = "auth"
  /\ Goto(s, IF verify_private_file_metadata(home.auth) THEN "config" ELSE "ready")
  /\ UNCHANGED home

\* An existing configuration must be the isolated one to the byte.
prepare_isolated_config(s) ==
  /\ server[s].at = "config"
  /\ CASE server[s].made -> home' = [home EXCEPT !.config = isolated_config] /\ Goto(s, "scratch")
       [] home.config = "none" ->
            home' = [home EXCEPT !.config = "torn"] /\ server' = [server EXCEPT ![s].made = TRUE]
       [] OTHER ->
            /\ Goto(s, IF home.config = isolated_config THEN "scratch" ELSE "ready")
            /\ UNCHANGED home

start_helper(s) ==
  /\ server[s].at = "spawn"
  /\ server' = [server EXCEPT ![s].at = "running", ![s].view = home]
  /\ UNCHANGED home

\* The helper stores the credentials of a login.
StoreCredentials(s) ==
  /\ server[s].at = "running" /\ home.mode # "none"
  /\ \E mode \in Created : home' = [home EXCEPT !.auth = mode]
  /\ UNCHANGED server

\* A reported login ends the helper unless the store is still private; so does
\* any other failure.
verify_auth_store_permissions(s) ==
  /\ server[s].at = "running"
  /\ ~(verify_private_directory(home) /\ home.auth = "private")
  /\ Goto(s, "ready")
  /\ UNCHANGED home

\* A reload builds a new adapter and a gateway may stop; one that is at work dies,
\* or gives up because a file operation failed.
Restart(s) ==
  /\ server[s] # NoServer
  /\ \/ s \notin Working /\ UNCHANGED crashes
     \/ s \in Working /\ crashes < MaxCrashes /\ crashes' = crashes + 1
  /\ server' = [server EXCEPT ![s] = NoServer]
  /\ UNCHANGED <<home, meddles>>

\* The user removes the store, or changes something in it, while no gateway is
\* at work on it.
Meddle ==
  /\ Working = {} /\ home.mode # "none" /\ meddles < MaxMeddles
  /\ meddles' = meddles + 1
  /\ home' \in {NoStore, [home EXCEPT !.mode = "open"], [home EXCEPT !.marker = "none"],
                [home EXCEPT !.config = "none"], [home EXCEPT !.config = "edited"],
                [home EXCEPT !.workspace = "used"]}
  /\ UNCHANGED <<server, crashes>>

StoreInit ==
  /\ home = NoStore
  /\ server = [s \in Servers |-> NoServer]
  /\ meddles = 0

StoreStep(s) ==
  \/ prepare_owned_store(s) \/ stage_private(s) \/ create_store_marker(s) \/ rename_store(s)
  \/ prepare_private_directory(s) \/ create_private_directory(s) \/ spawn_process(s)
  \/ verify_private_file_or_absent(s) \/ prepare_isolated_config(s) \/ start_helper(s) \/ StoreCredentials(s)
  \/ verify_auth_store_permissions(s)

StoreNext ==
  \/ \E s \in Servers : StoreStep(s) /\ UNCHANGED <<meddles, crashes>>
  \/ \E s \in Servers : Restart(s)
  \/ Meddle

HostSpec ==
  /\ FilesInit /\ StoreInit
  /\ [][(FilesNext /\ UNCHANGED storeVars) \/ (StoreNext /\ UNCHANGED <<ledgerVars, projectVars>>)]_<<fileVars, storeVars>>

-----------------------------------------------------------------------------

\* What a start would load of the ledger's files as they are.
Loads ==
  CASE Intact(path) -> path
    [] path = Absent -> 0
    [] OTHER -> Max({backup, 0})

Expected == IF corrupted THEN saved[2] ELSE saved[1]
Faultless == ~cut /\ (corrupted => ~Exposed)
LedgerIsWhole == race = "none" /\ Faultless => Loads >= Expected

\* The claim without its exception for overlapping writers, which does not hold:
\* a reload that loads and saves the ledger while the gateway saves it writes an
\* older total back, or shares the temporary file with it and installs a torn one.
LedgerSurvivesReload == Faultless => Loads >= Expected

ProjectsAreWhole == ~spoilt => \A p \in Projects : visible[p] \in {NoDir, Files}

StoreIsWhole ==
  /\ meddles = 0 /\ home.mode # "none" =>
       verify_private_directory(home) /\ verify_store_marker(home)
  /\ \A s \in Servers : server[s].at = "running" =>
       /\ server[s].view.config = isolated_config
       /\ \A d \in {"mode", "workspace", "scratch"} : server[s].view[d] = "private"

\* Whatever command or save a crash interrupts, the next start finds its files
\* whole.  The recorded spend is the last completed save, or, when the disk
\* damaged the file, the save before it, as long as no fault strikes while the
\* last-good copy is itself not good, and as long as no reload's load and save of
\* the ledger overlapped a save of the serving gateway that the gateway has not
\* since repeated alone; every project directory that is not hidden holds both
\* files, as long as no rollback failed midway; and a helper's store that the user
\* left alone is private and carries its marker, and a helper only ever ran with
\* the isolated configuration in private directories.
StartFindsWholeFiles == LedgerIsWhole /\ ProjectsAreWhole /\ StoreIsWhole
=============================================================================
