---------------------------- MODULE Marketplace ----------------------------
(****************************************************************************)
(* Installing, uninstalling and calling one pack of the marketplace         *)
(* (internal/marketplace): its files under HELMDECK_PACKS_DIR, the versions *)
(* the live registry can call, and the install record.  Each of the three   *)
(* has its own lock or none; nothing holds them together, so the steps of   *)
(* two requests interleave, and calls read the files while they change.     *)
(* The source is a git repository, cloned anew by every install.            *)
(****************************************************************************)
EXTENDS Naturals

CONSTANTS
  Errands,     \* install, uninstall and pack-call requests
  Releases,    \* bound: versions the author may publish, numbered from 1
  Parts,       \* the files of the pack
  Entrypoint   \* the one that handler.command names

ASSUME MarketAssumption == Releases \in Nat \ {0} /\ Entrypoint \in Parts

VARIABLES
  published,   \* the version on the default branch
  catalogue,   \* "none" before the first refresh; the index "lists" the pack or "lacks" it
  signed,      \* the manifests declare trust.sha256
  files,       \* the version each file in the pack's directory is of, 0 for no file
  registered,  \* the versions in the pack registry
  recorded,    \* the version in i.installed, 0 for none
  errand,      \* where each request is
  intact       \* history: no directory was touched since an install ran alone

marketVars == <<published, catalogue, signed, files, registered, recorded, errand, intact>>

-----------------------------------------------------------------------------
NoFiles == [p \in Parts |-> 0]
Waiting == [at |-> "waiting", version |-> 0, left |-> {}, parts |-> NoFiles, alone |-> FALSE]

MarketInit ==
  /\ published = 1 /\ catalogue = "none" /\ signed \in BOOLEAN
  /\ files = NoFiles /\ registered = {} /\ recorded = 0
  /\ errand = [e \in Errands |-> Waiting] /\ intact = FALSE

Over == {"waiting", "over", "ran"}
Busy == {e \in Errands : errand[e].at \notin Over}
Move(e, place) == errand' = [errand EXCEPT ![e].at = place]
\* alone: no other request was under way at any moment of this one.
Start(e, place, v) ==
  /\ errand[e].at = "waiting"
  /\ errand' = [d \in Errands |->
       IF d = e THEN [at |-> place, version |-> v, left |-> Parts, parts |-> NoFiles,
                      alone |-> Busy = {}]
       ELSE [errand[d] EXCEPT !.alone = @ /\ d \notin Busy]]
\* os.RemoveAll: of a directory it cannot remove some files are left.
RemoveAll == files' \in {f \in [Parts -> 0..Releases] : \A p \in Parts : f[p] \in {0, files[p]}}

-----------------------------------------------------------------------------
\* A commit to the default branch: a newer version, or an older one again.
Publish ==
  /\ published' \in (1..Releases) \ {published}
  /\ UNCHANGED <<catalogue, signed, files, registered, recorded, errand, intact>>

\* A refresh that fails keeps the last good index.
Refresh(found) ==
  /\ catalogue' = found
  /\ UNCHANGED <<published, signed, files, registered, recorded, errand, intact>>

\* Without a catalogue, or without the pack in it, an install is refused.
AskInstall(e) ==
  /\ Start(e, IF catalogue = "lists" THEN "manifest" ELSE "over", 0)
  /\ UNCHANGED <<published, catalogue, signed, files, registered, recorded, intact>>

\* The manifest is fetched from the default branch, and checked.
LoadManifest(e) ==
  /\ errand[e].at = "manifest"
  /\ \/ errand' = [errand EXCEPT ![e].at = "clean", ![e].version = published]
     \/ Move(e, "over")
  /\ UNCHANGED <<published, catalogue, signed, files, registered, recorded, intact>>

\* What an earlier install left is removed, a working installation included.
Clean(e) ==
  /\ errand[e].at = "clean"
  /\ \/ files' = NoFiles /\ Move(e, "clone")
     \/ RemoveAll /\ Move(e, "over")
  /\ intact' = FALSE
  /\ UNCHANGED <<published, catalogue, signed, registered, recorded>>

\* git clone takes what is published by now.
Clone(e) ==
  /\ errand[e].at = "clone"
  /\ \/ errand' = [errand EXCEPT ![e].at = "copy", ![e].parts = [p \in Parts |-> published]]
     \/ Move(e, "over")
  /\ UNCHANGED <<published, catalogue, signed, files, registered, recorded, intact>>

\* copyDir, file by file; when it fails the files copied so far stay.
CopyFile(e, p) ==
  /\ errand[e].at = "copy" /\ p \in errand[e].left
  /\ \/ /\ files' = [files EXCEPT ![p] = errand[e].parts[p]]
        /\ errand' = [errand EXCEPT ![e].left = @ \ {p},
                                    ![e].at = IF errand[e].left = {p} THEN "verify" ELSE "copy"]
     \/ Move(e, "over") /\ UNCHANGED files
  /\ UNCHANGED <<published, catalogue, signed, registered, recorded, intact>>

\* A declared hash must be that of the files; without one nothing is checked.
Hashed(v) == \A p \in Parts : files[p] = v
VerifyNothing(e) ==
  /\ errand[e].at = "verify"
  /\ Move(e, "build")
  /\ UNCHANGED <<published, catalogue, signed, files, registered, recorded, intact>>
VerifyTrust(e) ==
  /\ errand[e].at = "verify"
  /\ Move(e, IF signed /\ ~Hashed(errand[e].version) THEN "discard" ELSE "build")
  /\ UNCHANGED <<published, catalogue, signed, files, registered, recorded, intact>>

\* The entrypoint must be on disk.
BuildPack(e) ==
  /\ errand[e].at = "build"
  /\ Move(e, IF files[Entrypoint] # 0 THEN "register" ELSE "discard")
  /\ UNCHANGED <<published, catalogue, signed, files, registered, recorded, intact>>

\* Register refuses a version that is not of the form v<int>.
RegisterPack(e) ==
  /\ errand[e].at = "register"
  /\ \/ registered' = registered \cup {errand[e].version} /\ Move(e, "record")
     \/ Move(e, "discard") /\ UNCHANGED registered
  /\ UNCHANGED <<published, catalogue, signed, files, recorded, intact>>

\* A refused install removes the directory, whoever filled it.
Discard(e) ==
  /\ errand[e].at = "discard"
  /\ RemoveAll /\ Move(e, "over")
  /\ intact' = FALSE
  /\ UNCHANGED <<published, catalogue, signed, registered, recorded>>

Record(e) ==
  /\ errand[e].at = "record"
  /\ recorded' = errand[e].version
  /\ intact' = errand[e].alone
  /\ Move(e, "over")
  /\ UNCHANGED <<published, catalogue, signed, files, registered>>

-----------------------------------------------------------------------------
\* The record goes first, then the version it named, then the files.
Uninstall(e) ==
  /\ Start(e, IF recorded = 0 THEN "over" ELSE "unregister", recorded)
  /\ recorded' = 0
  /\ intact' = FALSE
  /\ UNCHANGED <<published, catalogue, signed, files, registered>>

Unregister(e) ==
  /\ errand[e].at = "unregister"
  /\ registered' = registered \ {errand[e].version}
  /\ Move(e, "remove")
  /\ UNCHANGED <<published, catalogue, signed, files, recorded, intact>>

RemoveInstallDir(e) ==
  /\ errand[e].at = "remove"
  /\ RemoveAll /\ Move(e, "over")
  /\ intact' = FALSE
  /\ UNCHANGED <<published, catalogue, signed, registered, recorded>>

-----------------------------------------------------------------------------
\* A call that names no version gets the newest one registered ...
Latest == CHOOSE v \in registered : \A w \in registered : w <= v
CallPack(e) ==
  /\ IF registered = {} THEN Start(e, "over", 0) ELSE Start(e, "upload", Latest)
  /\ UNCHANGED <<published, catalogue, signed, files, registered, recorded, intact>>

\* ... whose handler uploads what is in the directory, file by file, ...
UploadFile(e, p) ==
  /\ errand[e].at = "upload" /\ p \in errand[e].left
  /\ errand' = [errand EXCEPT ![e].left = @ \ {p}, ![e].parts[p] = files[p],
                              ![e].at = IF errand[e].left = {p} THEN "run" ELSE "upload"]
  /\ UNCHANGED <<published, catalogue, signed, files, registered, recorded, intact>>

\* ... makes the entrypoint executable and runs it; the sidecar may fail too.
RunHandler(e) ==
  /\ errand[e].at = "run"
  /\ \/ errand[e].parts[Entrypoint] # 0 /\ Move(e, "ran")
     \/ Move(e, "over")
  /\ UNCHANGED <<published, catalogue, signed, files, registered, recorded, intact>>

\* Registry and records are memory only; the files outlive the process.
Reboot ==
  /\ catalogue # "none" /\ catalogue' = "none"
  /\ registered' = {} /\ recorded' = 0 /\ intact' = FALSE
  /\ errand' = [e \in Errands |-> IF e \in Busy THEN [Waiting EXCEPT !.at = "over"] ELSE errand[e]]
  /\ UNCHANGED <<published, signed, files>>

MarketNext ==
  \/ Publish \/ Reboot
  \/ \E found \in {"lists", "lacks"} : Refresh(found)
  \/ \E e \in Errands :
       \/ AskInstall(e) \/ LoadManifest(e) \/ Clean(e) \/ Clone(e) \/ VerifyTrust(e)
       \/ BuildPack(e) \/ RegisterPack(e) \/ Discard(e) \/ Record(e)
       \/ Uninstall(e) \/ Unregister(e) \/ RemoveInstallDir(e)
       \/ CallPack(e) \/ RunHandler(e)
       \/ \E p \in Parts : CopyFile(e, p) \/ UploadFile(e, p)

MarketSpec == MarketInit /\ [][MarketNext]_marketVars

-----------------------------------------------------------------------------
\* What an install leaves, when it ran alone and until the directory is touched
\* again: the version it recorded can be called, all its files are there and,
\* when they are signed, of that version, although the author may publish
\* between manifest and clone.  (install.go:108-180)
InstalledIsWhole ==
  intact => /\ recorded \in registered
            /\ \A p \in Parts : files[p] # 0 /\ (signed => files[p] = recorded)

\* Not so of requests that overlap: "the caller holds the install-mutex via the
\* REST path" (install.go:245-246), but there is none.  TLC refutes this.
RecordedHasFiles ==
  recorded # 0 /\ Busy = {} => \A p \in Parts : files[p] # 0

\* Nor of what stays callable: Uninstall unregisters the recorded version only,
\* and an upgrade that fails removes the files of the one it was to replace.
\* TLC refutes this for a single request at a time.
CallableHasFiles ==
  registered # {} /\ Busy = {} => files[Entrypoint] # 0

\* Nor is the version installed last the one a call gets: Register adds a lower
\* version beside the higher one, whose calls run with the files of the lower.
\* TLC refutes this for an author who takes a version back.  (registry.go:40-57)
NewestIsInstalled ==
  intact => \A v \in registered : v <= recorded

\* A signed pack never runs from files of two versions.  Refuted with three
\* errands: an upgrade comes between the copies of one call.
RunsOneVersion ==
  \A e \in Errands :
    signed /\ errand[e].at = "ran" => \A p, q \in Parts : errand[e].parts[p] = errand[e].parts[q]
=============================================================================
