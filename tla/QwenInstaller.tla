------------------------------ MODULE QwenInstaller ------------------------------
(* The installation of the private Qwen3-TTS runtime                           *)
(* (services/tts/qwen_installer.py, called by api/config.py): a bundle is      *)
(* assembled in a directory of its own, verified, and takes the place of the   *)
(* former one by two renames. Each action is one change of the disk, because   *)
(* the process may die between any two of them and nothing repairs the         *)
(* directories at the next start.                                              *)
(*                                                                             *)
(* _replace_with_lock_retry and _remove_tree_with_lock_retry try again, at     *)
(* most five times, while Windows reports a lock. An attempt that fails        *)
(* changes nothing, so a replacement is one action that happens or raises.     *)
EXTENDS Naturals

CONSTANTS Requests,         \* the install requests, each made once
          Devices,          \* the runtimes a user may choose: CUDA, Vulkan, ...
          NoBundle,         \* nothing there
          Nobody,           \* the lock is free
          PackageRevision   \* PACKAGE_REVISION

(* Revisions count from 1; a package of revision 0 has metadata that cannot be *)
(* read or that no migration starts from.                                      *)
ASSUME InstallerAssumption ==
  /\ PackageRevision \in Nat \ {0}
  /\ NoBundle \notin [device : Devices, revision : 0 .. PackageRevision + 1,
                      parts : SUBSET {"runtime", "models", "bundle", "install"}]
  /\ Nobody \notin Requests

VARIABLES dest,      \* models/qwen3-tts
          staging,   \* the directory that each request assembles
          backup,    \* the former bundle, under the name the request gave it
          lock,      \* who has _qwen_install_lock
          pc,        \* where each request is
          device,    \* the runtime it asks for
          before     \* history: what was installed when it got the lock

vars == <<dest, staging, backup, lock, pc, device, before>>

(* runtime/ with its manifest, models/, bundle.json and install.json.          *)
Parts == {"runtime", "models", "bundle", "install"}
Bundles == [device : Devices, revision : 0 .. PackageRevision + 1, parts : SUBSET Parts]

(* A bundle the speech worker can use; one without install.json was put there  *)
(* by hand.                                                                    *)
Whole(b) == {"runtime", "models", "bundle"} \subseteq b.parts
Managed(b) == "install" \in b.parts
RevisionOf(b) == IF Managed(b) THEN b.revision ELSE 0

\* Faulty variant: whatever is installed is replaced.
AlwaysUpgradable(b) == TRUE

(* _validate_upgrade and migrate_install_metadata: never over a newer package, *)
(* nor over one whose metadata nobody understands.                             *)
Upgradable(b) == b # NoBundle /\ Managed(b) => b.revision \in 1 .. PackageRevision

Init ==
  /\ dest \in {NoBundle} \cup {b \in Bundles : Whole(b)}
  /\ staging = [r \in Requests |-> NoBundle]
  /\ backup = [r \in Requests |-> NoBundle]
  /\ lock = Nobody
  /\ pc = [r \in Requests |-> "new"]
  /\ device \in [Requests -> Devices]
  /\ before = [r \in Requests |-> NoBundle]

At(r, here) == pc[r] = here /\ lock = r
To(r, there) == pc' = [pc EXCEPT ![r] = there] /\ UNCHANGED lock

(* assemble_qwen_tts_bundle returns or raises and async with gives the lock    *)
(* back.                                                                       *)
Answer(r, outcome) == pc' = [pc EXCEPT ![r] = outcome] /\ lock' = Nobody

--------------------------------------------------------------------------------
(* install_qwen_tts: the lock, then a thread that assembles the bundle.        *)
Ask(r) ==
  /\ pc[r] = "new"
  /\ To(r, "waiting")
  /\ UNCHANGED <<dest, staging, backup, device, before>>

TakeLock(r) ==
  /\ pc[r] = "waiting"
  /\ lock = Nobody
  /\ lock' = r
  /\ pc' = [pc EXCEPT ![r] = "checking"]
  /\ before' = [before EXCEPT ![r] = dest]
  /\ UNCHANGED <<dest, staging, backup, device>>

(* The sources have the pinned checksums and the installed package may be      *)
(* replaced; the staging directory is made.                                    *)
BeginStaging(r) ==
  /\ At(r, "checking")
  /\ Upgradable(dest)
  /\ staging' = [staging EXCEPT ![r] = [device |-> device[r], revision |-> PackageRevision, parts |-> {}]]
  /\ To(r, "building")
  /\ UNCHANGED <<dest, backup, device, before>>

Refuse(r) ==
  /\ At(r, "checking")
  /\ Answer(r, "failed")
  /\ UNCHANGED <<dest, staging, backup, device, before>>

(* _extract_attested, the copies of the models and the two metadata files,     *)
(* each after the one before it.                                               *)
Follows == [runtime |-> {}, models |-> {"runtime"}, bundle |-> {"runtime", "models"},
            install |-> {"runtime", "models", "bundle"}]

Build(r) ==
  /\ At(r, "building")
  /\ \E p \in Parts :
       /\ staging[r].parts = Follows[p]
       /\ staging' = [staging EXCEPT ![r].parts = @ \cup {p}]
  /\ UNCHANGED <<dest, backup, lock, pc, device, before>>

(* A checksum, the disk or the archive is wrong, or the former bundle cannot   *)
(* be renamed: the error goes through the finally clause.                      *)
BuildFails(r) ==
  /\ At(r, "building")
  /\ To(r, "failing")
  /\ UNCHANGED <<dest, staging, backup, device, before>>

KeepFormer(r) ==
  /\ At(r, "building")
  /\ staging[r].parts = Parts
  /\ dest # NoBundle
  /\ backup' = [backup EXCEPT ![r] = dest]
  /\ dest' = NoBundle
  /\ To(r, "activating")
  /\ UNCHANGED <<staging, device, before>>

NothingToKeep(r) ==
  /\ At(r, "building")
  /\ staging[r].parts = Parts
  /\ dest = NoBundle
  /\ To(r, "activating")
  /\ UNCHANGED <<dest, staging, backup, device, before>>

Activate(r) ==
  /\ At(r, "activating")
  /\ dest' = staging[r]
  /\ staging' = [staging EXCEPT ![r] = NoBundle]
  /\ To(r, "activated")
  /\ UNCHANGED <<backup, device, before>>

\* Faulty variant: the error is only reported.
ActivationOnlyFails(r) ==
  /\ At(r, "activating")
  /\ To(r, "failing")
  /\ UNCHANGED <<dest, staging, backup, device, before>>

(* The inner except clause: the former bundle goes back to its place, or its   *)
(* rename raises too and the request ends without it.                          *)
ActivationFails(r) ==
  /\ At(r, "activating")
  /\ \/ dest' = (IF backup[r] # NoBundle THEN backup[r] ELSE dest)
        /\ backup' = [backup EXCEPT ![r] = NoBundle]
        /\ To(r, "failing")
     \/ backup[r] # NoBundle
        /\ To(r, "losing")
        /\ UNCHANGED <<dest, backup>>
  /\ UNCHANGED <<staging, device, before>>

(* rmtree of the former bundle, file by file; what it cannot remove stays, and *)
(* the installation has succeeded all the same.                                *)
RemoveFormer(r) ==
  /\ At(r, "activated")
  /\ backup[r] # NoBundle
  /\ \/ \E p \in backup[r].parts : backup' = [backup EXCEPT ![r].parts = @ \ {p}]
     \/ backup[r].parts = {} /\ backup' = [backup EXCEPT ![r] = NoBundle]
  /\ UNCHANGED <<dest, staging, lock, pc, device, before>>

Succeed(r) ==
  /\ At(r, "activated")
  /\ Answer(r, "installed")
  /\ UNCHANGED <<dest, staging, backup, device, before>>

(* The finally clause: rmtree of the staging directory, errors ignored.        *)
ClearStaging(r, from, outcome) ==
  /\ At(r, from)
  /\ \/ staging' = [staging EXCEPT ![r] = NoBundle]
     \/ \E some \in SUBSET staging[r].parts : staging' = [staging EXCEPT ![r].parts = some]
  /\ Answer(r, outcome)
  /\ UNCHANGED <<dest, backup, device, before>>

Fail(r) == ClearStaging(r, "failing", "failed")
FailWithout(r) == ClearStaging(r, "losing", "unrestored")

(* The process dies and is started again: the disk stays as it is.             *)
Crash ==
  /\ pc' = [r \in Requests |-> IF pc[r] = "new" THEN "new" ELSE "lost"]
  /\ lock' = Nobody
  /\ UNCHANGED <<dest, staging, backup, device, before>>

Next ==
  \/ \E r \in Requests :
       \/ Ask(r) \/ TakeLock(r) \/ BeginStaging(r) \/ Refuse(r)
       \/ Build(r) \/ BuildFails(r) \/ KeepFormer(r) \/ NothingToKeep(r)
       \/ Activate(r) \/ ActivationFails(r) \/ RemoveFormer(r) \/ Succeed(r)
       \/ Fail(r) \/ FailWithout(r)
  \/ Crash

Spec == Init /\ [][Next]_vars

--------------------------------------------------------------------------------
(* The variables have their types.                                             *)
TypeOK ==
  /\ dest \in Bundles \cup {NoBundle}
  /\ staging \in [Requests -> Bundles \cup {NoBundle}]
  /\ backup \in [Requests -> Bundles \cup {NoBundle}]
  /\ lock \in Requests \cup {Nobody}
  /\ pc \in [Requests -> {"new", "waiting", "checking", "building", "activating", "activated",
                          "failing", "losing", "installed", "failed", "unrestored", "lost"}]
  /\ device \in [Requests -> Devices]
  /\ before \in [Requests -> Bundles \cup {NoBundle}]

(* The complete bundles on the disk, installed or kept aside.                  *)
Kept == {b \in {dest} \cup {backup[r] : r \in Requests} : b # NoBundle /\ Whole(b)}

(* A complete bundle disappears from the disk only when a complete one that is *)
(* not of an older revision is installed: whatever fails and wherever the      *)
(* process dies, nobody is left without the runtime there was                  *)
(* (assemble_qwen_tts_bundle, _validate_upgrade).                              *)
KeepsBundles ==
  \A b \in Kept : \/ b \in Kept'
                  \/ /\ dest' \in Kept'
                     /\ RevisionOf(b) <= RevisionOf(dest')
NothingLost == [][KeepsBundles]_vars

(* A request that is answered with an error, and could put back what it had    *)
(* moved, leaves the very bundle that was installed before it, however many    *)
(* requests wait beside it.                                                    *)
FailsInPlace == \A r \in Requests : pc[r] # "failed" /\ pc'[r] = "failed" => dest' = before[r]
FailureKeepsTheFormer == [][FailsInPlace]_vars
================================================================================
