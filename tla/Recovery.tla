------------------------------ MODULE Recovery ------------------------------
(***************************************************************************)
(* A machine over its whole life: installed from the live system           *)
(* (Installer), booted from its disks, updated, and taken to the recovery  *)
(* environment of recovery/kairos_recovery.py and bin/kairos-recovery.     *)
(*                                                                         *)
(* An installed system lives in the subvolume @; its snapshots lie beside  *)
(* it.  What a boot starts is decided by the entries the installer wrote,  *)
(* what recovery changes is the default subvolume of the file system.      *)
(*                                                                         *)
(* Abstractions:                                                           *)
(*  - a system is the number of updates in it; a snapshot is that number   *)
(*    and its own;                                                         *)
(*  - diagnostics, accounts, networking, "System Restore" and the shell    *)
(*    leave disks and subvolumes alone;                                    *)
(*  - external: an update takes its snapshot first and may be journaled    *)
(*    (nothing in the repository does so), snapper takes and deletes       *)
(*    snapshots, set-default may fail, and a disk boots that has a base    *)
(*    system, a boot loader and the kernel where its entries look for it;  *)
(*    what is missing somebody may add by hand.                            *)
(***************************************************************************)
EXTENDS Installer, SequencesExt

CONSTANTS
  MaxUpdates,   \* bound: updates of one system
  MaxSnapshots  \* bound: snapshots ever taken of one system

ASSUME RecoveryAssumption == MaxUpdates \in Nat /\ MaxSnapshots \in Nat

VARIABLES
  running,  \* what the machine runs: the live system, nothing, or a system
  system,   \* what is in the file system of each disk
  promise   \* what recovery has said the next boot will start

rvars == <<ivars, running, system, promise>>

LiveSystem == [disk |-> NoDisk, version |-> 0]
Down == [disk |-> "down", version |-> 0]

ASSUME DownIsNoDisk == Down.disk \notin Disks \cup {NoDisk}

Snapshot == [nr : 1 .. MaxSnapshots, version : 0 .. MaxUpdates]
System == [version : 0 .. MaxUpdates, taken : 0 .. MaxSnapshots,
           snapshots : Seq(Snapshot), default : 0 .. MaxSnapshots,
           journal : 0 .. MaxSnapshots]
\* Snapshot 0 is none; as the default subvolume it is the file system itself.
NewSystem == [version |-> 0, taken |-> 0, snapshots |-> <<>>, default |-> 0, journal |-> 0]

By == {"nobody", "previous", "rollback", "unread rollback", "engine"}
NoPromise == [by |-> "nobody", disk |-> NoDisk, version |-> 0]

Here == running.disk
Snapshots(d) == ToSet(system[d].snapshots)
WithNumber(d, nr) == CHOOSE s \in Snapshots(d) : s.nr = nr
Listed(d, nr) == \E s \in Snapshots(d) : s.nr = nr

----------------------------------------------------------------------------
(* Booting *)

(***************************************************************************)
(* What a boot of disk d lacks besides the base system: systemd-boot reads *)
(* the EFI partition only, where the entries name /vmlinuz-kairos; GRUB    *)
(* reads any file system.                                                  *)
(***************************************************************************)
Missing(d) ==
  IF efi THEN {"loader", "entries", "kernel"} \ content[d].esp
  ELSE ({"grub", "grub.cfg"} \ FilesOf(d, "@")) \cup ({"kernel"} \ content[d].boot)

Bootable(d) ==
  /\ content[d].parts
  /\ "packages" \in FilesOf(d, "@")
  /\ Missing(d) = {}

\* External: somebody adds by hand what a boot lacks, a session of its own kind.
AddMissing(d) ==
  /\ running = Down /\ content[d].parts /\ "packages" \in FilesOf(d, "@")
  /\ Mishaps < MaxMishaps /\ sessions' = sessions + 1
  /\ content' = [content EXCEPT
       ![d].esp = IF efi THEN @ \cup Missing(d) ELSE @,
       ![d].boot = IF efi THEN @ ELSE @ \cup (Missing(d) \cap {"kernel"}),
       ![d].files = IF efi THEN @ ELSE @ \cup ({"@"} \X (Missing(d) \ {"kernel"}))]
  /\ UNCHANGED <<efi, mapper, mnt, bare, session, failures, running, system, promise>>

\* Mutant: the default subvolume is what boots.
DefaultVersion(d) ==
  IF Listed(d, system[d].default) THEN WithNumber(d, system[d].default).version
  ELSE system[d].version

\* Every entry has "rootflags=subvol=@".
BootedVersion(d) == system[d].version

(***************************************************************************)
(* A boot starts with nothing mounted and nothing unlocked, and an empty   *)
(* directory /mnt.                                                         *)
(***************************************************************************)
Restarted == mapper' = NoDisk /\ mnt' = <<LiveDirectory>> /\ bare' = {}

BootDisk(d) ==
  /\ running = Down /\ Bootable(d)
  /\ running' = [disk |-> d, version |-> BootedVersion(d)]
  /\ promise' = NoPromise
  /\ UNCHANGED <<ivars, system>>

BootLive ==
  /\ running = Down /\ Mishaps < MaxMishaps
  /\ running' = LiveSystem /\ promise' = NoPromise
  /\ UNCHANGED <<ivars, system>>

\* Restart, power loss, "systemctl reboot": whatever ran is gone.
GoesDown ==
  /\ running' = Down /\ Restarted
  /\ session' = NoSession
  /\ UNCHANGED <<efi, content, sessions, failures>>

\* Between sessions; Interrupt is the same for the disks within one.
Restart ==
  /\ running # Down /\ session.stage \in {"off", "exited"}
  /\ GoesDown
  /\ UNCHANGED <<system, promise>>

----------------------------------------------------------------------------
(* The installed system: external *)

OnInstalled == Here \in Disks
Change(new) == system' = [system EXCEPT ![Here] = new]

Taken(s) == [s EXCEPT !.taken = @ + 1,
                      !.snapshots = Append(@, [nr |-> s.taken + 1, version |-> s.version])]

TakeSnapshot ==
  /\ OnInstalled /\ system[Here].taken < MaxSnapshots
  /\ Change(Taken(system[Here]))
  /\ UNCHANGED <<ivars, running, promise>>

DeleteSnapshot ==
  /\ OnInstalled
  /\ \E i \in DOMAIN system[Here].snapshots :
       /\ system[Here].snapshots[i].nr # system[Here].default
       /\ Change([system[Here] EXCEPT !.snapshots = RemoveAt(@, i)])
  /\ UNCHANGED <<ivars, running, promise>>

Update(journaled) ==
  LET s == Taken(system[Here])
  IN /\ OnInstalled
     /\ system[Here].taken < MaxSnapshots /\ running.version < MaxUpdates
     /\ Change([s EXCEPT !.version = running.version + 1,
                         !.journal = IF journaled THEN s.taken ELSE @])
     /\ running' = [running EXCEPT !.version = @ + 1]
     /\ UNCHANGED <<ivars, promise>>

----------------------------------------------------------------------------
(* The recovery environment *)

\* "btrfs subvolume set-default", then the reboot; a failure is reported.
SetDefault(s, by) ==
  \/ /\ Change([system[Here] EXCEPT !.default = s.nr])
     /\ promise' = [by |-> by, disk |-> Here, version |-> s.version]
     /\ GoesDown
  \/ UNCHANGED <<ivars, running, system, promise>>

\* "Boot Previous Version": the user picks any snapshot of the list.
BootPrevious ==
  /\ OnInstalled
  /\ \E s \in Snapshots(Here) : SetDefault(s, "previous")

\* Mutant: the journal is not asked.
LastSnapshot(d, read) == Last(system[d].snapshots)

(***************************************************************************)
(* "Rollback Update": the snapshot the journal names for the last update   *)
(* if it can be read and the snapshot is still listed, else the last one   *)
(* listed.                                                                 *)
(***************************************************************************)
RollbackTarget(d, read) ==
  IF read /\ Listed(d, system[d].journal) THEN WithNumber(d, system[d].journal)
  ELSE Last(system[d].snapshots)

RollbackUpdate ==
  /\ OnInstalled /\ system[Here].snapshots # <<>>
  /\ \E read \in BOOLEAN :
       SetDefault(RollbackTarget(Here, read), IF read THEN "rollback" ELSE "unread rollback")

\* "Repair System": the loader of systemd-boot and the initramfs are made anew.
Repair ==
  /\ OnInstalled
  /\ "packages" \in FilesOf(Here, "@")
  /\ content' = [content EXCEPT ![Here].files = @ \cup {<<"@", "initramfs">>},
                                ![Here].esp = IF efi THEN @ \cup {"loader"} ELSE @]
  /\ UNCHANGED <<efi, mapper, mnt, bare, session, sessions, failures>>
  /\ UNCHANGED <<running, system, promise>>

(***************************************************************************)
(* RecoveryEngine.rollback_update: "System configured to boot from         *)
(* snapshot ... on next boot", for a name that need not be a snapshot's.   *)
(***************************************************************************)
EngineRollback ==
  /\ OnInstalled
  /\ promise' = [by |-> "engine", disk |-> Here, version |-> 0]
  /\ UNCHANGED <<ivars, running, system>>

\* The entry of bin/kairos-recovery's menu reboots after it.
EngineBootPrevious ==
  /\ OnInstalled
  /\ promise' = [by |-> "engine", disk |-> Here, version |-> 0]
  /\ GoesDown
  /\ UNCHANGED system

----------------------------------------------------------------------------
(* The specification *)

RecoveryInit ==
  /\ InstallerInit
  /\ running = LiveSystem
  /\ system = [d \in Disks |-> NewSystem]
  /\ promise = NoPromise

(***************************************************************************)
(* The installer runs on the live system; a file system it makes has       *)
(* neither snapshots nor updates in it.                                    *)
(***************************************************************************)
Live(Action) ==
  /\ running = LiveSystem
  /\ Action
  /\ system' = [d \in Disks |-> IF content'[d].btrfs = "ready" THEN system[d] ELSE NewSystem]
  /\ UNCHANGED <<running, promise>>

Boots == BootLive \/ Restart \/ \E d \in Disks : BootDisk(d) \/ AddMissing(d)
Lives == TakeSnapshot \/ DeleteSnapshot \/ \E journaled \in BOOLEAN : Update(journaled)
Recovers ==
  \/ BootPrevious \/ RollbackUpdate \/ Repair
  \/ EngineRollback \/ EngineBootPrevious

RecoveryNext == Live(InstallerNext) \/ Boots \/ Lives \/ Recovers

\* The fairness of the installer.
FairRecoverySpec ==
  /\ RecoveryInit /\ [][RecoveryNext]_rvars
  /\ WF_rvars(Live(Work)) /\ WF_rvars(Live(Continue \/ GiveUp))

----------------------------------------------------------------------------
(* Properties *)

(***************************************************************************)
(* Types of what the machine runs and of the systems on its disks.         *)
(***************************************************************************)
RecoveryTypeOK ==
  /\ InstallerTypeOK
  /\ running \in [disk : Disks, version : 0 .. MaxUpdates] \cup {LiveSystem, Down}
  /\ system \in [Disks -> System]
  /\ promise \in [by : By, disk : Disks \cup {NoDisk}, version : 0 .. MaxUpdates]

(***************************************************************************)
(* A session that found nothing open and in which no command failed of     *)
(* itself leaves a disk with a base system and its kernel that does not    *)
(* boot: there is no GRUB on a machine without UEFI; with UEFI the kernel  *)
(* is not where the boot loader looks for it, and where the encryption the *)
(* installer recommends was not declined the boot loader is missing too.   *)
(***************************************************************************)
CleanInstallsDoNotBoot ==
  Clean /\ RealInstall =>
    /\ content[Disk].parts /\ "packages" \in FilesOf(Disk, "@")
    /\ "kernel" \in content[Disk].boot
    /\ Missing(Disk) = IF ~efi THEN {"grub", "grub.cfg"}
                       ELSE IF session.encrypt THEN {"loader", "entries", "kernel"}
                       ELSE {"kernel"}

(***************************************************************************)
(* Whatever recovery has set ("Rollback committed. Rebooting..."), the     *)
(* next boot of that disk starts no older system than the one promised,    *)
(* and after the rollback of a journaled update one that still has the     *)
(* update: the entries name the subvolume @, and the default subvolume     *)
(* does not matter.                                                        *)
(***************************************************************************)
Rollbacks == {"previous", "rollback", "unread rollback"}
RollbacksDoNotBoot ==
  [][running = Down /\ promise.by \in Rollbacks /\ running'.disk = promise.disk
       => /\ running'.version >= promise.version
          /\ promise.by = "rollback" /\ Listed(promise.disk, system[promise.disk].journal)
               => running'.version > promise.version]_rvars

(***************************************************************************)
(* "Revert to pre-update snapshot": a rollback after a journaled update    *)
(* chooses a snapshot without that update, as long as the journal can be   *)
(* read and the one taken before the update is there; otherwise it chooses *)
(* the newest there is, be it of the system that runs.                     *)
(***************************************************************************)
RollbacksChooseThePast ==
  [][promise'.by \in {"rollback", "unread rollback"} /\ promise' # promise =>
       IF promise'.by = "rollback" /\ Listed(Here, system[Here].journal)
       THEN promise'.version < running.version
       ELSE /\ promise'.version <= running.version
            /\ \A s \in Snapshots(Here) : s.version <= promise'.version]_rvars
=============================================================================
