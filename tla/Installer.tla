----------------------------- MODULE Installer -----------------------------
(***************************************************************************)
(* The installer of installer/kairos_installer.py on a live system, run    *)
(* once or several times without a reboot in between.                      *)
(*                                                                         *)
(* After the questions and the confirmation a session is a fixed program:  *)
(* the steps of phase_install, then phase_bootloader, phase_health_check   *)
(* and phase_first_boot.  A step is a queue of commands.  A command takes  *)
(* effect, or fails because the state of the machine forbids it, or fails  *)
(* for a reason of its own; Ctrl+C may come between any two.  The state    *)
(* outside of a session is what its commands leave behind: the disks, the  *)
(* mapping kairos-root, the mounts on /mnt and the plain directory /mnt    *)
(* of the live system.                                                     *)
(*                                                                         *)
(* Abstractions:                                                           *)
(*  - a file stands for all that one step writes; a file a later command   *)
(*    replaces is not told from the first;                                 *)
(*  - of the mounts below /mnt only /mnt/efi and /mnt/boot are kept;       *)
(*  - a disk too small, a declined layout and the choice to skip are one   *)
(*    answer: no disk.  Language, keyboard, accounts and packages decide   *)
(*    nothing here; the network is configured;                             *)
(*  - external: a file system in use is not formatted and a container in   *)
(*    use not closed; a mount needs the file system and the directory; a   *)
(*    program in the chroot needs the base system, bootctl an EFI          *)
(*    partition, and the programs of GRUB a package no profile lists; the  *)
(*    live system has pacstrap, and the kernel package writes to /boot.    *)
(***************************************************************************)
EXTENDS Naturals, Sequences, FiniteSets

CONSTANTS
  Disks,        \* the disks of the machine
  NoDisk,       \* no disk: nothing selected, mapped or mounted
  MaxMishaps    \* bound: sessions after the first, and commands that fail for
                \* a reason of their own, together

ASSUME InstallerAssumption ==
  /\ NoDisk \notin Disks
  /\ MaxMishaps \in Nat

VARIABLES
  efi,       \* the machine booted by UEFI
  content,   \* what is on each disk
  mapper,    \* the disk behind /dev/mapper/kairos-root
  mnt,       \* what lies on /mnt, the live system's own directory first
  bare,      \* the files in that directory
  session,   \* the installer: its InstallState and where it is
  sessions,  \* how often the installer was started
  failures   \* how many commands have failed for a reason of their own

machine == <<efi, content, mapper, mnt, bare>>
ivars == <<machine, session, sessions, failures>>

----------------------------------------------------------------------------
(* Disks, mounts and files *)

ConfigFiles == {"fstab", "hostname", "locale", "sudoers", "limits", "identity",
                "first-boot.json"}
Files == ConfigFiles \cup
  {"efi", "boot", "packages", "timezone", "network", "accounts", "initramfs",
   "services", "firstboot enabled", "loader", "entries", "grub", "grub defaults",
   "grub.cfg", "firstboot service"}
Subvolumes == {"top", "@"}

(***************************************************************************)
(* Per disk: whether it has partitions, what the EFI and the boot          *)
(* partition hold, whether the third is a LUKS container, how far its      *)
(* Btrfs has got, and the files by subvolume.                              *)
(***************************************************************************)
Content == [parts : BOOLEAN, esp : SUBSET {"fat", "loader", "entries", "kernel"},
            boot : SUBSET {"ext4", "kernel"}, luks : BOOLEAN,
            btrfs : {"none", "made", "ready"}, files : SUBSET (Subvolumes \X Files)]
\* A disk with somebody's system on it, in a container that may be unlocked.
Foreign(luks) == [parts |-> TRUE, esp |-> {}, boot |-> {},
                  luks |-> luks, btrfs |-> "none", files |-> {}]

Layer == [disk : Disks \cup {NoDisk}, subvolume : Subvolumes \cup {"live"},
          efi : Disks \cup {NoDisk}, boot : Disks \cup {NoDisk}]
LiveDirectory == [disk |-> NoDisk, subvolume |-> "live", efi |-> NoDisk, boot |-> NoDisk]

Top == mnt[Len(mnt)]
IsMounted == Len(mnt) > 1
MountedDisks == {mnt[i].disk : i \in DOMAIN mnt} \cup {mnt[i].efi : i \in DOMAIN mnt}
                \cup {mnt[i].boot : i \in DOMAIN mnt}
OpenDisks == (MountedDisks \cup {mapper}) \ {NoDisk}

\* The files under /mnt as a program sees them.
FilesOf(d, subvolume) == {f \in Files : <<subvolume, f>> \in content[d].files}
Visible == IF IsMounted THEN FilesOf(Top.disk, Top.subvolume) ELSE bare

----------------------------------------------------------------------------
(* Commands and the program *)

(***************************************************************************)
(* A command whose failure raises is "checked"; the failure of any other   *)
(* is ignored, or raises all the same when the tool is missing or hangs.   *)
(***************************************************************************)
Command(do, what, checked) == [do |-> do, what |-> what, checked |-> checked]
Run(do) == Command(do, "", TRUE)
Try(do) == Command(do, "", FALSE)
Write(f) == Command("write", f, TRUE)
TryWrite(f) == Command("write", f, FALSE)
Chroot(f) == Command("chroot", f, FALSE)

Does == {"zap", "new partitions", "mkfs efi", "mkfs boot", "luksFormat", "luksOpen",
         "mkfs root", "create subvolumes", "mount top", "mount root", "mount subvolumes",
         "mount efi", "mount boot", "umount below", "umount", "luksClose",
         "write", "chroot", "pacstrap", "health check"}
Commands == {c \in [do : Does, what : Files \cup {""}, checked : BOOLEAN] :
               c.what \in Files <=> c.do \in {"write", "chroot"}}

\* An InstallState, with where the session is and what it found at its start.
Stages == {"off", "questions", "confirm", "run", "ask", "exited"}
Session == [stage : Stages, step : Nat, queue : Seq(Commands),
            dry : BOOLEAN, disk : Disks \cup {NoDisk}, encrypt : BOOLEAN,
            typed : BOOLEAN, code : {0, 1, 2, 130}, undisturbed : BOOLEAN,
            fresh : BOOLEAN, leftover : SUBSET Disks]
NoSession == [stage |-> "off", step |-> 0, queue |-> <<>>, dry |-> FALSE,
              disk |-> NoDisk, encrypt |-> TRUE, typed |-> FALSE, code |-> 0,
              undisturbed |-> TRUE, fresh |-> TRUE, leftover |-> {}]

OnDisk(s, commands) == IF s.disk = NoDisk THEN <<>> ELSE commands
OnlyLive(s, commands) == IF s.dry THEN <<>> ELSE commands

PartitionCommands(s) == OnDisk(s, <<Run("zap"), Run("new partitions")>>)
FormatCommands(s) ==
  OnDisk(s, IF efi THEN <<Run("mkfs efi"), Run("mkfs boot")>> ELSE <<Run("mkfs boot")>>)
LuksCommands(s) ==
  OnDisk(s, IF s.encrypt THEN <<Run("luksFormat"), Run("luksOpen")>> ELSE <<>>)
BtrfsCommands(s) ==
  OnDisk(s, <<Run("mkfs root"), Run("mount top"), Run("create subvolumes"), Run("umount")>>)
\* Mutant: a disk without encryption is not mounted again.
MountEncryptedOnly(s) ==
  OnDisk(s, IF s.encrypt THEN <<Run("mount root"), Run("mount subvolumes")>> ELSE <<>>)

MountCommands(s) ==
  OnDisk(s, <<Run("mount root"), Run("mount subvolumes")>>
            \o (IF efi THEN OnlyLive(s, <<Write("efi")>>) \o <<Run("mount efi")>> ELSE <<>>)
            \o OnlyLive(s, <<Write("boot")>>) \o <<Run("mount boot")>>)
PackagesCommands(s) == OnlyLive(s, <<Run("pacstrap")>>)
FstabCommands(s) == OnlyLive(s, <<Write("fstab")>>)
HostnameCommands(s) == OnlyLive(s, <<Write("hostname")>>)
LocaleCommands(s) == OnlyLive(s, <<Write("locale")>>)
TimezoneCommands(s) == OnlyLive(s, <<TryWrite("timezone")>>)
NetworkCommands(s) == OnlyLive(s, <<Write("network")>>)
UsersCommands(s) == <<Chroot("accounts")>>
SudoCommands(s) == OnlyLive(s, <<Write("sudoers")>>)
GroupsCommands(s) == OnlyLive(s, <<Write("limits")>>)
IdentityCommands(s) == OnlyLive(s, <<Write("identity")>>)
InitramfsCommands(s) == <<Chroot("initramfs")>>
ServicesCommands(s) == <<Chroot("services"), Chroot("firstboot enabled")>>
FirstbootConfigCommands(s) == OnlyLive(s, <<Write("first-boot.json")>>)

CloseCommands(s) == IF s.encrypt THEN <<Try("luksClose")>> ELSE <<>>
\* Mutant: the container stays open for the bootloader.
UnmountOnly(s) == OnlyLive(s, OnDisk(s, <<Try("umount below"), Try("umount")>>))

\* The umounts are guarded by os.path.ismount, the close is not.
UnmountCommands(s) ==
  OnlyLive(s, OnDisk(s, <<Try("umount below"), Try("umount")>> \o CloseCommands(s)))

\* Nothing is mounted again while something still lies on /mnt.
RemountCommands(s) ==
  IF IsMounted THEN <<>>
  ELSE OnlyLive(s, OnDisk(s,
         <<Try("mount root")>> \o (IF efi THEN <<Try("mount efi")>> ELSE <<>>)
         \o <<Try("mount boot")>>))
SystemdBootCommands(s) ==
  <<Chroot("loader")>> \o OnlyLive(s, <<Write("efi"), TryWrite("entries")>>)
GrubCommands(s) ==
  <<Chroot("grub")>> \o OnlyLive(s, <<Write("grub defaults")>>) \o <<Chroot("grub.cfg")>>
BootEntryCommands(s) == IF efi THEN SystemdBootCommands(s) ELSE GrubCommands(s)
\* Mutant: the bootloader leaves the target mounted.
NoRelease(s) == <<>>

ReleaseCommands(s) ==
  IF IsMounted THEN OnlyLive(s, OnDisk(s, <<Try("umount")>> \o CloseCommands(s))) ELSE <<>>
HealthCommands(s) == <<Run("health check")>>
FirstBootCommands(s) == OnlyLive(s, <<TryWrite("firstboot service")>>)

InstallSteps ==
  <<"partition", "format", "luks", "btrfs", "mount", "packages", "fstab", "hostname",
    "locale", "timezone", "network", "users", "sudo", "groups", "identity", "initramfs",
    "services", "firstboot config", "unmount">>
LaterSteps == <<"remount", "boot entry", "release", "health", "first boot">>
Program == InstallSteps \o LaterSteps

CommandsOf(name, s) ==
  CASE name = "partition" -> PartitionCommands(s)
    [] name = "format" -> FormatCommands(s)
    [] name = "luks" -> LuksCommands(s)
    [] name = "btrfs" -> BtrfsCommands(s)
    [] name = "mount" -> MountCommands(s)
    [] name = "packages" -> PackagesCommands(s)
    [] name = "fstab" -> FstabCommands(s)
    [] name = "hostname" -> HostnameCommands(s)
    [] name = "locale" -> LocaleCommands(s)
    [] name = "timezone" -> TimezoneCommands(s)
    [] name = "network" -> NetworkCommands(s)
    [] name = "users" -> UsersCommands(s)
    [] name = "sudo" -> SudoCommands(s)
    [] name = "groups" -> GroupsCommands(s)
    [] name = "identity" -> IdentityCommands(s)
    [] name = "initramfs" -> InitramfsCommands(s)
    [] name = "services" -> ServicesCommands(s)
    [] name = "firstboot config" -> FirstbootConfigCommands(s)
    [] name = "unmount" -> UnmountCommands(s)
    [] name = "remount" -> RemountCommands(s)
    [] name = "boot entry" -> BootEntryCommands(s)
    [] name = "release" -> ReleaseCommands(s)
    [] name = "health" -> HealthCommands(s)
    [] name = "first boot" -> FirstBootCommands(s)

----------------------------------------------------------------------------
(* What commands need and do *)

Disk == session.disk
RootDevice == IF session.encrypt THEN mapper ELSE Disk
RootInUse(d) == \E i \in DOMAIN mnt : mnt[i].disk = d
HasRoot(stages) ==
  /\ RootDevice # NoDisk
  /\ content[RootDevice].luks = session.encrypt
  /\ content[RootDevice].btrfs \in stages

\* The machine lets the command do its work.
Possible(c) ==
  /\ c.do \in {"mkfs efi", "mkfs boot", "luksFormat", "mkfs root"} => content[Disk].parts
  /\ c.do = "mkfs efi" => \A i \in DOMAIN mnt : mnt[i].efi # Disk
  /\ c.do = "mkfs boot" => \A i \in DOMAIN mnt : mnt[i].boot # Disk
  /\ c.do = "luksFormat" => mapper # Disk /\ ~RootInUse(Disk)
  /\ c.do = "luksOpen" => mapper = NoDisk /\ content[Disk].luks
  /\ c.do = "mkfs root" =>
       /\ RootDevice # NoDisk /\ ~RootInUse(RootDevice)
       /\ session.encrypt \/ mapper # Disk
  /\ c.do = "mount top" => HasRoot({"made", "ready"})
  /\ c.do = "mount root" => HasRoot({"ready"})
  /\ c.do = "mount efi" =>
       "fat" \in content[Disk].esp /\ "efi" \in Visible /\ Top.efi = NoDisk
  /\ c.do = "mount boot" =>
       "ext4" \in content[Disk].boot /\ Visible \cap {"boot", "packages"} # {} /\ Top.boot = NoDisk
  /\ c.do = "umount" => IsMounted
  /\ c.do = "luksClose" => mapper # NoDisk /\ ~RootInUse(mapper)
  /\ c.do = "chroot" => "packages" \in Visible
  /\ c.what = "firstboot enabled" => "firstboot service" \in Visible
  /\ c.what = "loader" => Top.efi # NoDisk
  /\ c.what \in {"grub", "grub.cfg"} => "grub" \in Visible

Put(d, new) == content' = [content EXCEPT ![d] = new]
SetTop(layer) == mnt' = [mnt EXCEPT ![Len(mnt)] = layer]
Push(subvolume) ==
  mnt' = Append(mnt, [disk |-> RootDevice, subvolume |-> subvolume,
                      efi |-> NoDisk, boot |-> NoDisk])

\* Mutant: a command takes effect in a dry run.
PerformsAlways(do) ==
  /\ session.stage = "run"
  /\ session.queue # <<>> /\ Head(session.queue).do = do
  /\ Possible(Head(session.queue))

\* The next command of the session takes effect.
Performs(do) ==
  /\ session.stage = "run" /\ ~session.dry
  /\ session.queue # <<>> /\ Head(session.queue).do = do
  /\ Possible(Head(session.queue))
Proceed == session' = [session EXCEPT !.queue = Tail(@)]
Mishaps == failures + (IF sessions > 1 THEN sessions - 1 ELSE 0)
Undisturbed == UNCHANGED <<efi, sessions, failures>>

(***************************************************************************)
(* Commands on the disk.  A step of several sgdisk calls first wipes the   *)
(* table and then writes the new one.                                      *)
(***************************************************************************)
Zap ==
  /\ Performs("zap")
  /\ Put(Disk, [content[Disk] EXCEPT !.parts = FALSE])
  /\ Proceed /\ Undisturbed /\ UNCHANGED <<mapper, mnt, bare>>

NewPartitions ==
  /\ Performs("new partitions")
  /\ Put(Disk, [content[Disk] EXCEPT !.parts = TRUE])
  /\ Proceed /\ Undisturbed /\ UNCHANGED <<mapper, mnt, bare>>

MkfsEfi ==
  /\ Performs("mkfs efi")
  /\ Put(Disk, [content[Disk] EXCEPT !.esp = {"fat"}])
  /\ Proceed /\ Undisturbed /\ UNCHANGED <<mapper, mnt, bare>>

MkfsBoot ==
  /\ Performs("mkfs boot")
  /\ Put(Disk, [content[Disk] EXCEPT !.boot = {"ext4"}])
  /\ Proceed /\ Undisturbed /\ UNCHANGED <<mapper, mnt, bare>>

LuksFormat ==
  /\ Performs("luksFormat")
  /\ Put(Disk, [content[Disk] EXCEPT !.luks = TRUE, !.btrfs = "none",
                                     !.files = {}])
  /\ Proceed /\ Undisturbed /\ UNCHANGED <<mapper, mnt, bare>>

LuksOpen ==
  /\ Performs("luksOpen")
  /\ mapper' = Disk
  /\ Proceed /\ Undisturbed /\ UNCHANGED <<content, mnt, bare>>

\* The device of the root file system is the mapping, whichever disk is behind it.
MkfsRoot ==
  /\ Performs("mkfs root")
  /\ Put(RootDevice, [content[RootDevice] EXCEPT !.luks = session.encrypt,
                                                 !.btrfs = "made", !.files = {}])
  /\ Proceed /\ Undisturbed /\ UNCHANGED <<mapper, mnt, bare>>

CreateSubvolumes ==
  /\ Performs("create subvolumes")
  /\ Put(Top.disk, [content[Top.disk] EXCEPT !.btrfs = "ready"])
  /\ Proceed /\ Undisturbed /\ UNCHANGED <<mapper, mnt, bare>>

(***************************************************************************)
(* Mounts.                                                                 *)
(***************************************************************************)
MountTop ==
  /\ Performs("mount top") /\ Push("top")
  /\ Proceed /\ Undisturbed /\ UNCHANGED <<content, mapper, bare>>

MountRoot ==
  /\ Performs("mount root") /\ Push("@")
  /\ Proceed /\ Undisturbed /\ UNCHANGED <<content, mapper, bare>>

MountSubvolumes ==
  /\ Performs("mount subvolumes")
  /\ Proceed /\ Undisturbed /\ UNCHANGED <<content, mapper, mnt, bare>>

MountEfi ==
  /\ Performs("mount efi") /\ SetTop([Top EXCEPT !.efi = Disk])
  /\ Proceed /\ Undisturbed /\ UNCHANGED <<content, mapper, bare>>

MountBoot ==
  /\ Performs("mount boot") /\ SetTop([Top EXCEPT !.boot = Disk])
  /\ Proceed /\ Undisturbed /\ UNCHANGED <<content, mapper, bare>>

UmountBelow ==
  /\ Performs("umount below") /\ SetTop([Top EXCEPT !.efi = NoDisk, !.boot = NoDisk])
  /\ Proceed /\ Undisturbed /\ UNCHANGED <<content, mapper, bare>>

\* Mutant: an umount does not ask for a mount.
UmountUnguarded ==
  /\ session.stage = "run" /\ ~session.dry
  /\ session.queue # <<>> /\ Head(session.queue).do = "umount"
  /\ mnt' = SubSeq(mnt, 1, Len(mnt) - 1)
  /\ Proceed /\ Undisturbed /\ UNCHANGED <<content, mapper, bare>>

Umount ==
  /\ Performs("umount") /\ mnt' = SubSeq(mnt, 1, Len(mnt) - 1)
  /\ Proceed /\ Undisturbed /\ UNCHANGED <<content, mapper, bare>>

LuksClose ==
  /\ Performs("luksClose") /\ mapper' = NoDisk
  /\ Proceed /\ Undisturbed /\ UNCHANGED <<content, mnt, bare>>

(***************************************************************************)
(* Files go wherever /mnt leads at that moment: to the target, to a file   *)
(* system an earlier session left there, or to the live system itself.     *)
(***************************************************************************)
Store(f) ==
  IF f \in {"loader", "entries"} /\ Top.efi # NoDisk
  THEN Put(Top.efi, [content[Top.efi] EXCEPT !.esp = @ \cup {f}]) /\ UNCHANGED bare
  ELSE IF IsMounted
  THEN /\ Put(Top.disk, [content[Top.disk] EXCEPT !.files = @ \cup {<<Top.subvolume, f>>}])
       /\ UNCHANGED bare
  ELSE bare' = bare \cup {f} /\ UNCHANGED content

WriteFile ==
  /\ Performs("write") \/ Performs("chroot")
  /\ Store(Head(session.queue).what)
  /\ Proceed /\ Undisturbed /\ UNCHANGED <<mapper, mnt>>

\* The base system, with its kernel on the file system mounted at /boot.
Pacstrap ==
  /\ Performs("pacstrap")
  /\ content' = [d \in Disks |-> [content[d] EXCEPT
       !.files = IF d = Top.disk THEN @ \cup {<<Top.subvolume, "packages">>} ELSE @,
       !.boot = IF d = Top.boot THEN @ \cup {"kernel"} ELSE @]]
  /\ bare' = IF IsMounted THEN bare ELSE bare \cup {"packages"}
  /\ Proceed /\ Undisturbed /\ UNCHANGED <<mapper, mnt>>

\* Without a package manager the step logs the list and is done.
NoPackageManager ==
  /\ Performs("pacstrap")
  /\ Mishaps < MaxMishaps /\ failures' = failures + 1
  /\ session' = [session EXCEPT !.queue = Tail(@), !.undisturbed = FALSE]
  /\ UNCHANGED <<machine, sessions>>

----------------------------------------------------------------------------
(* The session *)

(***************************************************************************)
(* main: an automatic session asks nothing and is always dry.              *)
(***************************************************************************)
Start(dry, auto) ==
  /\ session.stage \in {"off", "exited"}
  /\ sessions > 0 => Mishaps < MaxMishaps
  /\ sessions' = sessions + 1
  /\ session' = [NoSession EXCEPT
       !.stage = IF auto THEN "run" ELSE "questions",
       !.dry = dry \/ auto, !.encrypt = ~auto,
       !.fresh = (OpenDisks = {} /\ bare = {}), !.leftover = OpenDisks]
  /\ UNCHANGED <<machine, failures>>

\* Phases 4 and 5: without a disk the question of encryption is not asked.
Answer(d, encrypt) ==
  /\ session.stage = "questions"
  /\ d = NoDisk => encrypt
  /\ session' = [session EXCEPT !.stage = "confirm", !.disk = d, !.encrypt = encrypt]
  /\ UNCHANGED <<machine, sessions, failures>>

\* "Quant Research" is cut to "Quant", which is no profile.
UnknownProfile ==
  /\ session.stage = "questions"
  /\ session' = [session EXCEPT !.stage = "exited", !.code = 1]
  /\ UNCHANGED <<machine, sessions, failures>>

\* Only a live session on a disk asks for the typed phrase.
Confirm ==
  /\ session.stage = "confirm"
  /\ session' = [session EXCEPT !.stage = "run", !.typed = (Disk # NoDisk /\ ~session.dry)]
  /\ UNCHANGED <<machine, sessions, failures>>

Abort ==
  /\ session.stage = "confirm"
  /\ session' = [session EXCEPT !.stage = "exited", !.code = 0]
  /\ UNCHANGED <<machine, sessions, failures>>

AtEndOfStep == session.stage = "run" /\ session.queue = <<>>

BeginStep ==
  /\ AtEndOfStep
  /\ session.step < Len(Program)
  /\ session' = [session EXCEPT !.step = @ + 1,
                                !.queue = CommandsOf(Program[session.step + 1], session)]
  /\ UNCHANGED <<machine, sessions, failures>>

Finish ==
  /\ AtEndOfStep
  /\ session.step = Len(Program)
  /\ session' = [session EXCEPT !.stage = "exited"]
  /\ UNCHANGED <<machine, sessions, failures>>

\* Every command of a dry run succeeds without doing anything.
DryCommand ==
  /\ session.stage = "run" /\ session.dry
  /\ session.queue # <<>> /\ Head(session.queue).do # "health check"
  /\ Proceed
  /\ UNCHANGED <<machine, sessions, failures>>

(***************************************************************************)
(* The health check looks for the files below /mnt, after everything has   *)
(* been unmounted from there.  What it counts becomes the exit code.       *)
(***************************************************************************)
\* Mutant: the files are looked for on the disk.
FailuresOfTheDisk ==
  /\ Disk # NoDisk /\ ~session.dry
  /\ ~(content[Disk].parts /\ ConfigFiles \subseteq FilesOf(Disk, "@"))

HealthFailures ==
  /\ Disk # NoDisk /\ ~session.dry
  /\ ~(content[Disk].parts /\ ConfigFiles \subseteq Visible)

HealthCheck ==
  /\ session.stage = "run"
  /\ session.queue # <<>> /\ Head(session.queue).do = "health check"
  /\ session' = [session EXCEPT !.queue = Tail(@), !.code = IF HealthFailures THEN 2 ELSE 0]
  /\ UNCHANGED <<machine, sessions, failures>>

(***************************************************************************)
(* A command fails: the machine does not allow it, or there is a reason of *)
(* its own.  The failure of a step may be answered; later phases end the   *)
(* installer with 1.                                                       *)
(***************************************************************************)
Fails ==
  /\ session.stage = "run" /\ ~session.dry
  /\ session.queue # <<>> /\ Head(session.queue).do # "health check"
  /\ \/ ~Possible(Head(session.queue)) /\ UNCHANGED failures
     \/ /\ Possible(Head(session.queue))
        /\ Mishaps < MaxMishaps /\ failures' = failures + 1
  /\ UNCHANGED <<machine, sessions>>

Disturbed(s) == [s EXCEPT !.undisturbed = @ /\ failures' = failures]

FailureIgnored ==
  /\ Fails
  /\ ~Head(session.queue).checked
  /\ session' = Disturbed([session EXCEPT !.queue = Tail(@)])

\* Mutant: a failed step is tried again.
FailureRetried ==
  /\ Fails
  /\ Head(session.queue).checked
  /\ session' = [session EXCEPT !.queue = <<>>, !.step = @ - 1]

FailureRaised ==
  /\ Fails
  /\ Head(session.queue).checked \/ Possible(Head(session.queue))
  /\ session' = Disturbed([session EXCEPT
       !.queue = <<>>,
       !.stage = IF session.step <= Len(InstallSteps) THEN "ask" ELSE "exited",
       !.code = 1])

\* "Continue anyway?"
Continue ==
  /\ session.stage = "ask"
  /\ session' = [session EXCEPT !.stage = "run", !.code = 0]
  /\ UNCHANGED <<machine, sessions, failures>>

GiveUp ==
  /\ session.stage = "ask"
  /\ session' = [session EXCEPT !.stage = "exited"]
  /\ UNCHANGED <<machine, sessions, failures>>

\* Ctrl+C: the handler exits at once, and nothing is unmounted or closed.
Interrupt ==
  /\ session.stage \in {"questions", "confirm", "run", "ask"}
  /\ session' = [session EXCEPT !.stage = "exited", !.code = 130, !.queue = <<>>]
  /\ UNCHANGED <<machine, sessions, failures>>

----------------------------------------------------------------------------
(* The specification *)

(***************************************************************************)
(* The machine before the first session: foreign disks, one of which may   *)
(* be unlocked as kairos-root, as recovery/README.md tells to do.          *)
(***************************************************************************)
InstallerInit ==
  /\ efi \in BOOLEAN
  /\ mapper \in Disks \cup {NoDisk}
  /\ content = [d \in Disks |-> Foreign(d = mapper)]
  /\ mnt = <<LiveDirectory>> /\ bare = {}
  /\ session = NoSession /\ sessions = 0 /\ failures = 0

DiskCommand ==
  \/ Zap \/ NewPartitions \/ MkfsEfi \/ MkfsBoot \/ LuksFormat \/ LuksOpen
  \/ MkfsRoot \/ CreateSubvolumes
  \/ MountTop \/ MountRoot \/ MountSubvolumes \/ MountEfi \/ MountBoot
  \/ UmountBelow \/ Umount \/ LuksClose
FileCommand == WriteFile \/ Pacstrap \/ NoPackageManager

\* What goes on without the user; the questions and Ctrl+C are his.
Work ==
  \/ DiskCommand \/ FileCommand \/ DryCommand \/ HealthCheck
  \/ FailureIgnored \/ FailureRaised
  \/ BeginStep \/ Finish

InstallerNext ==
  \/ \E dry, auto \in BOOLEAN : Start(dry, auto)
  \/ \E d \in Disks \cup {NoDisk}, encrypt \in BOOLEAN : Answer(d, encrypt)
  \/ UnknownProfile \/ Confirm \/ Abort
  \/ Work
  \/ Continue \/ GiveUp \/ Interrupt

InstallerSpec == InstallerInit /\ [][InstallerNext]_ivars

(***************************************************************************)
(* The installer goes on by itself (every command has a timeout), and the  *)
(* user answers "Continue anyway?" one way or the other.                   *)
(***************************************************************************)
FairInstallerSpec ==
  InstallerSpec /\ WF_ivars(Work) /\ WF_ivars(Continue \/ GiveUp)

----------------------------------------------------------------------------
(* Properties *)

(***************************************************************************)
(* Types of the machine and of the session.                                *)
(***************************************************************************)
InstallerTypeOK ==
  /\ efi \in BOOLEAN
  /\ content \in [Disks -> Content]
  /\ mapper \in Disks \cup {NoDisk}
  /\ mnt \in Seq(Layer) /\ Len(mnt) >= 1
  /\ bare \subseteq Files
  /\ session \in Session
  /\ sessions \in 0 .. MaxMishaps + 1
  /\ failures \in 0 .. MaxMishaps

(***************************************************************************)
(* "NEVER destructively modify disks without explicit typed confirmation", *)
(* "Dry-run mode makes ZERO disk changes" (installer/kairos_installer.py): *)
(* a session changes only the disk its user typed the phrase for, and a    *)
(* disk that was already unlocked or mounted when the session began; a dry *)
(* run changes neither disks nor mounts nor files.                         *)
(***************************************************************************)
DisksChangeOnConsent ==
  [][session.stage \notin {"off", "exited"} =>
       /\ \A d \in Disks : content'[d] # content[d] =>
            (d = session.disk /\ session.typed) \/ d \in session.leftover
       /\ session.dry => UNCHANGED <<content, mapper, mnt, bare>>]_ivars

Complete == session.stage = "exited" /\ session.step = Len(Program)
Clean == Complete /\ session.fresh /\ session.undisturbed
RealInstall == session.disk # NoDisk /\ ~session.dry

(***************************************************************************)
(* A session that found nothing open and in which no command failed leaves *)
(* nothing mounted and nothing unlocked, whatever it mounts again for the  *)
(* bootloader.                                                             *)
(***************************************************************************)
CleanSessionsCloseAll == Clean => OpenDisks = {}

(***************************************************************************)
(* Such a session puts its configuration and its base system on the disk   *)
(* chosen, encrypted as chosen, and nothing of it into the live system.    *)
(***************************************************************************)
CleanInstallsAreOnTheDisk ==
  Clean /\ RealInstall =>
    /\ content[Disk].luks = session.encrypt
    /\ ConfigFiles \cup {"packages", "accounts", "initramfs"} \subseteq FilesOf(Disk, "@")
    /\ bare \cap ConfigFiles = {}

(***************************************************************************)
(* "Post-install verification" (installer/README.md): a session that found *)
(* nothing open reports success for a disk only when the files it looks    *)
(* for lie in the live system's own /mnt, or the target could not be       *)
(* unmounted: a disk that has been put away properly is never reported     *)
(* installed.                                                              *)
(***************************************************************************)
SuccessIsNotAboutTheDisk ==
  Complete /\ session.fresh /\ RealInstall /\ session.code = 0 =>
    ConfigFiles \subseteq bare \/ IsMounted

(***************************************************************************)
(* A confirmed session comes to an end, whichever commands fail.           *)
(***************************************************************************)
ConfirmedSessionsEnd == session.typed /\ session.stage = "run" ~> session.stage = "exited"
=============================================================================
